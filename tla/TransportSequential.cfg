SPECIFICATION Spec
CONSTANTS
    c1 = c1
    c2 = c2
    none = none
    Calls <- TwoCalls
    NoCall = none
    EndpointCount = 2
    CredKind = "ticket"
    Skew = 1
    Lifetime = 1
    MaxTime = 1
    MaxRevoked = 1
    Attempts = 2
    Ops <- AllOps
    Down <- PrimaryDown
    MaxActive = 1
INVARIANTS
    TypeOK
    ExpiredOnlyAfterReplay
    SendBudget
    TransientTriedAll
PROPERTIES
    ImplementsOperation
