SPECIFICATION Spec
CONSTANTS
    c1 = c1
    c2 = c2
    none = none
    Calls <- TwoCalls
    NoCall = none
    EndpointCount = 3
    CredKind = "token"
    Skew = 1
    Lifetime = 3
    MaxTime = 1
    MaxRevoked = 0
    Attempts = 1
    Ops <- Requests
    Down <- NoneDown
    MaxActive = 2
INVARIANTS
    TransientTriedAll
