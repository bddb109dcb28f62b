SPECIFICATION FairSpec
CONSTANTS
    c1 = c1
    c2 = c2
    none = none
    Calls <- TwoCalls
    NoCall = none
    EndpointCount = 1
    CredKind = "user"
    Skew = 1
    Lifetime = 1
    MaxTime = 3
    MaxRevoked = 0
    Attempts = 1
    Ops <- Writes
    Down <- NoneDown
    MaxActive = 2
INVARIANTS
    SuccessMeansServed
    CsrfNotOlder
    RejectedNeverResent
    PromptRequestUnexpired
PROPERTIES
    TicketNeverOlder
    MintOnlyWhenNeeded
    EveryCallReturns
