SPECIFICATION Spec
CONSTANTS
    c1 = c1
    c2 = c2
    none = none
    Calls <- OneCall
    NoCall = none
    EndpointCount = 1
    CredKind = "token"
    Skew = 1
    Lifetime = 3
    MaxTime = 1
    MaxRevoked = 0
    Attempts = 1
    Ops <- Sockets
    Down <- NoneDown
    MaxActive = 1
INVARIANTS
    WebSocketNilNever
