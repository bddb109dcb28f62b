SPECIFICATION FairSpec
CONSTANTS
    w1 = w1
    w2 = w2
    u1 = u1
    u2 = u2
    Waiters <- TwoWaiters
    Upids <- TwoTasks
    Empty = Empty
INVARIANTS
    VerdictTrue
PROPERTIES
    WaitReturns
