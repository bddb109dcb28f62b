SPECIFICATION FairSpec
CONSTANTS
    N = 4
    FirstOnline = TRUE
    MaxFlaps = 2
INVARIANTS
    NoJoinLost
    FormedIsComplete
PROPERTIES
    FormationEnds
