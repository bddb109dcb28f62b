SPECIFICATION Spec
CONSTANTS
    Dump <- SmallDump
    Patterns <- SmallPatterns
    Entries <- SmallEntries
    Rules <- SmallRules
    MaxEdits = 3
INVARIANTS
    GreenMeansTrue
PROPERTIES
    NoFabricationOnDisk
