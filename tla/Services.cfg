SPECIFICATION Spec
CONSTANTS
  Names = {a, b}
  MaxLength = 2
  MaxVersion = 3
  Clients = {c1, c2}
  Endpoints = {e1, e2}
  MaxSends = 2
  MaxRelease = 2
INVARIANTS NoOrphanedNodes RepeatHarmless ConfigRoundTrips
           GuardedAppliedOnce GateHolds CallsFit
