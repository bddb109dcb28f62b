SPECIFICATION Spec
CONSTANTS
  Nodes = {n1, n2}
  VMIDs = {v1, v2}
  Clients = {c1, c2}
  MaxRequests = 2
  MaxSecond = 1
SYMMETRY Symmetry
INVARIANTS OnePlacePerGuest AckedSettled
PROPERTY NoGuestLost
CHECK_DEADLOCK FALSE
