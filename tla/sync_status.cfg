SPECIFICATION Spec
CONSTANTS
  p1 = p1 p2 = p2
  Peers = {p1, p2}
  None = None
  Tip = 1
  MaxMoves = 1
INVARIANTS TypeOK SyncedIsTrue ShownIsCurrent
PROPERTY StatusSettles
CHECK_DEADLOCK FALSE
