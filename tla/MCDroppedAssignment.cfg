CONSTANTS
  Players = {p1, p2}
  None = None
  Ghost = Ghost
  MaxEntities = 2
  MaxMoves = 2
  MaxDrops = 0
  MaxPending = 3
SPECIFICATION Spec
CHECK_DEADLOCK FALSE
INVARIANTS
  AssignmentIsDropped
