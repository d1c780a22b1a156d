CONSTANTS
  Players = {p1, p2}
  None = None
  Ghost = Ghost
  MaxEntities = 2
  MaxMoves = 4
  MaxDrops = 1
  MaxPending = 3
SPECIFICATION Spec
SYMMETRY Symmetry
CHECK_DEADLOCK FALSE
INVARIANTS
  OwnerIsConnected
  OneSimulator
  LocalIsOwned
