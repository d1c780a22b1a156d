CONSTANTS
  Members = {m1, m2}
  Builds = {b1, b2, bad}
  Refused = {bad}
  None = None
  MaxUpsets = 1
  MaxSubmissions = 3
SPECIFICATION Spec
CHECK_DEADLOCK FALSE
INVARIANTS
  CollectiveStart
  SealedBuildIsWorn
PROPERTIES
  StartReachesAll
