CONSTANTS
  Slots = {s1, s2}
  CheckpointIds = {c1}
  Artifacts = {a1}
  None = None
  MaxRevision = 20
  StoreMayFail = FALSE
  MaxFaults = 2
SPECIFICATION NetSpec
PROPERTY
  RecoveryTerminates
CHECK_DEADLOCK FALSE
