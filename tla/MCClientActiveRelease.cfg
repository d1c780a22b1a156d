CONSTANTS
  None = None
  MaxAttempts = 2
  MaxUpsets = 2
  RecoveryMayFail = TRUE
SPECIFICATION Spec
CHECK_DEADLOCK FALSE
INVARIANTS
  FencedUntilRecovered
