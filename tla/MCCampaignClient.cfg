CONSTANTS
  None = None
  MaxAttempts = 3
  MaxUpsets = 5
  RecoveryMayFail = TRUE
SPECIFICATION FairSpec
CHECK_DEADLOCK FALSE
INVARIANTS
  LoadedProofIsReal
  RecoveringIsFenced
PROPERTIES
  FenceEndsInRecovery
  LoadingSettles
