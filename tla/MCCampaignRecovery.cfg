CONSTANTS
  Slots = {s1, s2}
  CheckpointIds = {c1}
  Artifacts = {a1}
  None = None
  MaxRevision = 20
  StoreMayFail = FALSE
  MaxFaults = 3
SPECIFICATION NetSpec
CHECK_DEADLOCK FALSE
INVARIANTS
  NobodyPlaysBehindTheFence
  ReleasedTogether
  PendingLoadWaits
PROPERTIES
  LossLocksCampaign
  CompletionMeansRolledBack
  RecoversUnlessStuck
