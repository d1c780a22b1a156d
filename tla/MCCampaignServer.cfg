CONSTANTS
  Slots = {s1, s2}
  CheckpointIds = {c1, c2}
  Artifacts = {a1}
  None = None
  MaxRevision = 10
  StoreMayFail = TRUE
SPECIFICATION Spec
SYMMETRY Symmetry
INVARIANTS
  TypeOK
  RestartRebuildsRecovery
  AlwaysLoadable
  RolledBackExactly
  CheckpointIsConsistentCut
  BarriersCountConnected
  CheckpointExcludesRecovery
  IntentsDescribeLiveTimeline
  RollsBackToLatestCommit
PROPERTIES
  FrozenWhileRecovering
  HistoryIsImmutable
  ImplementsRollback
