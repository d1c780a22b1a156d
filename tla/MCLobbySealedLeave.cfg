SPECIFICATION Spec
CONSTANTS
  None = None
  Players = {p1, p2}
  Campaigns = {c1}
  Mutations = {m1, m2, m3, m4, m5}
  RollbackId = RollbackId
  MaxInvitations = 1
  AutoPartyJoin = FALSE
  CodesMayRunOut = FALSE
SYMMETRY Symmetry
CHECK_DEADLOCK FALSE
PROPERTY
  LeaveIsPreSeal
