SPECIFICATION Spec
CONSTANTS
  None = None
  Players = {p1, p2}
  Campaigns = {c1, c2}
  Mutations = {m1, m2, m3}
  RollbackId = RollbackId
  MaxInvitations = 1
  AutoPartyJoin = TRUE
  CodesMayRunOut = TRUE
SYMMETRY Symmetry
CHECK_DEADLOCK FALSE
INVARIANTS
  PartyIndexIsExact
  RosterFollowsJournal
  CodesExpire
PROPERTIES
  SealedTogether
  AlignmentFollowsAdmission
