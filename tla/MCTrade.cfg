CONSTANTS
  p1 = p1
  p2 = p2
  i1 = i1
  None = None
  Malformed = Malformed
  Players <- MCPlayers
  Items <- MCItems
  InitialCount <- MCInitialCount
  OfferChoices <- MCOffers
  MaxQuantity = 1
  InviteLifetime = 1
  SweepInterval = 1
  ApplyTimeout = 1
  TerminalRetention = 2
  ReconciliationTimeout = 1
  JournalSize = 2
  Repeatable = {}
  MaxSessions = 1
  MaxRevision = 2
  MaxPending = 2
  MaxRepeats = 0
  MaxFaults = 1
  MaxChanges = 0
  MaxWears = 0
  MaxLeaves = 1
  MaxRestarts = 0
  MaxUpsets = 2
SPECIFICATION Spec
INVARIANTS
  AppliedIsAgreed
  ConfirmedIsSeen
  Converged
