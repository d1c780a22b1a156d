CONSTANTS
  p1 = p1
  p2 = p2
  i1 = i1
  None = None
  Malformed = Malformed
  Players <- MCPlayers
  Items <- MCItems
  InitialCount <- MCInitialCount
  OfferChoices <- MCOffers
  MaxQuantity = 1
  InviteLifetime = 1
  SweepInterval = 1
  ApplyTimeout = 1
  TerminalRetention = 2
  ReconciliationTimeout = 1
  JournalSize = 2
  Repeatable = {"Invite", "Response", "Offer", "Confirm", "Cancel", "ReconcileResult", "Started", "State", "Cancelled", "Reconcile"}
  MaxSessions = 1
  MaxRevision = 2
  MaxPending = 1
  MaxRepeats = 1
  MaxFaults = 1
  MaxChanges = 1
  MaxWears = 1
  MaxLeaves = 1
  MaxRestarts = 1
  MaxUpsets = 1
SPECIFICATION FairSpec
INVARIANTS
  IndexIsExact
  OutcomeIsCommitted
PROPERTIES
  TradesConserve
  PlayersAreReleased
