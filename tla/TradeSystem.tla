----------------------------- MODULE TradeSystem -----------------------------
(***************************************************************************)
(* The trade server with the clients' TradeService and the links between    *)
(* them.  A link is reliable and ordered in each direction; Repeated lets   *)
(* it deliver a message of the types in Repeatable twice, which is what a   *)
(* retransmission looks like to the receiver.                               *)
(*                                                                          *)
(* The local game keeps the real inventory: a client applies a plan to it   *)
(* through engine calls that may do only part of what was asked.            *)
(***************************************************************************)
EXTENDS TradeServer

CONSTANTS InitialCount,   \* InitialCount[p][i]: what p owns at the start
          OfferChoices,   \* the offers players make
          JournalSize,    \* entries a client's journals keep
          Repeatable,     \* message types a link may deliver twice
          MaxRevision,    \* bound: no offer is changed at this revision
          MaxPending,     \* bound: messages in flight when a request is made
          MaxRepeats,     \* bound: repeated deliveries
          MaxFaults,      \* bound: engine failures
          MaxChanges,     \* bound: items found or dropped outside trades
          MaxWears,       \* bound: changes of equipment
          MaxLeaves,      \* bound: players that leave
          MaxRestarts,    \* bound: restarts of the server process
          MaxUpsets       \* bound: all of the last six together

ASSUME ChoiceAssumption ==
  /\ InitialCount \in [Players -> [Items -> Int]]
  /\ OfferChoices \subseteq Offers \cup {Malformed}
  /\ JournalSize \in Nat \ {0}
ASSUME BudgetAssumption ==
  {MaxRepeats, MaxFaults, MaxChanges, MaxWears, MaxLeaves, MaxRestarts, MaxUpsets} \subseteq Nat

VARIABLES client,    \* each player's TradeService and local inventory
          toServer,  \* requests sent and not yet handled
          budget     \* what is left of the bounds above

clientVars == <<client, toServer>>
vars == <<serverVars, clientVars, budget>>

\* A client process: m_pendingInvite, m_activeSession (0 for none),
\* m_sessionState (None for none), the two journals and the local inventory.
NewClient(p) ==
  [invite |-> 0, active |-> 0, view |-> None, applied |-> <<>>, reconciled |-> <<>>,
   inv |-> [count |-> InitialCount[p], fixed |-> {}]]

Init ==
  /\ ServerInit
  /\ online = Players
  /\ inventory = [p \in Players |-> [count |-> InitialCount[p], fixed |-> {}]]
  /\ client = [p \in Players |-> NewClient(p)]
  /\ toServer = [p \in Players |-> <<>>]
  /\ budget = [repeats |-> MaxRepeats, faults |-> MaxFaults, changes |-> MaxChanges,
               wears |-> MaxWears, leaves |-> MaxLeaves, restarts |-> MaxRestarts,
               upsets |-> MaxUpsets]

Spend(what) ==
  /\ budget[what] > 0 /\ budget.upsets > 0
  /\ budget' = [budget EXCEPT ![what] = @ - 1, !.upsets = @ - 1]

-----------------------------------------------------------------------------
(***************************************************************************)
(* What a player does.                                                      *)
(***************************************************************************)
Send(p, r) == toServer' = [toServer EXCEPT ![p] = Append(@, r)]
InFlight == MapThenSumSet(LAMBDA q : Len(toServer[q]) + Len(toClient[q]), Players)
Request(p, r) ==
  /\ p \in online
  /\ InFlight < MaxPending
  /\ Send(p, r)
  /\ UNCHANGED <<serverVars, client, budget>>

InvitePlayer(p, target) == Request(p, [type |-> "Invite", target |-> target])

RespondToInvite(p, accepted) ==
  /\ client[p].invite # 0
  /\ Request(p, [type |-> "Response", session |-> client[p].invite, accepted |-> accepted])

UpdateOffer(p, offer) ==
  /\ client[p].view # None
  /\ client[p].view.state = "Negotiating"
  /\ client[p].view.revision < MaxRevision
  /\ Request(p, [type |-> "Offer", session |-> client[p].view.session,
                 revision |-> client[p].view.revision, offer |-> offer])

ConfirmTrade(p) ==
  /\ client[p].view # None
  /\ Request(p, [type |-> "Confirm", session |-> client[p].view.session,
                 revision |-> client[p].view.revision])

CancelTrade(p) ==
  /\ client[p].active # 0
  /\ Request(p, [type |-> "Cancel", session |-> client[p].active])

\* The game itself: the player finds or drops an item, or changes what it
\* wears.  The client tells the server, through its InventoryService.
ChangeItem(p, i, delta) ==
  /\ p \in online
  /\ delta < 0 => IsMvpTransferable(client[p].inv, i)
  /\ Spend("changes")
  /\ client' = [client EXCEPT ![p].inv.count[i] = @ + delta]
  /\ Send(p, [type |-> "Change", item |-> i, delta |-> delta])
  /\ UNCHANGED serverVars
ChangeEquipment(p, fixed) ==
  /\ p \in online
  /\ fixed # client[p].inv.fixed
  /\ \A i \in fixed : client[p].inv.count[i] > 0
  /\ Spend("wears")
  /\ client' = [client EXCEPT ![p].inv.fixed = fixed]
  /\ Send(p, [type |-> "Equipment", fixed |-> fixed])
  /\ UNCHANGED serverVars

-----------------------------------------------------------------------------
(***************************************************************************)
(* What a client does with a notification.  c is the client before, and the *)
(* handlers give the client after.                                          *)
(***************************************************************************)
OnNotifyTradeInvite(c, m) == [c EXCEPT !.invite = m.session]
OnNotifyTradeStarted(c, m) ==
  [c EXCEPT !.invite = IF @ = m.session THEN 0 ELSE @, !.active = m.session]
OnNotifyTradeCancelled(c, m) ==
  [c EXCEPT !.invite = IF @ = m.session THEN 0 ELSE @,
            !.active = IF @ = m.session THEN 0 ELSE @,
            !.view = IF @ = None THEN None ELSE IF @.session = m.session THEN None ELSE @]
OnNotifyTradeState(c, m) ==
  [c EXCEPT !.active = IF IsTerminal(m) THEN 0 ELSE m.session,
            !.view = [session |-> m.session, revision |-> m.revision,
                      state |-> m.state, offers |-> m.offers]]

\* RememberApplyResult and RememberReconcileResult.
Remember(journal, record) ==
  Append(IF Len(journal) >= JournalSize THEN Tail(journal) ELSE journal, record)
Recorded(journal, id) == {n \in 1..Len(journal) : journal[n].id = id}

\* The checks before a plan is applied, with the code the client answers when
\* one fails; ready when all pass.
ApplyCheck(c, m) ==
  IF \/ c.view = None
     \/ c.view.session # m.session \/ c.view.revision # m.revision
     \/ c.view.state # "Applying"
  THEN "SessionMismatch"
  ELSE IF CanApply(c.inv, m.delta) THEN "Ready" ELSE "Refused"
ReconcileCheck(c, m) ==
  IF c.view # None /\ (c.view.session # m.session \/ c.view.revision # m.revision)
  THEN "SessionMismatch"
  ELSE IF \A i \in DOMAIN m.targets : ~Blocked(c.inv, i) THEN "Ready" ELSE "Refused"

\* The inventory and the answer of a plan that is not in the journal: todo are
\* the items it changes, after[done] the inventory once done of them are
\* changed.  With an engine failure the player, or an item's form, is not
\* loaded, or the engine does only part of it and the final count does not
\* match.
Attempt(inv, check, todo, after, fault) ==
  IF check # "Ready" THEN IF fault THEN {} ELSE {[inv |-> inv, result |-> check]}
  ELSE IF ~fault THEN {[inv |-> after[todo], result |-> "Success"]}
  ELSE {[inv |-> inv, result |-> "LocalPlayerUnavailable"]} \cup
       {[inv |-> after[done], result |-> "LocalStateMismatch"] : done \in SUBSET todo \ {todo}}

ApplyResult(m, result) ==
  [type |-> "ApplyResult", session |-> m.session, revision |-> m.revision,
   apply |-> m.apply, result |-> result]
ReconcileResult(m, result) ==
  [type |-> "ReconcileResult", session |-> m.session, revision |-> m.revision,
   apply |-> m.apply, reconcile |-> m.reconcile, result |-> result]

\* A plan is applied once: a repeated notification repeats the recorded answer.
OnNotifyTradeApply(p, m, fault) ==
  LET c == client[p]
      todo == Touched(m.delta)
      after == [done \in SUBSET todo |-> Apply(c.inv, m.delta, done)]
      known == Recorded(c.applied, m.apply)
  IN  \/ /\ known # {} /\ ~fault
         /\ \E n \in known :
              LET e == c.applied[n]
                  same == e.session = m.session /\ e.revision = m.revision
              IN  Send(p, ApplyResult(m, IF same THEN e.result ELSE "MalformedPlan"))
         /\ UNCHANGED client
      \/ /\ known = {}
         /\ \E a \in Attempt(c.inv, ApplyCheck(c, m), todo, after, fault) :
              /\ Send(p, ApplyResult(m, a.result))
              /\ client' = [client EXCEPT
                   ![p].inv = a.inv,
                   ![p].applied = Remember(@, [id |-> m.apply, session |-> m.session,
                                     revision |-> m.revision, result |-> a.result])]
OnNotifyTradeReconcile(p, m, fault) ==
  LET c == client[p]
      todo == {i \in DOMAIN m.targets : m.targets[i] # c.inv.count[i]}
      after == [done \in SUBSET todo |-> Correct(c.inv, m.targets, done)]
      known == Recorded(c.reconciled, m.reconcile)
  IN  \/ /\ known # {} /\ ~fault
         /\ \E n \in known :
              LET e == c.reconciled[n]
                  same == /\ e.session = m.session /\ e.revision = m.revision
                          /\ e.apply = m.apply
              IN  Send(p, ReconcileResult(m, IF same THEN e.result ELSE "MalformedPlan"))
         /\ UNCHANGED client
      \/ /\ known = {}
         /\ \E a \in Attempt(c.inv, ReconcileCheck(c, m), todo, after, fault) :
              /\ Send(p, ReconcileResult(m, a.result))
              /\ client' = [client EXCEPT
                   ![p].inv = a.inv,
                   ![p].reconciled = Remember(@, [id |-> m.reconcile, session |-> m.session,
                                       revision |-> m.revision, apply |-> m.apply,
                                       result |-> a.result])]

\* The notifications that only change what the client shows.
Show(c, m) ==
  CASE m.type = "Invite" -> OnNotifyTradeInvite(c, m)
    [] m.type = "Started" -> OnNotifyTradeStarted(c, m)
    [] m.type = "Cancelled" -> OnNotifyTradeCancelled(c, m)
    [] m.type = "State" -> OnNotifyTradeState(c, m)

Receive(p) ==
  /\ p \in online
  /\ toClient[p] # <<>>
  /\ LET m == Head(toClient[p])
     IN  \/ /\ m.type \in {"Invite", "Started", "Cancelled", "State"}
            /\ client' = [client EXCEPT ![p] = Show(@, m)]
            /\ UNCHANGED <<toServer, budget>>
         \/ /\ m.type = "Apply"
            /\ \/ OnNotifyTradeApply(p, m, FALSE) /\ UNCHANGED budget
               \/ OnNotifyTradeApply(p, m, TRUE) /\ Spend("faults")
         \/ /\ m.type = "Reconcile"
            /\ \/ OnNotifyTradeReconcile(p, m, FALSE) /\ UNCHANGED budget
               \/ OnNotifyTradeReconcile(p, m, TRUE) /\ Spend("faults")
  /\ toClient' = [toClient EXCEPT ![p] = Tail(@)]
  /\ UNCHANGED <<online, inventory, registry, ids, sweep, commits>>

-----------------------------------------------------------------------------
(***************************************************************************)
(* The server at work, and what happens to links and processes.             *)
(***************************************************************************)
Serve(p) ==
  /\ toServer[p] # <<>>
  /\ Handle(p, Head(toServer[p]))
  /\ toServer' = [toServer EXCEPT ![p] = Tail(@)]
  /\ UNCHANGED <<client, budget>>

Sweep == OnUpdate /\ UNCHANGED <<clientVars, budget>>
TimePasses == Tick /\ UNCHANGED <<clientVars, budget>>

\* The message is delivered now and once more, after any that are waiting.
Twice(link, p) ==
  /\ link[p] # <<>>
  /\ Head(link[p]).type \in Repeatable
  /\ \E k \in 2..(Len(link[p]) + 1) :
       link' = [link EXCEPT ![p] = InsertAt(@, k, Head(@))]
Repeated(p) ==
  /\ Spend("repeats")
  /\ \/ /\ Twice(toServer, p)
        /\ UNCHANGED <<serverVars, client>>
     \/ /\ p \in online
        /\ Twice(toClient, p)
        /\ UNCHANGED <<online, inventory, registry, ids, sweep, commits, clientVars>>

LeaveGame(p) ==
  /\ Spend("leaves")
  /\ Leave(p)
  /\ toServer' = [toServer EXCEPT ![p] = <<>>]
  /\ UNCHANGED client

\* The server process is restarted and the players join it again: it has
\* forgotten every trade and takes each inventory from the joining client,
\* while the client processes, and their journals, have gone on.
Restart ==
  /\ Spend("restarts")
  /\ ServerRestart
  /\ online' = Players
  /\ inventory' = [p \in Players |-> client[p].inv]
  /\ toServer' = [p \in Players |-> <<>>]
  /\ UNCHANGED client

PlayerActs(p) ==
  \/ \E target \in Players \ {p} : InvitePlayer(p, target)
  \/ \E accepted \in BOOLEAN : RespondToInvite(p, accepted)
  \/ \E offer \in OfferChoices : UpdateOffer(p, offer)
  \/ ConfirmTrade(p)
  \/ CancelTrade(p)
  \/ \E i \in Items, delta \in {-1, 1} : ChangeItem(p, i, delta)
  \/ \E fixed \in SUBSET Items : ChangeEquipment(p, fixed)

Next ==
  \/ \E p \in Players : PlayerActs(p) \/ Receive(p) \/ Serve(p) \/ Repeated(p) \/ LeaveGame(p)
  \/ Sweep
  \/ TimePasses
  \/ Restart

Spec == Init /\ [][Next]_vars

\* The server's loop keeps running, so time passes and the sweep is made.
\* Nothing is assumed of the clients: one may stop reading, or answering.
Fairness == WF_vars(Sweep) /\ WF_vars(TimePasses)
FairSpec == Spec /\ Fairness

-----------------------------------------------------------------------------
(***************************************************************************)
(* Properties.                                                              *)
(***************************************************************************)
\* Every registry holds what its declaration in TradeService.h says; what is
\* kept of a session belongs to one that is there, and its identities were
\* all given out.
TypeOK ==
  /\ online \subseteq Players
  /\ \A p \in Players : inventory[p] \in Inventory
  /\ sessions \in [SessionIds -> Session \cup {None}]
  /\ playerSession \in [Players -> 0..MaxSessions]
  /\ \A s \in SessionIds :
       /\ applications[s] # None =>
            /\ IsLive(s)
            /\ applications[s].id \in 1..(nextApplyId - 1)
            /\ applications[s].status \in [Participants(sessions[s]) -> Statuses]
       /\ reconciliations[s] # None =>
            /\ IsLive(s)
            /\ reconciliations[s].id \in 1..(nextReconcileId - 1)
            /\ reconciliations[s].status \in [Participants(sessions[s]) -> Statuses]
       /\ cleanup[s] \in 0..TerminalRetention \cup {None}

\* m_playerSessions is exact: a player is indexed to a live session it takes
\* part in; both participants of a session that is not over are indexed to it,
\* so nobody is in two; and a player stays busy with a session that is over
\* only while its reconciliation is not settled.
IndexIsExact ==
  /\ \A p \in Players : playerSession[p] # 0 =>
       /\ IsLive(playerSession[p])
       /\ IsParticipant(sessions[playerSession[p]], p)
       /\ IsTerminal(sessions[playerSession[p]]) =>
            /\ reconciliations[playerSession[p]] # None
            /\ ~IsSettled(reconciliations[playerSession[p]].status)
  /\ \A s \in SessionIds : IsLive(s) =>
       \/ IsTerminal(sessions[s])
       \/ \A p \in Participants(sessions[s]) : playerSession[p] = s

\* What is applied is what both agreed to: the plan of an application is the
\* exchange of the offers both participants confirmed at their last revision,
\* and nothing changes them afterwards.
AppliedIsAgreed ==
  \A s \in SessionIds : applications[s] # None =>
    /\ IsLive(s)
    /\ sessions[s].state \in {"Applying", "Completed", "Failed"}
    /\ BothConfirmed(sessions[s])
    /\ applications[s].revision = sessions[s].revision
    /\ applications[s].plan = MutationPlan(sessions[s])

\* A revision names one pair of offers: whatever snapshot a client shows, or
\* is about to, at the session's current revision shows the offers in force,
\* so a confirmation that is accepted is of what the player saw.
Snapshots(p) ==
  {toClient[p][n] : n \in {k \in 1..Len(toClient[p]) : toClient[p][k].type = "State"}}
    \cup (IF client[p].view = None THEN {} ELSE {client[p].view})
ConfirmedIsSeen ==
  \A p \in Players : \A m \in Snapshots(p) :
    (/\ IsLive(m.session)
     /\ IsParticipant(sessions[m.session], p)
     /\ m.revision = sessions[m.session].revision)
    => m.offers = sessions[m.session].offers

\* The inventory of the server agrees with the outcome it reports: the plan
\* of a session was committed exactly once if it is Completed, and never if
\* it ended otherwise.
OutcomeIsCommitted ==
  \A s \in SessionIds : IsLive(s) =>
    commits[s] = IF sessions[s].state = "Completed" THEN 1 ELSE 0

\* However often players change what they wear in between, which is when a
\* session that timed out can still be committed by a late success: no plan is
\* committed twice, a Completed session's plan was committed, and what was
\* committed was reported applied by both and is not being taken back.
CommittedOnce ==
  \A s \in SessionIds : IsLive(s) =>
    /\ commits[s] \in {0, 1}
    /\ sessions[s].state = "Completed" => commits[s] = 1
    /\ commits[s] = 1 =>
         /\ sessions[s].state \in {"Completed", "Failed"} /\ reconciliations[s] = None
         /\ applications[s] # None /\ AllSucceeded(applications[s].status)

\* Nothing is created or lost on the server: a step that changes inventories,
\* other than the game's own traffic and a new process taking them from the
\* clients, moves items between two players.
Exchange(a, b) ==
  /\ \A i \in Items : inventory'[a].count[i] + inventory'[b].count[i]
                       = inventory[a].count[i] + inventory[b].count[i]
  /\ \A p \in Players \ {a, b} : inventory'[p] = inventory[p]
OutsideTrades ==
  \/ \E p \in Players : /\ toServer[p] # <<>>
                        /\ Head(toServer[p]).type \in {"Change", "Equipment"}
                        /\ toServer'[p] = Tail(toServer[p])
  \/ budget'.restarts # budget.restarts
TradesConserve ==
  [][inventory' = inventory \/ OutsideTrades \/ \E a, b \in Players : a # b /\ Exchange(a, b)]_vars

\* Reconciliation restores convergence: once every message has been handled
\* and no trade is being applied, a connected client's counts are the server's,
\* unless that client reported that it could not carry a reconciliation out.
Quiet ==
  /\ \A p \in online : toServer[p] = <<>> /\ toClient[p] = <<>>
  /\ \A s \in SessionIds : IsLive(s) => sessions[s].state # "Applying"
Unresolved(p) ==
  \E n \in 1..Len(client[p].reconciled) : client[p].reconciled[n].result # "Success"
Converged ==
  Quiet => \A p \in online : client[p].inv.count = inventory[p].count \/ Unresolved(p)

\* Nobody stays captive of a trade: again and again a player is in no session,
\* or in one that is being negotiated.  So one that waits for an answer, an
\* application or a reconciliation leaves it, or sees its negotiation start,
\* whatever the other participant does.
Busy(p) == playerSession[p] # 0 /\ sessions[playerSession[p]].state # "Negotiating"
PlayersAreReleased == \A p \in Players : []<>~Busy(p)

\* A session that is over is kept briefly and then forgotten.
SessionsAreForgotten ==
  \A s \in SessionIds :
    (sessions[s] # None /\ IsTerminal(sessions[s])) ~> sessions[s] = None
=============================================================================
