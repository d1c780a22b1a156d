----------------------------- MODULE TradeServer -----------------------------
(***************************************************************************)
(* The server's TradeService: the registry of sessions, who is in which,    *)
(* the applications and reconciliations under way, and the periodic sweep.  *)
(* Packets and the sweep run on the server's single thread, so an action is *)
(* one whole handler, taking the request r of player p.  The handlers       *)
(* append what they send to toClient.                                       *)
(*                                                                          *)
(* Ticks are counted down: a deadline is the time left until it, and Tick   *)
(* lets one unit pass everywhere.                                           *)
(***************************************************************************)
EXTENDS TradeDomain, SequencesExt

CONSTANTS InviteLifetime, SweepInterval, ApplyTimeout, TerminalRetention,
          ReconciliationTimeout,   \* the five durations of the service
          MaxSessions              \* bound: sessions the server may create

SessionIds == 1..MaxSessions

ASSUME DurationAssumption ==
  /\ {InviteLifetime, SweepInterval, ApplyTimeout, TerminalRetention,
      ReconciliationTimeout} \subseteq Nat \ {0}
ASSUME SessionsAssumption == MaxSessions \in Nat

VARIABLES
  online,            \* PlayerManager: the connected players
  inventory,         \* InventoryComponent of each player's character
  sessions,          \* m_sessions, None where there is no such session
  playerSession,     \* m_playerSessions, 0 where the player is in none
  applications,      \* m_applications
  baselines,         \* m_reconciliationBaselines
  reconciliations,   \* m_reconciliations
  cleanup,           \* m_terminalCleanupTicks
  nextSessionId, nextApplyId, nextReconcileId,
  sweep,             \* time left until the next sweep
  toClient,          \* what was sent to each player and not yet received
  commits            \* history: how often each session's plan was committed

registry == <<sessions, playerSession, applications, baselines, reconciliations, cleanup>>
ids == <<nextSessionId, nextApplyId, nextReconcileId>>
serverVars == <<online, inventory, registry, ids, sweep, toClient, commits>>

Statuses == Outcomes \cup {"Pending"}

\* What is kept for some of the players, and the records of the registry.
ForSome(S) == UNION {[who -> S] : who \in SUBSET Players}
Quantities == UNION {[items -> Nat] : items \in SUBSET Items}
Application ==
  [id: Nat, revision: Nat, plan: ForSome(Delta), status: ForSome(Statuses), deadline: Nat]
Reconciliation ==
  [id: Nat, revision: Nat, apply: Nat, targets: ForSome(Quantities),
   status: ForSome(Statuses), deadline: Nat]
ASSUME NoRecord == None \notin Session \cup Application \cup Reconciliation
Nothing == [s \in SessionIds |-> None]
ServerInit ==
  /\ sessions = Nothing /\ applications = Nothing /\ baselines = Nothing
  /\ reconciliations = Nothing /\ cleanup = Nothing
  /\ playerSession = [p \in Players |-> 0]
  /\ nextSessionId = 1 /\ nextApplyId = 1 /\ nextReconcileId = 1
  /\ sweep = 0
  /\ toClient = [p \in Players |-> <<>>]
  /\ commits = [s \in SessionIds |-> 0]

\* A new server process: none of this is persisted.
ServerRestart ==
  /\ sessions' = Nothing /\ applications' = Nothing /\ baselines' = Nothing
  /\ reconciliations' = Nothing /\ cleanup' = Nothing
  /\ playerSession' = [p \in Players |-> 0]
  /\ nextSessionId' = 1 /\ nextApplyId' = 1 /\ nextReconcileId' = 1
  /\ sweep' = 0
  /\ toClient' = [p \in Players |-> <<>>]
  /\ commits' = [s \in SessionIds |-> 0]

-----------------------------------------------------------------------------
(***************************************************************************)
(* Sending.  A mail gives every player the messages a handler sends to it.  *)
(***************************************************************************)
NoMail == [q \in Players |-> <<>>]
To(who, m) == [q \in Players |-> IF q \in who THEN <<m>> ELSE <<>>]
Then(first, second) == [q \in Players |-> first[q] \o second[q]]
\* Only connected players are sent anything; the link of one that is leaving
\* is closed with all it holds.
PostBut(gone, mail) ==
  toClient' = [q \in Players |-> IF q = gone THEN <<>>
                                 ELSE IF q \in online THEN toClient[q] \o mail[q]
                                 ELSE toClient[q]]
Post(mail) == PostBut(None, mail)

Invite(s) == [type |-> "Invite", session |-> s]
Started(s) == [type |-> "Started", session |-> s]
Cancelled(s) == [type |-> "Cancelled", session |-> s]
Snapshot(s, ss) ==
  [type |-> "State", session |-> s, revision |-> ss.revision, state |-> ss.state,
   offers |-> ss.offers]
SendState(s, ss) == To(Participants(ss), Snapshot(s, ss))
SendApply(s, app) ==
  [q \in Players |->
     IF q \in DOMAIN app.plan
     THEN <<[type |-> "Apply", session |-> s, revision |-> app.revision,
             apply |-> app.id, delta |-> app.plan[q]]>>
     ELSE <<>>]
SendReconciliation(s, rec, who) ==
  [q \in Players |->
     IF q \in who \cap DOMAIN rec.targets
     THEN <<[type |-> "Reconcile", session |-> s, revision |-> rec.revision,
             apply |-> rec.apply, reconcile |-> rec.id, targets |-> rec.targets[q]]>>
     ELSE <<>>]

-----------------------------------------------------------------------------
(***************************************************************************)
(* The registry.                                                            *)
(***************************************************************************)
IsLive(s) == s \in SessionIds /\ sessions[s] # None
IsIndexedParticipant(p, s) == IsLive(s) /\ playerSession[p] = s

\* ReleaseSessionParticipants, for every session of S.
Released(S) ==
  [p \in Players |->
     IF /\ playerSession[p] \in S
        /\ sessions[playerSession[p]] # None
        /\ IsParticipant(sessions[playerSession[p]], p)
     THEN 0 ELSE playerSession[p]]

Forget(f, s) == [f EXCEPT ![s] = None]
RemoveSession(s) ==
  /\ playerSession' = Released({s})
  /\ applications' = Forget(applications, s)
  /\ baselines' = Forget(baselines, s)
  /\ reconciliations' = Forget(reconciliations, s)
  /\ cleanup' = Forget(cleanup, s)
  /\ sessions' = Forget(sessions, s)

\* Mutant: the participants stay indexed until the session is removed.
ScheduleTerminalCleanup_busy(s) ==
  /\ cleanup' = [cleanup EXCEPT ![s] = TerminalRetention]
  /\ UNCHANGED playerSession
ScheduleTerminalCleanup(s) ==
  /\ playerSession' = Released({s})
  /\ cleanup' = [cleanup EXCEPT ![s] = TerminalRetention]

-----------------------------------------------------------------------------
(***************************************************************************)
(* Plans against the server's inventories.                                  *)
(***************************************************************************)
BothOnline(who) == who \subseteq online

\* ValidateAndBuildMutationPlan succeeds.
IsValid(ss) == BothOnline(Participants(ss)) /\ CanExchange(ss, inventory)

\* BuildCurrentReconciliationPlan for the plan of an application, None when it
\* fails; and the plan BeginReconciliation uses, which falls back on the
\* baseline only when a participant has no inventory any more.
CurrentTargets(plan) ==
  IF BothOnline(DOMAIN plan) /\ \A p \in DOMAIN plan : CanTarget(inventory[p], plan[p])
  THEN [p \in DOMAIN plan |-> Targets(inventory[p], plan[p])]
  ELSE None
ReconciliationTargets(s) ==
  LET plan == applications[s].plan
  IN  IF BothOnline(DOMAIN plan) THEN CurrentTargets(plan) ELSE baselines[s]

\* AllocateReconcileId, for the next n reconciliations.
AllocateReconcileId(n) == nextReconcileId' = nextReconcileId + n

NewApplication(id, ss) ==
  [id |-> id, revision |-> ss.revision, plan |-> MutationPlan(ss),
   status |-> [p \in Participants(ss) |-> "Pending"], deadline |-> ApplyTimeout]

NewReconciliation(id, s, gone) ==
  LET app == applications[s]
  IN  [id |-> id, revision |-> app.revision, apply |-> app.id,
       targets |-> ReconciliationTargets(s),
       status |-> [p \in DOMAIN app.plan |->
                     IF p = gone THEN "ParticipantUnavailable" ELSE "Pending"],
       deadline |-> ReconciliationTimeout]

\* BeginReconciliation, called where no reconciliation of s exists; gone is the
\* participant that is leaving, None when nobody is.  One participant is still
\* pending afterwards, so its final IsSettled branch is never taken.
BeginReconciliation(s, gone, mail) ==
  \/ /\ ReconciliationTargets(s) = None
     /\ ScheduleTerminalCleanup(s)
     /\ PostBut(gone, mail)
     /\ UNCHANGED <<baselines, reconciliations, nextReconcileId>>
  \/ /\ ReconciliationTargets(s) # None
     /\ LET rec == NewReconciliation(nextReconcileId, s, gone)
        IN  /\ reconciliations' = [reconciliations EXCEPT ![s] = rec]
            /\ PostBut(gone, Then(mail, SendReconciliation(s, rec, Players)))
     /\ AllocateReconcileId(1)
     /\ baselines' = Forget(baselines, s)
     /\ cleanup' = Forget(cleanup, s)
     /\ UNCHANGED playerSession

\* CommitMutationPlan: both inventories change, or neither does.
CanCommit(plan) ==
  BothOnline(DOMAIN plan) /\ \A p \in DOMAIN plan : CanApply(inventory[p], plan[p])

\* Mutant: only what is received is applied.
CommitMutationPlan_credit(plan) ==
  inventory' = [p \in Players |->
                  IF p \in DOMAIN plan
                  THEN Apply(inventory[p], plan[p], {i \in Items : plan[p][i] > 0})
                  ELSE inventory[p]]

CommitMutationPlan(plan) ==
  inventory' = [p \in Players |->
                  IF p \in DOMAIN plan
                  THEN Apply(inventory[p], plan[p], Touched(plan[p]))
                  ELSE inventory[p]]

-----------------------------------------------------------------------------
(***************************************************************************)
(* The request handlers.                                                    *)
(***************************************************************************)
Ignore == UNCHANGED serverVars
Answer(mail) == /\ Post(mail)
                /\ UNCHANGED <<online, inventory, registry, ids, sweep, commits>>

\* OnTradeInviteRequest: an invitation repeated by its sender is sent again;
\* a busy player neither invites nor is invited.
IsRepeatedInvite(p, target) ==
  LET ss == sessions[playerSession[p]]
  IN  IsLive(playerSession[p]) /\ ss.state = "PendingAcceptance"
        /\ ss.initiator = p /\ ss.recipient = target
CreateSession(p, target) ==
  /\ sessions' = [sessions EXCEPT ![nextSessionId] = NewSession(p, target, InviteLifetime)]
  /\ playerSession' = [playerSession EXCEPT ![p] = nextSessionId, ![target] = nextSessionId]
  /\ nextSessionId' = nextSessionId + 1
  /\ Post(To({target}, Invite(nextSessionId)))
  /\ UNCHANGED <<online, inventory, applications, baselines, reconciliations, cleanup,
                 nextApplyId, nextReconcileId, sweep, commits>>
OnTradeInviteRequest(p, r) ==
  LET reachable == r.target \in online /\ r.target # p
      repeated == reachable /\ IsRepeatedInvite(p, r.target)
      fresh == /\ reachable /\ playerSession[p] = 0 /\ playerSession[r.target] = 0
               /\ nextSessionId \in SessionIds
  IN  \/ repeated /\ Answer(To({r.target}, Invite(playerSession[p])))
      \/ fresh /\ CreateSession(p, r.target)
      \/ ~repeated /\ ~fresh /\ Ignore

\* The session ends for both participants and is forgotten at once.
EndSession(s, mail) ==
  /\ RemoveSession(s)
  /\ Post(mail)
  /\ UNCHANGED <<online, inventory, ids, sweep, commits>>

\* OnTradeInviteResponseRequest.  The participants are connected, since a
\* leaving player ends its session.
IsExpired(ss) == ss.state = "PendingAcceptance" /\ ss.expiry = 0
OnTradeInviteResponseRequest(p, r) ==
  LET s == r.session
      ss == sessions[s]
      cancelled == To(Participants(ss), Cancelled(s))
  IN  \/ ~IsIndexedParticipant(p, s) /\ Ignore
      \/ /\ IsIndexedParticipant(p, s)
         /\ \/ IsExpired(ss) /\ EndSession(s, cancelled)
            \/ /\ ~IsExpired(ss) /\ ~r.accepted
               /\ IF CanReject(ss, p) THEN EndSession(s, cancelled) ELSE Ignore
            \/ /\ ~IsExpired(ss) /\ r.accepted
               /\ LET verdict == AcceptVerdict(ss, p)
                      after == IF verdict = "Changed" THEN Accepted(ss) ELSE ss
                  IN  CASE verdict = "Rejected" -> Ignore
                        [] verdict # "Rejected" /\ ~BothOnline(Participants(ss)) ->
                             EndSession(s, cancelled)
                        [] OTHER ->
                             /\ sessions' = [sessions EXCEPT ![s] = after]
                             /\ Post(Then(To(Participants(ss), Started(s)), SendState(s, after)))
                             /\ UNCHANGED <<online, inventory, playerSession, applications,
                                            baselines, reconciliations, cleanup, ids, sweep,
                                            commits>>

\* The session changes and the snapshot goes to both; a command that changes
\* nothing is answered to its sender alone.
Update(s, after) ==
  /\ sessions' = [sessions EXCEPT ![s] = after]
  /\ Post(SendState(s, after))
  /\ UNCHANGED <<online, inventory, playerSession, applications, baselines,
                 reconciliations, cleanup, ids, sweep, commits>>

OnTradeOfferUpdateRequest(p, r) ==
  LET s == r.session
      ss == sessions[s]
  IN  \/ ~IsIndexedParticipant(p, s) /\ Ignore
      \/ /\ IsIndexedParticipant(p, s)
         /\ IF OfferVerdict(ss, p, r.revision, r.offer) = "Changed"
            THEN Update(s, Offered(ss, p, r.offer))
            ELSE Answer(To({p}, Snapshot(s, ss)))

\* OnTradeConfirmRequest: the confirmation that locks the session validates it
\* and starts its application in the same handler.  The baseline is taken from
\* the inventories that were just validated, so it is always there.
BeginApplication(s, locked) ==
  LET app == NewApplication(nextApplyId, locked)
      ss == StartApplying(locked)
  IN  /\ sessions' = [sessions EXCEPT ![s] = ss]
      /\ applications' = [applications EXCEPT ![s] = app]
      /\ baselines' = [baselines EXCEPT ![s] = CurrentTargets(app.plan)]
      /\ nextApplyId' = nextApplyId + 1
      /\ Post(Then(SendState(s, ss), SendApply(s, app)))
      /\ UNCHANGED <<online, inventory, playerSession, reconciliations, cleanup,
                     nextSessionId, nextReconcileId, sweep, commits>>
OnTradeConfirmRequest(p, r) ==
  LET s == r.session
      ss == sessions[s]
      after == Confirmed(ss, p)
  IN  \/ ~IsIndexedParticipant(p, s) /\ Ignore
      \/ /\ IsIndexedParticipant(p, s)
         /\ ConfirmVerdict(ss, p, r.revision) # "Changed"
         /\ Answer(To({p}, Snapshot(s, ss)))
      \/ /\ IsIndexedParticipant(p, s)
         /\ ConfirmVerdict(ss, p, r.revision) = "Changed"
         /\ \/ after.state # "Locked" /\ Update(s, after)
            \/ after.state = "Locked" /\ IsValid(after) /\ BeginApplication(s, after)
            \/ /\ after.state = "Locked" /\ ~IsValid(after)
               /\ EndSession(s, SendState(s, Fail(after)))

OnTradeCancelRequest(p, r) ==
  LET s == r.session
      ss == sessions[s]
  IN  \/ ~IsIndexedParticipant(p, s) /\ Ignore
      \/ /\ IsIndexedParticipant(p, s)
         /\ IF CanCancel(ss, p) THEN EndSession(s, To(Participants(ss), Cancelled(s)))
            ELSE Answer(To({p}, Snapshot(s, ss)))

-----------------------------------------------------------------------------
\* What the recorded results of an application lead to.
SettleFailed(s, app) ==
  LET ss == Fail(sessions[s])
  IN  /\ sessions' = [sessions EXCEPT ![s] = ss]
      /\ applications' = [applications EXCEPT ![s] = app]
      /\ BeginReconciliation(s, None, SendState(s, ss))
      /\ UNCHANGED <<online, inventory, nextSessionId, nextApplyId, sweep, commits>>
SettleSucceeded(s, app) ==
  LET ss == Complete(sessions[s])
  IN  /\ CommitMutationPlan(app.plan)
      /\ commits' = [commits EXCEPT ![s] = @ + 1]
      /\ sessions' = [sessions EXCEPT ![s] = ss]
      /\ applications' = [applications EXCEPT ![s] = app]
      /\ ScheduleTerminalCleanup(s)
      /\ Post(SendState(s, ss))
      /\ UNCHANGED <<online, baselines, reconciliations, ids, sweep>>

\* OnTradeApplyResultRequest.  Only the session id is checked against the
\* registry: the index is not consulted, so a released participant may report.
OnTradeApplyResultRequest(p, r) ==
  LET s == r.session
      ss == sessions[s]
      app == applications[s]
      known == IsLive(s) /\ app # None
      reconciling == known /\ reconciliations[s] # None
      mine == IsParticipant(ss, p) /\ app.id = r.apply /\ app.revision = r.revision
      verdict == RecordVerdict(app.status, p, r.result)
      recorded == [app EXCEPT !.status = Record(@, p, r.result)]
  IN  \/ ~known /\ Ignore
      \/ reconciling /\ Answer(SendReconciliation(s, reconciliations[s], {p}))
      \/ /\ known /\ ~reconciling
         /\ ~mine \/ verdict = "Rejected"
         /\ Answer(To({p}, Snapshot(s, ss)))
      \/ /\ known /\ ~reconciling /\ mine /\ verdict # "Rejected"
         /\ \/ HasFailed(recorded.status) /\ SettleFailed(s, recorded)
            \/ /\ ~HasFailed(recorded.status) /\ ~AllSucceeded(recorded.status)
               /\ applications' = [applications EXCEPT ![s] = recorded]
               /\ UNCHANGED <<online, inventory, sessions, playerSession, baselines,
                              reconciliations, cleanup, ids, sweep, toClient, commits>>
            \/ /\ AllSucceeded(recorded.status)
               /\ IF CanCommit(app.plan) THEN SettleSucceeded(s, recorded)
                  ELSE SettleFailed(s, recorded)

OnTradeReconcileResultRequest(p, r) ==
  LET s == r.session
      rec == reconciliations[s]
      known == IsLive(s) /\ rec # None
      mine == p \in DOMAIN rec.status /\ rec.id = r.reconcile /\ rec.apply = r.apply
                /\ rec.revision = r.revision
      recorded == [rec EXCEPT !.status = Record(@, p, r.result)]
  IN  \/ ~known /\ Ignore
      \/ known /\ ~mine /\ Answer(To({p}, Snapshot(s, sessions[s])))
      \/ known /\ mine /\ RecordVerdict(rec.status, p, r.result) = "Rejected" /\ Ignore
      \/ /\ known /\ mine /\ RecordVerdict(rec.status, p, r.result) # "Rejected"
         /\ reconciliations' = [reconciliations EXCEPT ![s] = recorded]
         /\ IF IsSettled(recorded.status) THEN ScheduleTerminalCleanup(s)
            ELSE UNCHANGED <<playerSession, cleanup>>
         /\ UNCHANGED <<online, inventory, sessions, applications, baselines, ids, sweep,
                        toClient, commits>>

\* InventoryService: the game's own inventory traffic, outside the trade.  What
\* is worn is noted on the entries the server has.
OnInventoryChanges(p, r) ==
  /\ inventory' = [inventory EXCEPT ![p].count[r.item] = AddOrRemoveEntry(@, r.delta)]
  /\ UNCHANGED <<online, registry, ids, sweep, toClient, commits>>
OnEquipmentChanges(p, r) ==
  /\ inventory' = [inventory EXCEPT ![p].fixed = {i \in r.fixed : inventory[p].count[i] # 0}]
  /\ UNCHANGED <<online, registry, ids, sweep, toClient, commits>>

Handle(p, r) ==
  \/ r.type = "Invite" /\ OnTradeInviteRequest(p, r)
  \/ r.type = "Response" /\ OnTradeInviteResponseRequest(p, r)
  \/ r.type = "Offer" /\ OnTradeOfferUpdateRequest(p, r)
  \/ r.type = "Confirm" /\ OnTradeConfirmRequest(p, r)
  \/ r.type = "Cancel" /\ OnTradeCancelRequest(p, r)
  \/ r.type = "ApplyResult" /\ OnTradeApplyResultRequest(p, r)
  \/ r.type = "ReconcileResult" /\ OnTradeReconcileResultRequest(p, r)
  \/ r.type = "Change" /\ OnInventoryChanges(p, r)
  \/ r.type = "Equipment" /\ OnEquipmentChanges(p, r)

-----------------------------------------------------------------------------
(***************************************************************************)
(* OnPlayerLeave runs while the leaving player and its inventory are still  *)
(* there; it is sent nothing more.  An application always exists while the  *)
(* session is Applying.                                                     *)
(***************************************************************************)
LeaveWhileReconciling(p, s) ==
  LET rec == reconciliations[s]
      marked == [rec EXCEPT !.status = Record(@, p, "ParticipantUnavailable")]
  IN  /\ reconciliations' = [reconciliations EXCEPT ![s] = marked]
      /\ IF IsSettled(marked.status) THEN ScheduleTerminalCleanup(s)
         ELSE UNCHANGED <<playerSession, cleanup>>
      /\ UNCHANGED <<sessions, applications, baselines, nextReconcileId>>
      /\ PostBut(p, NoMail)
LeaveWhileApplying(p, s) ==
  LET ss == Fail(sessions[s])
  IN  /\ sessions' = [sessions EXCEPT ![s] = ss]
      /\ BeginReconciliation(s, p, SendState(s, ss))
      /\ UNCHANGED applications
LeaveOtherwise(p, s) ==
  /\ IF CanCancel(sessions[s], p)
     THEN RemoveSession(s) /\ PostBut(p, To(Participants(sessions[s]), Cancelled(s)))
     ELSE UNCHANGED registry /\ PostBut(p, NoMail)
  /\ UNCHANGED nextReconcileId
OnPlayerLeave(p) ==
  LET s == playerSession[p]
  IN  \/ /\ ~IsLive(s)
         /\ playerSession' = [playerSession EXCEPT ![p] = 0]
         /\ PostBut(p, NoMail)
         /\ UNCHANGED <<sessions, applications, baselines, reconciliations, cleanup,
                        nextReconcileId>>
      \/ IsLive(s) /\ reconciliations[s] # None /\ LeaveWhileReconciling(p, s)
      \/ /\ IsLive(s) /\ reconciliations[s] = None
         /\ IF sessions[s].state = "Applying" THEN LeaveWhileApplying(p, s)
            ELSE LeaveOtherwise(p, s)
Leave(p) ==
  /\ p \in online
  /\ OnPlayerLeave(p)
  /\ online' = online \ {p}
  /\ UNCHANGED <<inventory, nextSessionId, nextApplyId, sweep, commits>>

-----------------------------------------------------------------------------
(***************************************************************************)
(* OnUpdate: the sweep.  It decides what is due before it acts on any of    *)
(* it, and removes last.                                                    *)
(***************************************************************************)
IsDue(f, s) == f[s] # None /\ ~IsSettled(f[s].status) /\ f[s].deadline = 0
ExpiredInvitations == {s \in SessionIds : IsLive(s) /\ IsExpired(sessions[s])}
TimedOutApplications ==
  {s \in SessionIds : reconciliations[s] = None /\ IsDue(applications, s)}
\* Mutant: a reconciliation never times out.
TimedOutReconciliations_none == {}
TimedOutReconciliations == {s \in SessionIds : IsDue(reconciliations, s)}
CleanupSessions == {s \in SessionIds : cleanup[s] = 0}

\* The sweep numbers the reconciliations it starts in the order it meets them.
Rank(s, S) == Cardinality({t \in S : t < s})
SweepMail(s, recs) ==
  LET ss == sessions[s]
      failed == IF s \in TimedOutApplications /\ ~IsTerminal(ss)
                THEN SendState(s, Fail(ss)) ELSE NoMail
  IN  IF s \in ExpiredInvitations THEN To(Participants(ss), Cancelled(s))
      ELSE IF s \in DOMAIN recs THEN Then(failed, SendReconciliation(s, recs[s], Players))
      ELSE failed
OnUpdate ==
  LET starting == {s \in TimedOutApplications : ReconciliationTargets(s) # None}
      scheduled == (TimedOutApplications \ starting) \cup TimedOutReconciliations
      removed == ExpiredInvitations \cup CleanupSessions
      recs == [s \in starting |-> NewReconciliation(nextReconcileId + Rank(s, starting), s, None)]
      Kept(f) == [s \in SessionIds |-> IF s \in removed THEN None ELSE f[s]]
  IN  /\ sweep = 0
      /\ sweep' = SweepInterval
      /\ sessions' = Kept([s \in SessionIds |-> IF s \in TimedOutApplications
                                               THEN Fail(sessions[s]) ELSE sessions[s]])
      /\ playerSession' = Released(scheduled \cup removed)
      /\ applications' = Kept(applications)
      /\ baselines' = Kept([s \in SessionIds |-> IF s \in starting THEN None ELSE baselines[s]])
      /\ reconciliations' = Kept([s \in SessionIds |->
                                    IF s \in starting THEN recs[s] ELSE reconciliations[s]])
      /\ cleanup' = Kept([s \in SessionIds |->
                           IF s \in scheduled THEN TerminalRetention
                           ELSE IF s \in starting THEN None ELSE cleanup[s]])
      /\ AllocateReconcileId(Cardinality(starting))
      /\ Post([q \in Players |-> FlattenSeq([s \in SessionIds |-> SweepMail(s, recs)[q]])])
      /\ UNCHANGED <<online, inventory, nextSessionId, nextApplyId, commits>>

\* One unit of GetTick passes.
Less(n) == IF n = 0 THEN 0 ELSE n - 1
Tick ==
  LET Older(f) == [s \in SessionIds |->
                     IF f[s] = None THEN None ELSE [f[s] EXCEPT !.deadline = Less(@)]]
  IN  /\ sweep' = Less(sweep)
      /\ sessions' = [s \in SessionIds |->
                        IF sessions[s] = None THEN None
                        ELSE [sessions[s] EXCEPT !.expiry = Less(@)]]
      /\ applications' = Older(applications)
      /\ reconciliations' = Older(reconciliations)
      /\ cleanup' = [s \in SessionIds |-> IF cleanup[s] = None THEN None ELSE Less(cleanup[s])]
      /\ UNCHANGED <<online, inventory, playerSession, baselines, ids, toClient, commits>>
=============================================================================
