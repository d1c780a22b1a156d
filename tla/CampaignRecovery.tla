--------------------------- MODULE CampaignRecovery ---------------------------
(***************************************************************************)
(* The collective recovery end to end: the campaign server, one client      *)
(* (CampaignRecoveryState driven by CampaignRecoveryService) per roster     *)
(* slot, and a transport that is ordered and reliable until it drops.  A    *)
(* drop loses what is in flight both ways; the client notices at once, the  *)
(* server later (PlayerLeave), and only then can the player register again. *)
(***************************************************************************)
EXTENDS CampaignServer, Sequences

CONSTANT MaxFaults   \* bound: drops, client and server restarts
ASSUME FaultBoundAssumption == MaxFaults \in Nat
ASSUME FiniteRosterAssumption == IsFiniteSet(Slots)

VARIABLES client,    \* CampaignRecoveryState of each member
          world,     \* "menu", "played" (on past any checkpoint), or the
                     \* checkpoint a gated game was loaded from
          link,      \* "up", "lost" (the server does not know yet) or "down"
          toServer, toClient,  \* packets in flight, oldest first
          loadFailed, \* the Reason of the server's attempt is ClientLoadFailed
          faults     \* how many faults have happened
netVars == <<client, world, link, toServer, toClient, loadFailed, faults>>
allVars == <<vars, netVars>>

-----------------------------------------------------------------------------
(***************************************************************************)
(* The client state machine, over the stages Idle, RecoveryLocked,          *)
(* LoadingNativeSave, NativeSaveLoaded, SnapshotApplied, Completed and      *)
(* Failed of CampaignRecoveryStage.  protect is m_protectOnDisconnect and   *)
(* wantsRestore is m_resumeRequiresCheckpointRestore.                       *)
(***************************************************************************)
IdleClient ==
  [stage |-> "Idle", authoritative |-> FALSE, protect |-> FALSE,
   wantsRestore |-> FALSE, attempt |-> 0, checkpoint |-> None, restore |-> 0]

\* Mutant: a member that completed an earlier recovery cannot be locked again.
LockOnlyIdle(c, authoritative) ==
  IF c.stage = "Idle"
  THEN [c EXCEPT !.stage = "RecoveryLocked", !.authoritative = authoritative]
  ELSE [c EXCEPT !.authoritative = @ \/ authoritative]

\* Lock and LockProvisional: only a finished recovery forgets its correlation.
Lock(c, authoritative) ==
  IF c.stage \in {"Idle", "Completed"}
  THEN [c EXCEPT !.stage = "RecoveryLocked", !.authoritative = authoritative,
                 !.attempt = 0, !.checkpoint = None, !.restore = 0]
  ELSE [c EXCEPT !.authoritative = @ \/ authoritative]

\* OnDisconnected, in a loaded world: the fence closes at once.
Disconnected(c) == IF c.protect THEN Lock(c, FALSE) ELSE c

\* The source revision is a function of the checkpoint.
MatchesBase(c, m) == c.attempt = m.attempt /\ c.checkpoint = m.cp

LoadedMsg(c, succeeded) ==
  [type |-> "Loaded", attempt |-> c.attempt, cp |-> c.checkpoint, ok |-> succeeded]
AppliedMsg(c) ==
  [type |-> "Applied", attempt |-> c.attempt, cp |-> c.checkpoint,
   restore |-> c.restore]

\* ObserveAuthoritativeActive, the new state and what it answers.
ObserveAuthoritativeActive(c) ==
  IF c.stage = "RecoveryLocked" /\ c.attempt = 0 /\ ~c.authoritative
  THEN [IdleClient EXCEPT !.protect = c.protect, !.wantsRestore = c.wantsRestore]
  ELSE c

\* OnCampaignSnapshot.
ClientSnapshot(c, m) ==
  LET seen == [c EXCEPT !.protect = m.state # "WAITING_FOR_ROSTER"]
  IN  CASE m.state = "ACTIVE" -> ObserveAuthoritativeActive(seen)
        [] m.state \in {"RECOVERY_LOCK", "RESTORING_CHECKPOINT"} ->
             [Lock(seen, TRUE) EXCEPT !.wantsRestore = FALSE]
        [] OTHER -> seen
SnapshotAnswer(c, m) ==
  IF m.state = "ACTIVE" /\ c.stage = "SnapshotApplied" THEN <<AppliedMsg(c)>> ELSE <<>>

\* Mutant: a failed native load is never tried again.
ObserveLoadRequestOnce(c, m) ==
  IF c.stage = "RecoveryLocked"
  THEN [c EXCEPT !.stage = "LoadingNativeSave", !.attempt = m.attempt,
                 !.checkpoint = m.cp]
  ELSE c

\* OnLoadRequest, with ObserveLoadRequest on the locked state c: a load starts
\* from the lock, or again after a failure; another attempt is rejected.
ObserveLoadRequest(c, m) ==
  IF c.stage = "RecoveryLocked" \/ (c.stage = "Failed" /\ MatchesBase(c, m))
  THEN [c EXCEPT !.stage = "LoadingNativeSave", !.attempt = m.attempt,
                 !.checkpoint = m.cp]
  ELSE c
LoadRequestAnswer(c, m) ==
  IF c.stage \in {"NativeSaveLoaded", "SnapshotApplied"} /\ MatchesBase(c, m)
  THEN <<LoadedMsg(c, TRUE)>> ELSE <<>>

\* OnRecoverySnapshot, with ObserveSnapshot and FinishSnapshotApply.
ObserveSnapshot(c, m) ==
  IF c.stage = "NativeSaveLoaded" /\ MatchesBase(c, m)
  THEN [c EXCEPT !.stage = "SnapshotApplied", !.restore = m.restore]
  ELSE c

\* OnRecoveryComplete, with ObserveComplete: the only release of a
\* correlated gate.
ObserveComplete(c, m) ==
  IF /\ c.stage \in {"SnapshotApplied", "Completed"}
     /\ MatchesBase(c, m) /\ c.restore = m.restore
  THEN [c EXCEPT !.stage = "Completed", !.protect = TRUE, !.wantsRestore = FALSE]
  ELSE c

\* The state after packet m and the packets sent back.
AfterPacket(c, m) ==
  CASE m.type = "Snapshot" -> ClientSnapshot(c, m)
    [] m.type = "Load"     -> ObserveLoadRequest(Lock(c, TRUE), m)
    [] m.type = "Restored" -> ObserveSnapshot(c, m)
    [] m.type = "Complete" -> ObserveComplete(c, m)
Answer(c, m) ==
  CASE m.type = "Snapshot" -> SnapshotAnswer(c, m)
    [] m.type = "Load"     -> LoadRequestAnswer(Lock(c, TRUE), m)
    [] m.type = "Restored" ->
         LET next == ObserveSnapshot(c, m)
         IN  IF /\ next.stage = "SnapshotApplied"
                /\ MatchesBase(next, m) /\ next.restore = m.restore
             THEN <<AppliedMsg(next)>> ELSE <<>>
    [] m.type = "Complete" -> <<>>

\* A released member plays on from the world it stands in.
Playing(c) == c.stage \in {"Idle", "Completed"}

ClientReceive(s) ==
  LET m == Head(toClient[s])
      c == AfterPacket(client[s], m)
  IN  /\ link[s] = "up" /\ toClient[s] # <<>>
      /\ client' = [client EXCEPT ![s] = c]
      /\ toClient' = [toClient EXCEPT ![s] = Tail(@)]
      /\ toServer' = [toServer EXCEPT ![s] = @ \o Answer(client[s], m)]
      /\ world' = [world EXCEPT ![s] =
                     IF Playing(c) /\ @ # "menu" THEN "played" ELSE @]
      /\ UNCHANGED <<vars, link, loadFailed, faults>>

\* OnUpdate, FinishNativeLoad and SendLoaded.  Any load may fail, before or
\* after the engine has the save (artifact, loader, guard menu, watchdog), and
\* without a transport every load does; then the report goes nowhere.
FinishNativeLoad(s) ==
  /\ client[s].stage = "LoadingNativeSave"
  /\ \/ /\ link[s] = "up"
        /\ client' = [client EXCEPT ![s].stage = "NativeSaveLoaded"]
        /\ world' = [world EXCEPT ![s] = client[s].checkpoint]
     \/ /\ client' = [client EXCEPT ![s].stage = "Failed"]
        /\ world' \in {world, [world EXCEPT ![s] = client[s].checkpoint]}
  /\ toServer' = [toServer EXCEPT ![s] =
       IF link[s] # "up" THEN @
       ELSE Append(@, LoadedMsg(client[s], client'[s].stage = "NativeSaveLoaded"))]
  /\ UNCHANGED <<vars, link, toClient, loadFailed, faults>>

\* OnConnected: registration, possible once the server dropped the previous
\* connection of this player, and the automatic resume.
Reconnect(s) ==
  /\ link[s] = "down"
  /\ link' = [link EXCEPT ![s] = "up"]
  /\ toServer' = [toServer EXCEPT ![s] =
                    <<[type |-> "Resume", restore |-> client[s].wantsRestore]>>]
  /\ UNCHANGED <<vars, client, world, toClient, loadFailed, faults>>

-----------------------------------------------------------------------------
(***************************************************************************)
(* The server, with what it sends.  Two snapshots in a row that lock alike  *)
(* (Finish, then AdvanceRecovery) are sent as the last of them.             *)
(***************************************************************************)
Broadcast(pres, msgs) ==
  toClient' = [s \in Slots |-> IF s \in pres /\ link[s] = "up"
                               THEN toClient[s] \o msgs ELSE toClient[s]]

SnapshotMsg(state) == [type |-> "Snapshot", state |-> state]

\* SendRecoveryLoadRequests and SendRecoverySnapshot.
Dispatch(rec) ==
  CASE rec # None /\ rec.stage = "LoadingNativeSaves" ->
         <<[type |-> "Load", attempt |-> rec.attempt, cp |-> rec.checkpoint]>>
    [] rec # None /\ rec.stage = "ApplyingSnapshot" ->
         <<[type |-> "Restored", attempt |-> rec.attempt, cp |-> rec.checkpoint,
            restore |-> rec.restore]>>
    [] OTHER -> <<>>

ServerTakes(s, type) ==
  /\ toServer[s] # <<>> /\ Head(toServer[s]).type = type
  /\ toServer' = [toServer EXCEPT ![s] = Tail(@)]
  /\ UNCHANGED <<client, world, link, faults>>

ServerResume(s) ==
  /\ ServerTakes(s, "Resume")
  /\ OnResume(s, Head(toServer[s]).restore)
  /\ loadFailed' = FALSE
  /\ Broadcast(present', <<SnapshotMsg(CurrentState')>> \o Dispatch(Rec'))

MatchesAttempt(m) ==
  Rec # None /\ Rec.attempt = m.attempt /\ Rec.checkpoint = m.cp

\* RecordRecoveryLoaded is reached by a member of the open attempt, with the
\* whole roster present.
ReportCounts(s, m) == MatchesAttempt(m) /\ s \in present /\ FullRoster(present)

\* A success may complete the first barrier; outside the barriers it is
\* rejected.  A failure leaves the attempt locked, and nothing is sent: the next
\* load request is the one of the next Resume.
ServerLoaded(s) ==
  LET m == Head(toServer[s])
      accepted == ReportCounts(s, m) /\ m.ok /\ Rec.stage # "RecoveryLock"
  IN  /\ ServerTakes(s, "Loaded")
      /\ \/ /\ accepted
            /\ OnRecoveryLoadedResult(s)
            /\ Broadcast(present, IF recovery'.stage = "ApplyingSnapshot"
                 THEN <<SnapshotMsg(CurrentState')>> \o Dispatch(recovery')
                 ELSE <<>>)
            /\ loadFailed' = (loadFailed /\ recovery'.stage # "ApplyingSnapshot")
         \/ /\ ~accepted
            /\ loadFailed' = (loadFailed \/ (ReportCounts(s, m) /\ ~m.ok))
            /\ UNCHANGED <<vars, toClient>>

CompleteMsg(m) ==
  [type |-> "Complete", attempt |-> m.attempt, cp |-> m.cp, restore |-> m.restore]

\* A matching acknowledgement may complete the recovery.  After that, the
\* completion is replayed from the journal to whoever still asks.
ServerApplied(s) ==
  LET m == Head(toServer[s])
      accepted == MatchesAttempt(m) /\ s \in present /\ FullRoster(present)
                    /\ Rec.stage = "ApplyingSnapshot" /\ Rec.restore = m.restore
      replayed == /\ s \in present /\ Rec = None
                  /\ \E e \in Receipts(db.journal, "CompleteRecovery", m.attempt) :
                        e.cp = m.cp /\ e.resulting = m.restore
  IN  /\ ServerTakes(s, "Applied")
      /\ \/ /\ accepted
            /\ OnRecoverySnapshotApplied(s)
            /\ Broadcast(present, IF recovery' = None
                 THEN <<CompleteMsg(m), SnapshotMsg(CurrentState')>> ELSE <<>>)
         \/ /\ replayed
            /\ toClient' = [x \in Slots |->
                 IF x \notin present \/ link[x] # "up" THEN toClient[x]
                 ELSE toClient[x] \o
                        IF x = s THEN <<CompleteMsg(m), SnapshotMsg(CurrentState)>>
                                 ELSE <<SnapshotMsg(CurrentState)>>]
            /\ UNCHANGED vars
         \/ /\ ~accepted /\ ~replayed
            /\ UNCHANGED <<vars, toClient>>
      /\ loadFailed' = (loadFailed /\ recovery' # None)

\* PlayerLeave: what arrived before the loss was handled before it.
ServerLeave(s) ==
  /\ link[s] = "lost" /\ toServer[s] = <<>>
  /\ link' = [link EXCEPT ![s] = "down"]
  /\ \/ /\ s \in present
        /\ OnPlayerLeave(s)
        /\ Broadcast(present', <<SnapshotMsg(CurrentState')>>)
     \/ /\ s \notin present
        /\ UNCHANGED <<vars, toClient>>
  /\ loadFailed' = (loadFailed /\ s \notin present)
  /\ UNCHANGED <<client, world, toServer, faults>>

-----------------------------------------------------------------------------
(***************************************************************************)
(* Faults.                                                                  *)
(***************************************************************************)
Fault == faults < MaxFaults /\ faults' = faults + 1

\* The transport of s drops; the server already has a prefix of what s sent.
Drop(s) ==
  /\ Fault
  /\ link[s] = "up"
  /\ link' = [link EXCEPT ![s] = "lost"]
  /\ toClient' = [toClient EXCEPT ![s] = <<>>]
  /\ \E n \in 0..Len(toServer[s]) :
        toServer' = [toServer EXCEPT ![s] = SubSeq(@, 1, n)]
  /\ client' = [client EXCEPT ![s] = Disconnected(@)]
  /\ UNCHANGED <<vars, world, loadFailed>>

\* The game process of s stops; the player resumes from the main menu and
\* asks for the committed checkpoint.
ClientRestart(s) ==
  /\ Fault
  /\ link' = [link EXCEPT ![s] = IF @ = "up" THEN "lost" ELSE @]
  /\ toClient' = [toClient EXCEPT ![s] = <<>>]
  /\ client' = [client EXCEPT ![s] = [IdleClient EXCEPT !.wantsRestore = TRUE]]
  /\ world' = [world EXCEPT ![s] = "menu"]
  /\ UNCHANGED <<vars, toServer, loadFailed>>

\* The server process stops, and with it every connection.
ServerCrash ==
  /\ Fault
  /\ ServerRestart
  /\ link' = [s \in Slots |-> "down"]
  /\ toServer' = [s \in Slots |-> <<>>]
  /\ toClient' = [s \in Slots |-> <<>>]
  /\ client' = [s \in Slots |-> IF link[s] = "up" THEN Disconnected(client[s])
                                ELSE client[s]]
  /\ loadFailed' = FALSE
  /\ UNCHANGED world

-----------------------------------------------------------------------------
\* The saves of the whole roster, recorded by one transaction per slot: each
\* has its own revision and row.  The order of the slots does not matter.
SaveOrder ==
  CHOOSE q \in [1..Cardinality(Slots) -> Slots] :
    \A s \in Slots : \E i \in DOMAIN q : q[i] = s
RecordSlotSaves(d, cp, saves) ==
  [d EXCEPT !.revision = @ + Cardinality(Slots),
            !.cps[cp].saves = saves,
            !.journal = @ \cup
              {Entry("RecordCheckpointSlotSave", d.revision + (i - 1), d.revision + i,
                     0, SaveOrder[i], cp, 0) : i \in 1..Cardinality(Slots)}]

\* A campaign in play after one committed checkpoint.
CheckpointedCampaign(cp, saves) ==
  CommitCheckpoint(
    RecordSlotSaves(CreateCheckpointCandidate(StartedCampaign, cp), cp, saves), cp)

NetInit ==
  /\ \E cp \in CheckpointIds, saves \in [Slots -> Artifacts] :
        db = CheckpointedCampaign(cp, saves)
  /\ active = None /\ recovery = None /\ present = Slots /\ pendingLoad = FALSE
  /\ client = [s \in Slots |-> [IdleClient EXCEPT !.protect = TRUE]]
  /\ world = [s \in Slots |-> "played"]
  /\ link = [s \in Slots |-> "up"]
  /\ toServer = [s \in Slots |-> <<>>]
  /\ toClient = [s \in Slots |-> <<>>]
  /\ loadFailed = FALSE /\ faults = 0

NetNext ==
  \/ \E s \in Slots : ClientReceive(s)
  \/ \E s \in Slots : FinishNativeLoad(s)
  \/ \E s \in Slots : Reconnect(s)
  \/ \E s \in Slots : ServerResume(s)
  \/ \E s \in Slots : ServerLoaded(s)
  \/ \E s \in Slots : ServerApplied(s)
  \/ \E s \in Slots : ServerLeave(s)
  \/ \E s \in Slots : Drop(s)
  \/ \E s \in Slots : ClientRestart(s)
  \/ ServerCrash

\* Packets are handled, native loads end, the server notices losses, and
\* players come back; nothing obliges a fault to happen.
NetFairness ==
  \A s \in Slots :
    /\ WF_allVars(ClientReceive(s)) /\ WF_allVars(FinishNativeLoad(s))
    /\ WF_allVars(Reconnect(s))
    /\ WF_allVars(ServerResume(s)) /\ WF_allVars(ServerLoaded(s))
    /\ WF_allVars(ServerApplied(s)) /\ WF_allVars(ServerLeave(s))

NetSpec == NetInit /\ [][NetNext]_allVars /\ NetFairness

-----------------------------------------------------------------------------
(***************************************************************************)
(* Properties.                                                              *)
(***************************************************************************)
\* When the server completes an attempt, every connected member stands gated
\* in the native world of that very checkpoint, snapshot applied: nobody is
\* counted for a load of an older attempt, an older session or a lost process.
CompletionMeansRolledBack ==
  [][\A e \in OfKind(db'.journal \ db.journal, "CompleteRecovery"), s \in Slots :
       link[s] = "up" =>
         /\ world[s] = e.cp
         /\ client[s].stage = "SnapshotApplied"
         /\ client[s].attempt = e.attempt]_allVars

\* A connected, admitted member that plays while an attempt is open is about
\* to be told: the packet that locks it is in flight (OnCampaignSnapshot).
NobodyPlaysBehindTheFence ==
  \A s \in present :
    link[s] = "up" /\ Playing(client[s]) /\ OpenAttempts(db.journal) # {} =>
      \E i \in DOMAIN toClient[s] :
         \/ toClient[s][i].type = "Load"
         \/ /\ toClient[s][i].type = "Snapshot"
            /\ toClient[s][i].state \in {"RECOVERY_LOCK", "RESTORING_CHECKPOINT"}

\* Nobody is released from an attempt while another member is still behind it:
\* the gate of the first one opens after the last one applied the snapshot.
ReleasedTogether ==
  \A s, t \in Slots :
    /\ client[s].stage = "Completed"
    /\ client[t].attempt = client[s].attempt
    => client[t].stage \in {"SnapshotApplied", "Completed"}

\* The whole roster plays on together.
EverybodyPlays ==
  /\ Rec = None /\ present = Slots
  /\ \A s \in Slots : Playing(client[s]) /\ world[s] = "played"

\* A connected member could not load the checkpoint, the server knows, and
\* nobody has resumed since.
LoadRefused ==
  /\ loadFailed /\ Rec # None /\ Rec.stage = "LoadingNativeSaves"
  /\ \E s \in present :
       client[s].stage = "Failed" /\ client[s].attempt = Rec.attempt

\* Once faults stop, the campaign comes back, unless a failed load was reported
\* and nobody resumed after it: every member is released, and stays so.  The
\* code does not keep this promise.
RecoveryTerminates == <>[](EverybodyPlays \/ LoadRefused)

\* A member that applied the snapshot of an attempt, never learnt that it was
\* completed, and is now asked to load for a later one: ObserveLoadRequest
\* rejects every request of the later attempt.
Wedged(s) ==
  /\ client[s].stage = "SnapshotApplied"
  /\ OpenAttempts(db.journal) \notin {{}, {client[s].attempt}}

\* Once faults stop, the campaign comes back, unless a member is wedged in an
\* attempt that is over, or has reported a failed load that nobody resumed
\* after: every other loss, restart, stale packet and load cut short is
\* recovered from.
RecoversUnlessStuck ==
  <>[](EverybodyPlays \/ LoadRefused \/ \E s \in Slots : Wedged(s))
=============================================================================
