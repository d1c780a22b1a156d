---------------------------- MODULE CampaignServer ----------------------------
(***************************************************************************)
(* The campaign server: CampaignRuntimeService driven by                    *)
(* CampaignAdmissionService and CampaignProtocolService, for one campaign   *)
(* with a sealed roster.  Command handling is serialized, so each action is *)
(* one whole handler.  Packets are not tracked: a handler may run at any    *)
(* time with any arguments, which covers every late, lost, repeated or      *)
(* reordered packet of any client.                                          *)
(***************************************************************************)
EXTENDS CampaignStore

CONSTANTS MaxRevision,   \* bound: no new work is begun at this revision
          StoreMayFail   \* whether a SQLite call may fail and roll back

ASSUME BoundAssumption == MaxRevision \in Nat
ASSUME FaultAssumption == StoreMayFail \in BOOLEAN
ASSUME UnsavedWorldAssumption == \A w \in SUBSET Slots : None # w

VARIABLES db,           \* the SQLite database: survives a restart
          active,       \* m_activeCheckpoints: the checkpoint in progress
          recovery,     \* m_recoveries: the attempt in progress
          present,      \* slots whose admitted connection is live
          pendingLoad   \* m_pendingCampaignLoads holds this campaign
vars == <<db, active, recovery, present, pendingLoad>>

\* CampaignRecoveryActivity.  restore is 0 until the restore is durable;
\* loaded and applied are the barriers of the current session.
RecoveryActivity ==
  [attempt: Nat, stage: {"RecoveryLock", "LoadingNativeSaves", "ApplyingSnapshot"},
   checkpoint: CheckpointIds \cup {None}, restore: Nat,
   durableLoaded: SUBSET Slots, durableApplied: SUBSET Slots,
   loaded: SUBSET Slots, applied: SUBSET Slots]

ASSUME NoRecoveryAssumption == None \notin RecoveryActivity

\* Every variable has the shape its declaration in the code gives it: rows of
\* the schema, the two maps of CampaignRuntimeService, the admitted slots.
TypeOK ==
  /\ db \in Database
  /\ active \in CheckpointIds \cup {None}
  /\ recovery \in RecoveryActivity \cup {None}
  /\ present \subseteq Slots
  /\ pendingLoad \in BOOLEAN

Init ==
  /\ db = StartedCampaign
  /\ active = None
  /\ recovery = None
  /\ present = {}
  /\ pendingLoad = FALSE

-----------------------------------------------------------------------------
(***************************************************************************)
(* ReconstructRecovery: the attempt a journal leaves open.                  *)
(***************************************************************************)
Attempts(j, kind) == {e.attempt : e \in OfKind(j, kind)}
OpenAttempts(j) == Attempts(j, "BeginRecovery") \ Attempts(j, "CompleteRecovery")
Receipts(j, kind, a) == {e \in OfKind(j, kind) : e.attempt = a}
Receivers(j, kind, a) == {e.slot : e \in Receipts(j, kind, a)}
Restores(j, a) == Receipts(j, "RestoreCheckpoint", a)

\* The rollback point the journal implies for attempt a.
RebuiltCheckpoint(d, a) ==
  LET j == d.journal IN
  IF Restores(j, a) # {} THEN (CHOOSE e \in Restores(j, a) : TRUE).cp
  ELSE IF Receipts(j, "RecoveryLoaded", a) \cup
          Receipts(j, "RecoverySnapshotApplied", a) # {} THEN d.last
  ELSE None
RebuiltRestore(j, a) ==
  IF Restores(j, a) = {} THEN 0
  ELSE (CHOOSE e \in Restores(j, a) : TRUE).resulting

\* The barrier sets of the previous process are gone; its receipts are not.
Rebuild(d) ==
  LET a == CHOOSE a \in OpenAttempts(d.journal) : TRUE
  IN  IF OpenAttempts(d.journal) = {} THEN None
      ELSE [attempt |-> a, stage |-> "RecoveryLock",
            checkpoint |-> RebuiltCheckpoint(d, a),
            restore |-> RebuiltRestore(d.journal, a),
            durableLoaded |-> Receivers(d.journal, "RecoveryLoaded", a),
            durableApplied |-> Receivers(d.journal, "RecoverySnapshotApplied", a),
            loaded |-> {}, applied |-> {}]

\* No step of the scan finds an IntegrityFailure: attempts do not overlap,
\* revisions correlate, and every receipt of the open attempt names the
\* rollback point and a slot of its own.
ScanSucceeds(d) ==
  LET j == d.journal IN
  /\ \A b \in OfKind(j, "BeginRecovery") :
        /\ b.resulting = b.expected + 1 /\ b.attempt = b.resulting
        /\ \A n \in OfKind(j, "BeginRecovery") : b.resulting < n.resulting =>
              \E c \in Receipts(j, "CompleteRecovery", b.attempt) :
                 c.resulting < n.resulting
  /\ \A e \in OfKind(j, "RestoreCheckpoint") :
        e.resulting = e.expected + 1 /\ e.cp # None
  /\ \A c \in OfKind(j, "CompleteRecovery") :
        \E e \in Restores(j, c.attempt) : c.resulting = e.resulting /\ c.cp = e.cp
  /\ \A a \in OpenAttempts(j) :
        LET acks == Receipts(j, "RecoveryLoaded", a) \cup
                    Receipts(j, "RecoverySnapshotApplied", a)
        IN  /\ \A e \in acks : /\ e.cp = RebuiltCheckpoint(d, a) /\ e.cp # None
                               /\ e.expected = e.resulting
                               /\ \A x \in acks : MutationId(x) = MutationId(e) => x = e
            /\ Receipts(j, "RecoverySnapshotApplied", a) # {} => Restores(j, a) # {}

\* What every handler works with: m_recoveries, rebuilt on first use.
Rec == IF recovery # None THEN recovery ELSE Rebuild(db)
RecoveryReadable == recovery # None \/ ScanSucceeds(db)

\* Mutants: the fence ignores a recovery, or ignores a checkpoint.
FenceIgnoresRecovery == active = None
FenceIgnoresCheckpoint == RecoveryReadable /\ Rec = None

\* CheckMutationFence lets a durable mutation through.
MutationFence == active = None /\ RecoveryReadable /\ Rec = None

\* EvaluateFullRoster on a sealed roster.
FullRoster(pres) == pres = Slots

\* CampaignRuntimeService::LoadCampaign.
RuntimeState(rec, act, pres) ==
  CASE rec # None /\ rec.stage = "RecoveryLock" -> "RECOVERY_LOCK"
    [] rec # None /\ rec.stage # "RecoveryLock" -> "RESTORING_CHECKPOINT"
    [] rec = None /\ act # None                 -> "CHECKPOINTING"
    [] rec = None /\ act = None                 ->
         IF FullRoster(pres) THEN "ACTIVE" ELSE "WAITING_FOR_ROSTER"
CurrentState == RuntimeState(Rec, active, present)

-----------------------------------------------------------------------------
(***************************************************************************)
(* What BeginRecovery and PrepareRecovery do to the attempt in progress.    *)
(***************************************************************************)
\* The attempt BeginRecovery opens at the next revision.
OpenedAttempt(d) ==
  [attempt |-> d.revision + 1, stage |-> "RecoveryLock", checkpoint |-> None,
   restore |-> 0, durableLoaded |-> {}, durableApplied |-> {},
   loaded |-> {}, applied |-> {}]

\* Mutant: the barriers of the interrupted session still count.
RelockedKeepsBarriers(rec) == [rec EXCEPT !.stage = "RecoveryLock"]

\* Losing a member again reopens both barriers but keeps what is durable.
Relocked(rec) ==
  [rec EXCEPT !.stage = "RecoveryLock",
              !.loaded = IF rec.stage = "RecoveryLock" THEN @ ELSE {},
              !.applied = IF rec.stage = "RecoveryLock" THEN @ ELSE {}]

\* The rollback point of an attempt: kept once chosen.
RollbackPoint(rec, d) == IF rec.checkpoint # None THEN rec.checkpoint ELSE d.last

\* A complete recoverable bundle.
Recoverable(d, cp) == d.cps[cp].state = "Committed" /\ Complete(d, cp)

\* PrepareRecovery leaves the attempt alone while the roster is incomplete,
\* while no checkpoint was ever committed, and once it is restored.
CanPrepare(rec, d, pres) ==
  /\ FullRoster(pres)
  /\ rec.stage # "ApplyingSnapshot"
  /\ RollbackPoint(rec, d) # None
  /\ Recoverable(d, RollbackPoint(rec, d))
PrepareRecovery(rec, d, pres) ==
  IF rec = None \/ ~CanPrepare(rec, d, pres) THEN rec
  ELSE [rec EXCEPT !.stage = "LoadingNativeSaves",
                   !.checkpoint = RollbackPoint(rec, d),
                   !.loaded = IF rec.stage = "RecoveryLock" THEN {} ELSE @,
                   !.applied = IF rec.stage = "RecoveryLock" THEN {} ELSE @]

\* Mutant: the interrupted checkpoint stays active.
OpenRecoveryKeepsCheckpoint == db' = ApplyBeginRecovery(db) /\ UNCHANGED active

\* Mutant: the attempt lives in memory only.
OpenRecoveryVolatile == UNCHANGED db /\ active' = None

\* The end of BeginRecovery: the checkpoint in progress is given up.
OpenRecovery == db' = ApplyBeginRecovery(db) /\ active' = None

-----------------------------------------------------------------------------
(***************************************************************************)
(* The handlers.  A command that is rejected changes nothing, so only the   *)
(* accepted ones are actions.  Where a handler runs several transactions,   *)
(* StoreMayFail lets a later one fail (or the process die before it) after  *)
(* an earlier one was committed.                                            *)
(***************************************************************************)
\* OnSetReady: the only ordinary core mutation of a sealed campaign.
OnSetReady(s, ready) ==
  /\ s \in present
  /\ MutationFence
  /\ AggregateLoads(db)
  /\ ready # (s \in db.core.ready)
  /\ db.revision < MaxRevision
  /\ db' = ApplyReady(db, s, ready)
  /\ UNCHANGED <<active, recovery, present, pendingLoad>>

\* Mutant: the identity of an existing checkpoint is taken again.
UnusedIdentityUnchecked(cp) == TRUE

\* GenerateId returns an identity the store has no checkpoint for.
UnusedIdentity(cp) == db.cps[cp].state = "Absent"

\* OnCheckpointRequest: sent is whether SendCheckpointRequest reached every
\* member; if not, AbandonCheckpoint leaves the candidate behind.
OnCheckpointRequest(s, cp, sent) ==
  /\ s \in present
  /\ MutationFence
  /\ AggregateLoads(db)
  /\ CurrentState = "ACTIVE"
  /\ UnusedIdentity(cp)
  /\ db.revision < MaxRevision
  /\ db' = CreateCheckpointCandidate(db, cp)
  /\ active' = IF sent THEN cp ELSE None
  /\ UNCHANGED <<recovery, present, pendingLoad>>

\* OnCheckpointSaveResult: success.  A repeated report of the same artifact
\* is a replay; another artifact for a recorded slot is a conflict.
OnCheckpointSaveResult(s, cp, art) ==
  /\ s \in present
  /\ RecoveryReadable
  /\ Rec = None
  /\ active = cp
  /\ db.cps[cp].state = "Candidate"
  /\ db.cps[cp].saves[s] \in {None, art}
  /\ LET recorded == IF db.cps[cp].saves[s] = art THEN db
                      ELSE RecordCheckpointSlotSave(db, cp, s, art)
     IN  \/ /\ Complete(recorded, cp)
            /\ db' = CommitCheckpoint(recorded, cp)
            /\ active' = None
         \/ /\ ~Complete(recorded, cp) \/ StoreMayFail
            /\ db' = recorded
            /\ active' = active
  /\ UNCHANGED <<recovery, present, pendingLoad>>

\* OnCheckpointSaveResult: failure.  The candidate is never committed.
OnCheckpointSaveFailed(s) ==
  /\ s \in present
  /\ RecoveryReadable
  /\ Rec = None
  /\ active # None
  /\ active' = None
  /\ UNCHANGED <<db, recovery, present, pendingLoad>>

\* Mutant: the request is kept although a recovery is already open.
LoadWantedDuringRecovery(s, restore, state) ==
  pendingLoad \/ (restore /\ s \notin present)

\* m_pendingCampaignLoads as a resume leaves it: set by a first admission that
\* asks for the committed checkpoint, dropped once a recovery is open.
LoadWanted(s, restore, state) ==
  /\ pendingLoad \/ (restore /\ s \notin present)
  /\ state \notin {"RECOVERY_LOCK", "RESTORING_CHECKPOINT"}

\* OnResume: admission, then BeginCampaignLoadRecovery when a restore was
\* asked for and this member completes the roster, then AdvanceRecovery.
OnResume(s, restore) ==
  LET pres == present \cup {s}
      state == RuntimeState(Rec, active, pres)
      wanted == LoadWanted(s, restore, state)
  IN  /\ AggregateLoads(db)
      /\ RecoveryReadable
      /\ present' = pres
      /\ \/ /\ wanted /\ state = "ACTIVE"
            /\ db.revision < MaxRevision
            /\ OpenRecovery
            /\ recovery' = PrepareRecovery(OpenedAttempt(db), db', pres)
            /\ pendingLoad' = FALSE
         \/ /\ ~(wanted /\ state = "ACTIVE") \/ StoreMayFail
            /\ recovery' = PrepareRecovery(Rec, db, pres)
            /\ pendingLoad' = wanted
            /\ UNCHANGED <<db, active>>

\* OnPlayerLeave: Disconnect reads the state the member leaves, drops the
\* connection and calls BeginRecovery.  The last two disjuncts are a failed
\* read of that state and a failed write of the BeginRecovery mutation.
OnPlayerLeave(s) ==
  /\ s \in present
  /\ present' = present \ {s}
  /\ UNCHANGED pendingLoad
  /\ RecoveryReadable
  /\ \/ /\ Rec # None
        /\ recovery' = Relocked(Rec)
        /\ UNCHANGED <<db, active>>
     \/ /\ CurrentState \in {"ACTIVE", "CHECKPOINTING"}
        /\ AggregateLoads(db)
        /\ db.revision < MaxRevision
        /\ OpenRecovery
        /\ recovery' = OpenedAttempt(db)
     \/ /\ Rec = None
        /\ CurrentState = "WAITING_FOR_ROSTER" \/ StoreMayFail
        /\ UNCHANGED <<db, active, recovery>>
     \/ /\ CurrentState \in {"ACTIVE", "CHECKPOINTING"} /\ StoreMayFail
        /\ active' = None
        /\ UNCHANGED <<db, recovery>>

\* Mutant: the receipt is not persisted.
LoadedReceiptVolatile(rec, s) == db

\* The native-load receipt of slot s, unless an earlier session wrote it.
LoadedReceipt(rec, s) ==
  IF s \in rec.durableLoaded THEN db
  ELSE AcceptedNoOp(db, "RecoveryLoaded", rec.attempt, s, rec.checkpoint)

\* Mutant: the second barrier starts from the first one.
RestoredCountsLoaded(rec, r) ==
  [rec EXCEPT !.stage = "ApplyingSnapshot", !.restore = r, !.applied = rec.loaded]

\* The first barrier is complete: the restore is durable at revision r.
Restored(rec, r) ==
  [rec EXCEPT !.stage = "ApplyingSnapshot", !.restore = r, !.applied = {}]

\* OnRecoveryLoadedResult: a success whose attempt, checkpoint and proof match.
OnRecoveryLoadedResult(s) ==
  LET rec == [Rec EXCEPT !.durableLoaded = @ \cup {s}]
      acked == [rec EXCEPT !.loaded = @ \cup {s}]
      d == LoadedReceipt(Rec, s)
      durable == Restores(d.journal, rec.attempt)
  IN  /\ s \in present
      /\ RecoveryReadable
      /\ Rec # None
      /\ Rec.checkpoint # None
      /\ AggregateLoads(db)
      /\ FullRoster(present)
      /\ \/ /\ Rec.stage = "ApplyingSnapshot"
            /\ db' = d /\ recovery' = rec
         \/ /\ Rec.stage = "LoadingNativeSaves"
            /\ acked.loaded # Slots \/ StoreMayFail
            /\ db' = d /\ recovery' = acked
         \/ /\ Rec.stage = "LoadingNativeSaves"
            /\ acked.loaded = Slots
            /\ \E e \in durable : /\ e.cp = rec.checkpoint
                                  /\ recovery' = Restored(acked, e.resulting)
            /\ db' = d
         \/ /\ Rec.stage = "LoadingNativeSaves"
            /\ acked.loaded = Slots
            /\ durable = {}
            /\ CheckpointDecodes(d, rec.checkpoint)
            /\ db' = RestoreCheckpointSnapshot(d, rec.attempt, rec.checkpoint)
            /\ recovery' = Restored(acked, d.revision + 1)
      /\ UNCHANGED <<active, present, pendingLoad>>

\* The snapshot-applied receipt of slot s, unless it is already durable.
AppliedReceipt(rec, s) ==
  IF s \in rec.durableApplied THEN db
  ELSE AcceptedNoOp(db, "RecoverySnapshotApplied", rec.attempt, s, rec.checkpoint)

\* Mutant: the first acknowledgement completes the barrier.
AllAppliedEarly(rec) == rec.applied # {}

\* SnapshotAppliedSlots has every slot of the checkpoint.
AllApplied(rec) == rec.applied = Slots

\* OnRecoverySnapshotApplied: the second barrier, and at its end
\* CompleteRecovery, accepted only at exactly the restored revision.
OnRecoverySnapshotApplied(s) ==
  LET acked == [Rec EXCEPT !.durableApplied = @ \cup {s}, !.applied = @ \cup {s}]
      d == AppliedReceipt(Rec, s)
  IN  /\ s \in present
      /\ RecoveryReadable
      /\ Rec # None
      /\ Rec.stage = "ApplyingSnapshot"
      /\ AggregateLoads(db)
      /\ FullRoster(present)
      /\ \/ /\ ~AllApplied(acked) \/ db.revision # Rec.restore \/ StoreMayFail
            /\ db' = d /\ recovery' = acked
         \/ /\ AllApplied(acked)
            /\ db.revision = Rec.restore
            /\ db' = AcceptedNoOp(d, "CompleteRecovery", Rec.attempt, None,
                                  Rec.checkpoint)
            /\ recovery' = None
      /\ UNCHANGED <<active, present, pendingLoad>>

\* The process stops at any time and starts again on the same database.
ServerRestart ==
  /\ active' = None
  /\ recovery' = None
  /\ present' = {}
  /\ pendingLoad' = FALSE
  /\ UNCHANGED db

Next ==
  \/ \E s \in Slots, ready \in BOOLEAN : OnSetReady(s, ready)
  \/ \E s \in Slots, cp \in CheckpointIds, sent \in BOOLEAN :
        OnCheckpointRequest(s, cp, sent)
  \/ \E s \in Slots, cp \in CheckpointIds, art \in Artifacts :
        OnCheckpointSaveResult(s, cp, art)
  \/ \E s \in Slots : OnCheckpointSaveFailed(s)
  \/ \E s \in Slots, restore \in BOOLEAN : OnResume(s, restore)
  \/ \E s \in Slots : OnPlayerLeave(s)
  \/ \E s \in Slots : OnRecoveryLoadedResult(s)
  \/ \E s \in Slots : OnRecoverySnapshotApplied(s)
  \/ ServerRestart

Spec == Init /\ [][Next]_vars

-----------------------------------------------------------------------------
(***************************************************************************)
(* Properties.                                                              *)
(***************************************************************************)
\* A restarted server recovers the attempt the old one had in memory: the
\* journal scan of ReconstructRecovery never fails, and what it rebuilds agrees
\* with m_recoveries on the attempt, the restore and every durable receipt.
RestartRebuildsRecovery ==
  /\ ScanSucceeds(db)
  /\ recovery # None =>
       /\ OpenAttempts(db.journal) = {recovery.attempt}
       /\ LET rebuilt == Rebuild(db) IN
          /\ rebuilt.restore = recovery.restore
          /\ rebuilt.durableLoaded = recovery.durableLoaded
          /\ rebuilt.durableApplied = recovery.durableApplied
          /\ rebuilt.checkpoint \in {None, recovery.checkpoint}

\* LoadAggregate and the decoding of a checkpoint snapshot never fail, however
\* checkpoints and recoveries follow each other: revisions that carry no core
\* state never mislabel the payload.
AlwaysLoadable ==
  /\ AggregateLoads(db)
  /\ \A cp \in CheckpointIds : db.cps[cp].state # "Absent" => CheckpointDecodes(db, cp)

\* Once the restore of the open attempt is durable, the shared core is exactly
\* the last committed snapshot, at exactly the restored revision, until the
\* attempt completes (RestoreCheckpointSnapshot, CompleteRecovery).
RolledBackExactly ==
  \A a \in OpenAttempts(db.journal) : \A e \in Restores(db.journal, a) :
     /\ e.cp = db.last
     /\ db.core.ready = db.cps[e.cp].snap.ready
     /\ db.revision = e.resulting

\* A committed checkpoint is one moment of the campaign: no core mutation lies
\* between its source revision and its commit (CheckMutationFence).
CheckpointIsConsistentCut ==
  \A c \in OfKind(db.journal, "CommitCheckpoint"), e \in db.journal :
     ProducesCoreState(e) =>
       \/ e.resulting <= db.cps[c.cp].source
       \/ e.resulting > c.resulting

\* A member counted by a barrier of the current session has been connected
\* since it was counted: a loss forgets the whole session (BeginRecovery).
BarriersCountConnected ==
  recovery # None => recovery.loaded \cup recovery.applied \subseteq present

\* No checkpoint is in progress while an attempt is open, not even one that a
\* restart has not rebuilt yet (BeginRecovery erases m_activeCheckpoints).
CheckpointExcludesRecovery == active # None => OpenAttempts(db.journal) = {}

\* The rollback point is the checkpoint committed last, however commits,
\* abandoned candidates and recoveries follow each other: neither the campaign
\* row nor the checkpoint an open attempt has chosen falls behind a commit.
RollsBackToLatestCommit ==
  \A c \in OfKind(db.journal, "CommitCheckpoint"),
     point \in {db.last} \cup
               (IF recovery = None THEN {} ELSE {recovery.checkpoint} \ {None}) :
     db.cps[c.cp].source <= db.cps[point].source

\* A pending snapshot intent never describes a timeline that a restore has
\* abandoned, and the newest core state always has its intent.
IntentsDescribeLiveTimeline ==
  /\ \A r \in db.outbox, e \in OfKind(db.journal, "RestoreCheckpoint") : r >= e.resulting
  /\ db.core.version \in db.outbox

\* A pending "load the committed checkpoint" request never survives into play,
\* where a later resume would roll live progress back (m_pendingCampaignLoads).
\* Without store faults.
PendingLoadWaits == pendingLoad => CurrentState = "WAITING_FOR_ROSTER"

\* While an attempt is open, in memory or only in the journal, nothing durable
\* moves but the attempt's own restore: no readiness change, no checkpoint.
FrozenStep(d, n) ==
  OpenAttempts(d.journal) # {} =>
    /\ n.cps = d.cps
    /\ n.last = d.last
    /\ n.core # d.core \/ n.revision # d.revision =>
         \E a \in OpenAttempts(d.journal) :
            Restores(d.journal, a) = {} /\ Restores(n.journal, a) # {}
FrozenWhileRecovering == [][FrozenStep(db, db')]_vars

\* History is append-only: no journal row and no committed checkpoint is ever
\* changed, and the revision never goes back, restores included.
HistoryStep(d, n) ==
  /\ d.journal \subseteq n.journal
  /\ n.revision >= d.revision
  /\ \A cp \in CheckpointIds :
       d.cps[cp].state = "Committed" => n.cps[cp] = d.cps[cp]
HistoryIsImmutable == [][HistoryStep(db, db')]_vars

\* A member lost while the campaign is live leaves a durable open attempt
\* behind, so that play cannot go on without a rollback (Disconnect).
LossLocksCampaign ==
  [][/\ CurrentState \in {"ACTIVE", "CHECKPOINTING"}
     /\ present' \subseteq present /\ present' # present
     => ServerRestart \/ OpenAttempts(db'.journal) # {}]_vars

-----------------------------------------------------------------------------
(***************************************************************************)
(* The server implements the players' view of it.  The mapping reads only   *)
(* the database, so that restarts are invisible.                            *)
(***************************************************************************)
SavedIn(d) == IF d.last = None THEN None ELSE d.cps[d.last].snap.ready
PhaseOf(j) ==
  CASE OpenAttempts(j) = {} -> "Playing"
    [] \E a \in OpenAttempts(j) : Restores(j, a) # {} -> "RolledBack"
    [] OTHER -> "Locked"
SavedWorld == SavedIn(db)
RollbackPhase == PhaseOf(db.journal)

Rollback == INSTANCE CampaignRollback
  WITH Worlds <- SUBSET Slots, Unsaved <- None,
       live <- db.core.ready, saved <- SavedWorld, phase <- RollbackPhase

\* Every step of the server is a step, or a stutter, of the abstract campaign.
ImplementsRollback == Rollback!Spec
=============================================================================
