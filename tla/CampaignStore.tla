---------------------------- MODULE CampaignStore ----------------------------
(***************************************************************************)
(* The durable side of one sealed campaign: the SQLite campaign store       *)
(* (Code/campaign_persistence) as operators from a database value to a      *)
(* database value, one per transaction.  A transaction is atomic: it        *)
(* happens whole or rolls back.                                             *)
(*                                                                          *)
(* The journal is a set of entries.  The sequence column is not needed to   *)
(* order them: an advancing entry has its own resulting revision, and an    *)
(* accepted no-op (resulting = expected) stands between the advancing       *)
(* entries of its revision and of the next one.                             *)
(***************************************************************************)
EXTENDS Naturals, FiniteSets

CONSTANTS Slots,          \* the sealed roster (slot, player and binding are one)
          CheckpointIds,  \* identities GenerateId("checkpoint-") can return
          Artifacts,      \* native save bundles: fingerprint and metadata
          None            \* std::nullopt, a null column, or an empty map entry

ASSUME RosterAssumption == Slots # {}
ASSUME NoneAssumption == None \notin Slots \cup CheckpointIds \cup Artifacts

(***************************************************************************)
(* Journal entries.  attempt is the RestoreAttemptId, which is a function   *)
(* of the revision at which the attempt was entered; 0 when there is none.  *)
(***************************************************************************)
Kinds == {"CreateCampaign", "CommitCampaignStart", "SetReady",
          "CreateCheckpointCandidate", "RecordCheckpointSlotSave",
          "CommitCheckpoint", "BeginRecovery", "RecoveryLoaded",
          "RestoreCheckpoint", "RecoverySnapshotApplied", "CompleteRecovery"}

JournalRecord ==
  [kind: Kinds, expected: Nat, resulting: Nat, attempt: Nat,
   slot: Slots \cup {None}, cp: CheckpointIds \cup {None}, from: Nat]

Entry(kind, expected, resulting, attempt, slot, cp, from) ==
  [kind |-> kind, expected |-> expected, resulting |-> resulting,
   attempt |-> attempt, slot |-> slot, cp |-> cp, from |-> from]

OfKind(j, kind) == {e \in j : e.kind = kind}

\* The text of the MutationId: which fields of a command its identity names.
MutationId(e) ==
  CASE e.kind \in {"CreateCheckpointCandidate", "RecordCheckpointSlotSave",
                   "CommitCheckpoint"} -> <<e.kind, e.cp, e.slot>>
    [] e.kind \in {"BeginRecovery", "RecoveryLoaded", "RestoreCheckpoint",
                   "RecoverySnapshotApplied", "CompleteRecovery"}
                                       -> <<e.kind, e.attempt, e.slot>>
    [] OTHER                           -> <<e.kind, e.resulting, e.slot>>

(***************************************************************************)
(* The database.  core is core_state_payload: the readiness of the slots    *)
(* and the revision the payload was encoded at.  outbox holds the revisions *)
(* of the pending snapshot intents.                                         *)
(***************************************************************************)
Core == [ready: SUBSET Slots, version: Nat]
CheckpointRecord ==
  [state: {"Absent", "Candidate", "Committed"}, source: Nat, snap: Core,
   saves: [Slots -> Artifacts \cup {None}]]
Database ==
  [revision: Nat, core: Core, cps: [CheckpointIds -> CheckpointRecord],
   last: CheckpointIds \cup {None}, journal: SUBSET JournalRecord,
   outbox: SUBSET Nat]

NoSaves == [s \in Slots |-> None]
AbsentCheckpoint ==
  [state |-> "Absent", source |-> 0, snap |-> [ready |-> {}, version |-> 0],
   saves |-> NoSaves]

\* A campaign that was just created (revision 1) and started (revision 2).
StartedCampaign ==
  [revision |-> 2, core |-> [ready |-> {}, version |-> 2],
   cps |-> [c \in CheckpointIds |-> AbsentCheckpoint], last |-> None,
   journal |-> {Entry("CreateCampaign", 0, 1, 0, None, None, 0),
                Entry("CommitCampaignStart", 1, 2, 0, None, None, 0)},
   outbox |-> {1, 2}]

\* Every advancing transaction writes the new revision and its journal row.
Advance(d, kind, attempt, slot, cp, from) ==
  [d EXCEPT !.revision = @ + 1,
            !.journal = @ \cup {Entry(kind, d.revision, d.revision + 1,
                                      attempt, slot, cp, from)}]

\* ApplyMutation with AdvancesStateVersion = false: a journal receipt only.
AcceptedNoOp(d, kind, attempt, slot, cp) ==
  [d EXCEPT !.journal = @ \cup {Entry(kind, d.revision, d.revision,
                                      attempt, slot, cp, 0)}]

\* ApplyMutation carrying a new core state and its snapshot intent.
ApplyReady(d, s, ready) ==
  [Advance(d, "SetReady", 0, s, None, 0)
     EXCEPT !.core = [ready |-> IF ready THEN d.core.ready \cup {s}
                                         ELSE d.core.ready \ {s},
                      version |-> d.revision + 1],
            !.outbox = @ \cup {d.revision + 1}]

\* ApplyMutation of BeginRecovery: a revision, no core state.
ApplyBeginRecovery(d) ==
  Advance(d, "BeginRecovery", d.revision + 1, None, None, 0)

CreateCheckpointCandidate(d, cp) ==
  [Advance(d, "CreateCheckpointCandidate", 0, None, cp, 0)
     EXCEPT !.cps[cp] = [state |-> "Candidate", source |-> d.revision,
                         snap |-> [ready |-> d.core.ready,
                                   version |-> d.revision],
                         saves |-> NoSaves]]

\* Mutant: the slot is stored where its artifact belongs.
RecordCheckpointSlotSaveSwapped(d, cp, s, art) ==
  [Advance(d, "RecordCheckpointSlotSave", 0, s, cp, 0)
     EXCEPT !.cps[cp].saves[s] = s]

RecordCheckpointSlotSave(d, cp, s, art) ==
  [Advance(d, "RecordCheckpointSlotSave", 0, s, cp, 0)
     EXCEPT !.cps[cp].saves[s] = art]

Complete(d, cp) == \A s \in Slots : d.cps[cp].saves[s] # None

\* Mutant: the committed checkpoint does not replace an older one.
CommitCheckpointKeepsLast(d, cp) ==
  [Advance(d, "CommitCheckpoint", 0, None, cp, 0)
     EXCEPT !.cps[cp].state = "Committed",
            !.last = IF d.last = None THEN cp ELSE @]

CommitCheckpoint(d, cp) ==
  [Advance(d, "CommitCheckpoint", 0, None, cp, 0)
     EXCEPT !.cps[cp].state = "Committed", !.last = cp]

\* Mutant: the restore writes provenance and intents but not the saved world.
RestoreKeepsCurrentCore(d, attempt, cp) ==
  [Advance(d, "RestoreCheckpoint", attempt, None, cp, d.cps[cp].source)
     EXCEPT !.core.version = d.revision + 1,
            !.outbox = {r \in @ : r > d.revision} \cup {d.revision + 1}]

\* Mutant: intents of the abandoned timeline stay pending.
RestoreKeepsOutbox(d, attempt, cp) ==
  [Advance(d, "RestoreCheckpoint", attempt, None, cp, d.cps[cp].source)
     EXCEPT !.core = [ready |-> d.cps[cp].snap.ready,
                      version |-> d.revision + 1],
            !.outbox = @ \cup {d.revision + 1}]

\* The restored core is encoded at the new revision; intents that describe
\* an older revision are superseded by the one canonical snapshot intent.
RestoreCheckpointSnapshot(d, attempt, cp) ==
  [Advance(d, "RestoreCheckpoint", attempt, None, cp, d.cps[cp].source)
     EXCEPT !.core = [ready |-> d.cps[cp].snap.ready,
                      version |-> d.revision + 1],
            !.outbox = {r \in @ : r > d.revision} \cup {d.revision + 1}]

(***************************************************************************)
(* Reading the core state back.                                             *)
(***************************************************************************)
\* Mutant: a BeginRecovery revision is taken for a core revision.
ProducesCoreStateOrBegin(e) ==
  /\ e.resulting > e.expected
  /\ e.kind \notin {"CreateCheckpointCandidate", "RecordCheckpointSlotSave",
                    "CommitCheckpoint", "CompleteRecovery"}

ProducesCoreState(e) ==
  /\ e.resulting > e.expected
  /\ e.kind \notin {"CreateCheckpointCandidate", "RecordCheckpointSlotSave",
                    "CommitCheckpoint", "BeginRecovery", "CompleteRecovery"}

\* r is the newest revision, up to a bound, at which a core state was written.
IsCoreRevision(j, r, bound) ==
  /\ r <= bound
  /\ \E e \in j : ProducesCoreState(e) /\ e.resulting = r
  /\ \A e \in j : ProducesCoreState(e) /\ e.resulting <= bound => e.resulting <= r

\* The older revisions a payload labelled r may still be encoded at: the source
\* of the restore that produced r, and so on down the restore lineage.
Ancestors(j) ==
  LET f[r \in Nat] ==
        UNION {{e.from} \cup f[e.from] :
                 e \in {x \in OfKind(j, "RestoreCheckpoint") :
                           x.resulting = r /\ x.from < r}}
  IN f

\* DecodeCanonicalCoreState accepts version v for a payload labelled r.
DecodesAt(j, v, r) == v = r \/ v \in Ancestors(j)[r]

\* LoadAggregate: the campaigns row decodes at its newest core revision.
AggregateLoads(d) ==
  \E e \in d.journal : /\ IsCoreRevision(d.journal, e.resulting, d.revision)
                       /\ DecodesAt(d.journal, d.core.version, e.resulting)

\* The immutable snapshot of a checkpoint decodes at its source revision, or
\* at the newest core revision before it.
CheckpointDecodes(d, cp) ==
  LET c == d.cps[cp] IN
  \/ c.snap.version = c.source
  \/ \E e \in d.journal : /\ IsCoreRevision(d.journal, e.resulting, c.source)
                          /\ DecodesAt(d.journal, c.snap.version, e.resulting)
=============================================================================
