------------------------- MODULE CampaignServerProofs -------------------------
(***************************************************************************)
(* Proofs about the campaign server for every roster, every set of          *)
(* checkpoint identities and artifacts, every bound, and with a store that  *)
(* may fail.                                                                *)
(***************************************************************************)
EXTENDS CampaignServer, TLAPS

-----------------------------------------------------------------------------
(***************************************************************************)
(* The store operations keep the shape of the database.                     *)
(***************************************************************************)
\* A journal entry of typed fields is a row of the journal table.
LEMMA EntryType ==
  ASSUME NEW kind \in Kinds, NEW x \in Nat, NEW r \in Nat, NEW a \in Nat,
         NEW s \in Slots \cup {None}, NEW c \in CheckpointIds \cup {None},
         NEW f \in Nat
  PROVE  Entry(kind, x, r, a, s, c, f) \in JournalRecord
BY DEF Entry, JournalRecord

\* Database n is d with one more revision and row e.
Advanced(d, n, e) ==
  /\ n \in Database
  /\ n.revision = d.revision + 1 /\ n.core = d.core /\ n.cps = d.cps
  /\ n.last = d.last /\ n.outbox = d.outbox
  /\ n.journal = d.journal \cup {e}

\* What the revision and journal part of an advancing transaction writes.
LEMMA AdvanceFields ==
  ASSUME NEW d \in Database, NEW kind \in Kinds, NEW a \in Nat,
         NEW s \in Slots \cup {None}, NEW c \in CheckpointIds \cup {None},
         NEW f \in Nat
  PROVE  Advanced(d, Advance(d, kind, a, s, c, f),
                  Entry(kind, d.revision, d.revision + 1, a, s, c, f))
<1> DEFINE e == Entry(kind, d.revision, d.revision + 1, a, s, c, f)
<1>1. d.revision \in Nat /\ d.revision + 1 \in Nat
  BY DEF Database
<1>2. e \in JournalRecord
  BY <1>1, EntryType
<1>3. Advance(d, kind, a, s, c, f) =
        [d EXCEPT !.revision = d.revision + 1, !.journal = d.journal \cup {e}]
  BY DEF Advance
<1>4. d.journal \cup {e} \in SUBSET JournalRecord
  BY <1>2 DEF Database
<1> HIDE DEF e
<1>5. [d EXCEPT !.revision = d.revision + 1, !.journal = d.journal \cup {e}] \in Database
  BY <1>1, <1>4 DEF Database
<1>6. d = [revision |-> d.revision, core |-> d.core, cps |-> d.cps, last |-> d.last,
           journal |-> d.journal, outbox |-> d.outbox]
  BY DEF Database
<1> QED BY <1>3, <1>5, <1>6 DEF e, Advanced

\* A receipt adds one row and changes nothing else.
LEMMA NoOpFields ==
  ASSUME NEW d \in Database, NEW kind \in Kinds, NEW a \in Nat,
         NEW s \in Slots \cup {None}, NEW c \in CheckpointIds \cup {None}
  PROVE  /\ AcceptedNoOp(d, kind, a, s, c) \in Database
         /\ AcceptedNoOp(d, kind, a, s, c).revision = d.revision
         /\ AcceptedNoOp(d, kind, a, s, c).core = d.core
         /\ AcceptedNoOp(d, kind, a, s, c).cps = d.cps
         /\ AcceptedNoOp(d, kind, a, s, c).last = d.last
         /\ AcceptedNoOp(d, kind, a, s, c).outbox = d.outbox
         /\ AcceptedNoOp(d, kind, a, s, c).journal =
              d.journal \cup {Entry(kind, d.revision, d.revision, a, s, c, 0)}
<1>1. Entry(kind, d.revision, d.revision, a, s, c, 0) \in JournalRecord
  BY EntryType DEF Database
<1> QED BY <1>1 DEF AcceptedNoOp, Database

\* SetReady changes the core state and nothing of the checkpoints.
LEMMA ReadyFields ==
  ASSUME NEW d \in Database, NEW s \in Slots, NEW ready \in BOOLEAN
  PROVE  LET n == ApplyReady(d, s, ready) IN
         /\ n \in Database
         /\ n.revision = d.revision + 1
         /\ n.cps = d.cps
         /\ n.last = d.last
         /\ n.core.version = d.revision + 1
         /\ n.outbox = d.outbox \cup {d.revision + 1}
         /\ n.journal = d.journal \cup
              {Entry("SetReady", d.revision, d.revision + 1, 0, s, None, 0)}
<1> DEFINE n == Advance(d, "SetReady", 0, s, None, 0)
<1>0. /\ "SetReady" \in Kinds /\ 0 \in Nat
      /\ s \in Slots \cup {None} /\ None \in CheckpointIds \cup {None}
  BY DEF Kinds
<1>a. Advanced(d, n, Entry("SetReady", d.revision, d.revision + 1, 0, s, None, 0))
  BY <1>0, AdvanceFields
<1>1. /\ n \in Database /\ n.revision = d.revision + 1 /\ n.core = d.core
      /\ n.cps = d.cps /\ n.last = d.last /\ n.outbox = d.outbox
      /\ n.journal = d.journal \cup
           {Entry("SetReady", d.revision, d.revision + 1, 0, s, None, 0)}
  BY <1>a DEF Advanced
<1>2. d.revision + 1 \in Nat /\ d.core.ready \in SUBSET Slots /\ d.outbox \in SUBSET Nat
  BY DEF Database, Core
<1>3. (IF ready THEN d.core.ready \cup {s} ELSE d.core.ready \ {s}) \in SUBSET Slots
  BY <1>2
<1> HIDE DEF n
<1> QED BY <1>1, <1>2, <1>3 DEF ApplyReady, Database, Core, n

\* BeginRecovery writes a revision and a row that names it.
LEMMA BeginFields ==
  ASSUME NEW d \in Database
  PROVE  LET n == ApplyBeginRecovery(d) IN
         /\ n \in Database
         /\ n.revision = d.revision + 1
         /\ n.core = d.core /\ n.cps = d.cps /\ n.last = d.last
         /\ n.outbox = d.outbox
         /\ n.journal = d.journal \cup
              {Entry("BeginRecovery", d.revision, d.revision + 1,
                     d.revision + 1, None, None, 0)}
<1>1. /\ d.revision + 1 \in Nat /\ "BeginRecovery" \in Kinds /\ 0 \in Nat
      /\ None \in Slots \cup {None} /\ None \in CheckpointIds \cup {None}
  BY DEF Database, Kinds
<1>2. Advanced(d, ApplyBeginRecovery(d),
               Entry("BeginRecovery", d.revision, d.revision + 1,
                     d.revision + 1, None, None, 0))
  BY <1>1, AdvanceFields DEF ApplyBeginRecovery
<1> QED BY <1>2 DEF Advanced

\* A new candidate takes one identity and freezes the current core state.
LEMMA CandidateFields ==
  ASSUME NEW d \in Database, NEW cp \in CheckpointIds
  PROVE  LET n == CreateCheckpointCandidate(d, cp) IN
         /\ n \in Database
         /\ n.revision = d.revision + 1
         /\ n.core = d.core /\ n.last = d.last /\ n.outbox = d.outbox
         /\ n.journal = d.journal \cup
              {Entry("CreateCheckpointCandidate", d.revision, d.revision + 1,
                     0, None, cp, 0)}
         /\ n.cps[cp].state = "Candidate"
         /\ n.cps[cp].snap.ready = d.core.ready
         /\ n.cps[cp].source = d.revision
         /\ n.cps[cp].snap.version = d.revision
         /\ \A x \in CheckpointIds \ {cp} : n.cps[x] = d.cps[x]
<1> DEFINE a == Advance(d, "CreateCheckpointCandidate", 0, None, cp, 0)
           c == [state |-> "Candidate", source |-> d.revision,
                 snap |-> [ready |-> d.core.ready, version |-> d.revision],
                 saves |-> NoSaves]
<1>0. /\ "CreateCheckpointCandidate" \in Kinds /\ 0 \in Nat
      /\ None \in Slots \cup {None} /\ cp \in CheckpointIds \cup {None}
  BY DEF Kinds
<1>a. Advanced(d, a, Entry("CreateCheckpointCandidate", d.revision, d.revision + 1,
                           0, None, cp, 0))
  BY <1>0, AdvanceFields
<1>1. /\ a \in Database /\ a.revision = d.revision + 1 /\ a.core = d.core
      /\ a.cps = d.cps /\ a.last = d.last /\ a.outbox = d.outbox
      /\ a.journal = d.journal \cup
           {Entry("CreateCheckpointCandidate", d.revision, d.revision + 1,
                  0, None, cp, 0)}
  BY <1>a DEF Advanced
<1>2. d.revision \in Nat /\ d.core.ready \in SUBSET Slots
  BY DEF Database, Core
<1>3. NoSaves \in [Slots -> Artifacts \cup {None}]
  BY DEF NoSaves
<1>4. c \in CheckpointRecord
  BY <1>2, <1>3 DEF CheckpointRecord, Core
<1>5. /\ c.state = "Candidate" /\ c.snap.ready = d.core.ready
      /\ c.source = d.revision /\ c.snap.version = d.revision
  OBVIOUS
<1>6. CreateCheckpointCandidate(d, cp) = [a EXCEPT !.cps[cp] = c]
  BY DEF CreateCheckpointCandidate
<1> HIDE DEF a, c
<1>7. [a EXCEPT !.cps[cp] = c] \in Database
  BY <1>1, <1>4 DEF Database
<1> QED BY <1>1, <1>5, <1>6, <1>7 DEF Database

\* A slot save touches the saves of its own checkpoint only.
LEMMA SlotSaveFields ==
  ASSUME NEW d \in Database, NEW cp \in CheckpointIds, NEW s \in Slots,
         NEW art \in Artifacts
  PROVE  LET n == RecordCheckpointSlotSave(d, cp, s, art) IN
         /\ n \in Database
         /\ n.revision = d.revision + 1
         /\ n.core = d.core /\ n.last = d.last /\ n.outbox = d.outbox
         /\ n.journal = d.journal \cup
              {Entry("RecordCheckpointSlotSave", d.revision, d.revision + 1,
                     0, s, cp, 0)}
         /\ n.cps[cp].state = d.cps[cp].state
         /\ n.cps[cp].snap = d.cps[cp].snap
         /\ n.cps[cp].source = d.cps[cp].source
         /\ \A x \in CheckpointIds \ {cp} : n.cps[x] = d.cps[x]
<1> DEFINE a == Advance(d, "RecordCheckpointSlotSave", 0, s, cp, 0)
           c == [d.cps[cp] EXCEPT !.saves[s] = art]
<1>0. /\ "RecordCheckpointSlotSave" \in Kinds /\ 0 \in Nat
      /\ s \in Slots \cup {None} /\ cp \in CheckpointIds \cup {None}
  BY DEF Kinds
<1>a. Advanced(d, a, Entry("RecordCheckpointSlotSave", d.revision, d.revision + 1,
                           0, s, cp, 0))
  BY <1>0, AdvanceFields
<1>1. /\ a \in Database /\ a.revision = d.revision + 1 /\ a.core = d.core
      /\ a.cps = d.cps /\ a.last = d.last /\ a.outbox = d.outbox
      /\ a.journal = d.journal \cup
           {Entry("RecordCheckpointSlotSave", d.revision, d.revision + 1,
                  0, s, cp, 0)}
  BY <1>a DEF Advanced
<1>2. d.cps[cp] \in CheckpointRecord
  BY DEF Database
<1>3. /\ c \in CheckpointRecord
      /\ c.state = d.cps[cp].state /\ c.snap = d.cps[cp].snap
      /\ c.source = d.cps[cp].source
  BY <1>2 DEF CheckpointRecord
<1>4. RecordCheckpointSlotSave(d, cp, s, art) = [a EXCEPT !.cps[cp].saves[s] = art]
  BY DEF RecordCheckpointSlotSave
<1> HIDE DEF a
<1>5. [a EXCEPT !.cps[cp].saves[s] = art] = [a EXCEPT !.cps[cp] = c]
  BY <1>1
<1> HIDE DEF c
<1>6. [a EXCEPT !.cps[cp] = c] \in Database
  BY <1>1, <1>3 DEF Database
<1> QED BY <1>1, <1>3, <1>4, <1>5, <1>6 DEF Database

\* A commit seals its own checkpoint and makes it the rollback point.
LEMMA CommitFields ==
  ASSUME NEW d \in Database, NEW cp \in CheckpointIds
  PROVE  LET n == CommitCheckpoint(d, cp) IN
         /\ n \in Database
         /\ n.revision = d.revision + 1
         /\ n.core = d.core /\ n.last = cp /\ n.outbox = d.outbox
         /\ n.journal = d.journal \cup
              {Entry("CommitCheckpoint", d.revision, d.revision + 1,
                     0, None, cp, 0)}
         /\ n.cps[cp].state = "Committed"
         /\ n.cps[cp].snap = d.cps[cp].snap
         /\ n.cps[cp].source = d.cps[cp].source
         /\ \A x \in CheckpointIds \ {cp} : n.cps[x] = d.cps[x]
<1> DEFINE a == Advance(d, "CommitCheckpoint", 0, None, cp, 0)
           c == [d.cps[cp] EXCEPT !.state = "Committed"]
<1>0. /\ "CommitCheckpoint" \in Kinds /\ 0 \in Nat
      /\ None \in Slots \cup {None} /\ cp \in CheckpointIds \cup {None}
  BY DEF Kinds
<1>a. Advanced(d, a, Entry("CommitCheckpoint", d.revision, d.revision + 1,
                           0, None, cp, 0))
  BY <1>0, AdvanceFields
<1>1. /\ a \in Database /\ a.revision = d.revision + 1 /\ a.core = d.core
      /\ a.cps = d.cps /\ a.last = d.last /\ a.outbox = d.outbox
      /\ a.journal = d.journal \cup
           {Entry("CommitCheckpoint", d.revision, d.revision + 1,
                  0, None, cp, 0)}
  BY <1>a DEF Advanced
<1>2. d.cps[cp] \in CheckpointRecord
  BY DEF Database
<1>3. /\ c \in CheckpointRecord
      /\ c.state = "Committed" /\ c.snap = d.cps[cp].snap
      /\ c.source = d.cps[cp].source
  BY <1>2 DEF CheckpointRecord
<1>4. CommitCheckpoint(d, cp) = [a EXCEPT !.cps[cp].state = "Committed", !.last = cp]
  BY DEF CommitCheckpoint
<1> HIDE DEF a
<1>5. [a EXCEPT !.cps[cp].state = "Committed", !.last = cp] =
        [a EXCEPT !.cps[cp] = c, !.last = cp]
  BY <1>1
<1> HIDE DEF c
<1>6. [a EXCEPT !.cps[cp] = c, !.last = cp] \in Database
  BY <1>1, <1>3 DEF Database
<1> QED BY <1>1, <1>3, <1>4, <1>5, <1>6 DEF Database

\* A restore writes the saved world at the next revision.
LEMMA RestoreFields ==
  ASSUME NEW d \in Database, NEW a \in Nat, NEW cp \in CheckpointIds
  PROVE  LET n == RestoreCheckpointSnapshot(d, a, cp) IN
         /\ n \in Database
         /\ n.revision = d.revision + 1
         /\ n.core.ready = d.cps[cp].snap.ready
         /\ n.core.version = d.revision + 1
         /\ n.outbox = {r \in d.outbox : r > d.revision} \cup {d.revision + 1}
         /\ n.cps = d.cps /\ n.last = d.last
         /\ n.journal = d.journal \cup
              {Entry("RestoreCheckpoint", d.revision, d.revision + 1,
                     a, None, cp, d.cps[cp].source)}
<1> DEFINE n == Advance(d, "RestoreCheckpoint", a, None, cp, d.cps[cp].source)
           core == [ready |-> d.cps[cp].snap.ready, version |-> d.revision + 1]
           out == {r \in d.outbox : r > d.revision} \cup {d.revision + 1}
<1>1. d.cps[cp].source \in Nat /\ d.cps[cp].snap.ready \in SUBSET Slots
  BY DEF Database, CheckpointRecord, Core
<1>0. /\ "RestoreCheckpoint" \in Kinds
      /\ None \in Slots \cup {None} /\ cp \in CheckpointIds \cup {None}
  BY DEF Kinds
<1>a. Advanced(d, n, Entry("RestoreCheckpoint", d.revision, d.revision + 1,
                           a, None, cp, d.cps[cp].source))
  BY <1>0, <1>1, AdvanceFields
<1>2. /\ n \in Database /\ n.revision = d.revision + 1 /\ n.core = d.core
      /\ n.cps = d.cps /\ n.last = d.last /\ n.outbox = d.outbox
      /\ n.journal = d.journal \cup
           {Entry("RestoreCheckpoint", d.revision, d.revision + 1,
                  a, None, cp, d.cps[cp].source)}
  BY <1>a DEF Advanced
<1>3. d.revision + 1 \in Nat /\ d.outbox \in SUBSET Nat
  BY DEF Database
<1>4. /\ core \in Core /\ core.ready = d.cps[cp].snap.ready
      /\ core.version = d.revision + 1
  BY <1>1, <1>3 DEF Core
<1>5. out \in SUBSET Nat
  BY <1>3
<1>6. RestoreCheckpointSnapshot(d, a, cp) =
        [n EXCEPT !.core = core,
                  !.outbox = {r \in n.outbox : r > d.revision} \cup {d.revision + 1}]
  BY DEF RestoreCheckpointSnapshot
<1>7. {r \in n.outbox : r > d.revision} \cup {d.revision + 1} = out
  BY <1>2
<1> HIDE DEF n, core, out
<1>8. [n EXCEPT !.core = core, !.outbox = out] \in Database
  BY <1>2, <1>4, <1>5 DEF Database
<1> QED BY <1>2, <1>4, <1>6, <1>7, <1>8 DEF Database, out

-----------------------------------------------------------------------------
(***************************************************************************)
(* What one more journal row means for the open attempt.                    *)
(***************************************************************************)
\* The fields of an entry.
LEMMA EntryFields ==
  ASSUME NEW kind, NEW x, NEW r, NEW a, NEW s, NEW c, NEW f
  PROVE  LET e == Entry(kind, x, r, a, s, c, f) IN
         /\ e.kind = kind /\ e.expected = x /\ e.resulting = r
         /\ e.attempt = a /\ e.slot = s /\ e.cp = c /\ e.from = f
BY DEF Entry

\* Only three kinds of rows open, close or restore an attempt.
LEMMA BenignEntry ==
  ASSUME NEW j, NEW e,
         e.kind \notin {"BeginRecovery", "CompleteRecovery", "RestoreCheckpoint"}
  PROVE  /\ OpenAttempts(j \cup {e}) = OpenAttempts(j)
         /\ \A a : Restores(j \cup {e}, a) = Restores(j, a)
<1>1. \A k \in {"BeginRecovery", "CompleteRecovery", "RestoreCheckpoint"} :
         OfKind(j \cup {e}, k) = OfKind(j, k)
  BY DEF OfKind
<1> QED BY <1>1 DEF OpenAttempts, Attempts, Restores, Receipts

\* A BeginRecovery row opens its attempt, unless that one is already complete.
LEMMA BeginEntry ==
  ASSUME NEW j, NEW e, e.kind = "BeginRecovery",
         e.attempt \notin Attempts(j, "CompleteRecovery")
  PROVE  /\ OpenAttempts(j \cup {e}) = OpenAttempts(j) \cup {e.attempt}
         /\ \A a : Restores(j \cup {e}, a) = Restores(j, a)
<1>1. /\ OfKind(j \cup {e}, "BeginRecovery") = OfKind(j, "BeginRecovery") \cup {e}
      /\ OfKind(j \cup {e}, "CompleteRecovery") = OfKind(j, "CompleteRecovery")
      /\ OfKind(j \cup {e}, "RestoreCheckpoint") = OfKind(j, "RestoreCheckpoint")
  BY DEF OfKind
<1> QED BY <1>1 DEF OpenAttempts, Attempts, Restores, Receipts

\* A CompleteRecovery row closes its attempt.
LEMMA CompleteEntry ==
  ASSUME NEW j, NEW e, e.kind = "CompleteRecovery"
  PROVE  /\ OpenAttempts(j \cup {e}) = OpenAttempts(j) \ {e.attempt}
         /\ \A a : Restores(j \cup {e}, a) = Restores(j, a)
<1>1. /\ OfKind(j \cup {e}, "BeginRecovery") = OfKind(j, "BeginRecovery")
      /\ OfKind(j \cup {e}, "CompleteRecovery") = OfKind(j, "CompleteRecovery") \cup {e}
      /\ OfKind(j \cup {e}, "RestoreCheckpoint") = OfKind(j, "RestoreCheckpoint")
  BY DEF OfKind
<1> QED BY <1>1 DEF OpenAttempts, Attempts, Restores, Receipts

\* A RestoreCheckpoint row is the restore of its attempt.
LEMMA RestoreEntry ==
  ASSUME NEW j, NEW e, e.kind = "RestoreCheckpoint"
  PROVE  /\ OpenAttempts(j \cup {e}) = OpenAttempts(j)
         /\ Restores(j \cup {e}, e.attempt) = Restores(j, e.attempt) \cup {e}
         /\ \A a : a # e.attempt => Restores(j \cup {e}, a) = Restores(j, a)
<1>1. /\ OfKind(j \cup {e}, "BeginRecovery") = OfKind(j, "BeginRecovery")
      /\ OfKind(j \cup {e}, "CompleteRecovery") = OfKind(j, "CompleteRecovery")
      /\ OfKind(j \cup {e}, "RestoreCheckpoint") = OfKind(j, "RestoreCheckpoint") \cup {e}
  BY DEF OfKind
<1> QED BY <1>1 DEF OpenAttempts, Attempts, Restores, Receipts

-----------------------------------------------------------------------------
(***************************************************************************)
(* The inductive invariant.                                                 *)
(***************************************************************************)
\* No row, and no attempt, comes from a revision that is not written yet.
RevisionBounds ==
  \A e \in db.journal : e.attempt <= db.revision /\ e.resulting <= db.revision

\* A receipt of a barrier names the slot it stands for.
ReceiptsNameSlots ==
  \A e \in db.journal :
    e.kind \in {"RecoveryLoaded", "RecoverySnapshotApplied"} => e.slot \in Slots

\* Attempts never overlap.
OneAttempt == \A a, b \in OpenAttempts(db.journal) : a = b

\* The attempt in memory is the open one and rolls back to the last commit.
RecoveryIsOpen ==
  recovery # None =>
    /\ recovery.attempt \in OpenAttempts(db.journal)
    /\ recovery.checkpoint \in {None, db.last}
    /\ recovery.stage = "ApplyingSnapshot" =>
         Restores(db.journal, recovery.attempt) # {}

\* The checkpoint in progress still captures the world as it is.
CheckpointInProgress ==
  active # None =>
    /\ db.cps[active].state = "Candidate"
    /\ db.cps[active].snap.ready = db.core.ready
    /\ OpenAttempts(db.journal) = {}

\* The rollback point is a committed checkpoint.
LastIsCommitted == db.last # None => db.cps[db.last].state = "Committed"

IInv ==
  /\ TypeOK
  /\ RevisionBounds
  /\ ReceiptsNameSlots
  /\ OneAttempt
  /\ RecoveryIsOpen
  /\ CheckpointInProgress
  /\ LastIsCommitted
  /\ RolledBackExactly

\* What every handler may assume of the attempt it works with, whether it was
\* in memory or had to be rebuilt from the journal.
LEMMA RecFacts ==
  ASSUME IInv
  PROVE  /\ Rec = None => OpenAttempts(db.journal) = {}
         /\ Rec # None =>
              /\ Rec \in RecoveryActivity
              /\ Rec.attempt \in OpenAttempts(db.journal)
              /\ Rec.checkpoint \in {None, db.last}
              /\ Rec.stage = "ApplyingSnapshot" =>
                   Restores(db.journal, Rec.attempt) # {}
<1>1. CASE recovery # None
  BY <1>1 DEF IInv, TypeOK, RecoveryIsOpen, Rec
<1>2. CASE recovery = None /\ OpenAttempts(db.journal) = {}
  BY <1>2 DEF Rec, Rebuild
<1>3. CASE recovery = None /\ OpenAttempts(db.journal) # {}
  <2> DEFINE j == db.journal
             a == CHOOSE x \in OpenAttempts(j) : TRUE
             loaded == Receivers(j, "RecoveryLoaded", a)
             applied == Receivers(j, "RecoverySnapshotApplied", a)
  <2>1. j \subseteq JournalRecord /\ db.last \in CheckpointIds \cup {None}
    BY DEF IInv, TypeOK, Database
  <2>2. a \in OpenAttempts(j)
    BY <1>3
  <2>3. a \in Nat
    BY <2>1, <2>2 DEF OpenAttempts, Attempts, OfKind, JournalRecord
  <2>4. loaded \subseteq Slots /\ applied \subseteq Slots
    BY DEF IInv, ReceiptsNameSlots, Receivers, Receipts, OfKind
  <2>5. RebuiltCheckpoint(db, a) \in {None, db.last}
    <3>1. CASE Restores(j, a) # {}
      <4>1. (CHOOSE e \in Restores(j, a) : TRUE) \in Restores(j, a)
        BY <3>1
      <4> QED BY <2>2, <3>1, <4>1 DEF IInv, RolledBackExactly, RebuiltCheckpoint
    <3>2. CASE Restores(j, a) = {}
      BY <3>2 DEF RebuiltCheckpoint
    <3> QED BY <3>1, <3>2
  <2>6. RebuiltRestore(j, a) \in Nat
    <3>1. CASE Restores(j, a) # {}
      <4>1. (CHOOSE e \in Restores(j, a) : TRUE) \in Restores(j, a)
        BY <3>1
      <4>2. Restores(j, a) \subseteq JournalRecord
        BY <2>1 DEF Restores, Receipts, OfKind
      <4> QED BY <3>1, <4>1, <4>2 DEF RebuiltRestore, JournalRecord
    <3>2. CASE Restores(j, a) = {}
      BY <3>2 DEF RebuiltRestore
    <3> QED BY <3>1, <3>2
  <2> DEFINE r == [attempt |-> a, stage |-> "RecoveryLock",
                   checkpoint |-> RebuiltCheckpoint(db, a),
                   restore |-> RebuiltRestore(j, a),
                   durableLoaded |-> loaded, durableApplied |-> applied,
                   loaded |-> {}, applied |-> {}]
  <2>7. Rec = r
    BY <1>3 DEF Rec, Rebuild
  <2> HIDE DEF a, loaded, applied
  <2>8. r \in RecoveryActivity
    BY <2>1, <2>3, <2>4, <2>5, <2>6 DEF RecoveryActivity
  <2>9. Rec \in RecoveryActivity /\ Rec.attempt = a
        /\ Rec.checkpoint = RebuiltCheckpoint(db, a) /\ Rec.stage = "RecoveryLock"
    BY <2>7, <2>8
  <2> QED BY <2>2, <2>5, <2>9, NoRecoveryAssumption
<1> QED BY <1>1, <1>2, <1>3

\* PrepareRecovery keeps the attempt and never skips the first barrier.
LEMMA PrepareFacts ==
  ASSUME NEW rec \in RecoveryActivity, NEW d \in Database, NEW pres
  PROVE  LET p == PrepareRecovery(rec, d, pres) IN
         /\ p \in RecoveryActivity
         /\ p.attempt = rec.attempt
         /\ p.checkpoint \in {rec.checkpoint, d.last}
         /\ p.stage = "ApplyingSnapshot" => rec.stage = "ApplyingSnapshot"
<1>1. RollbackPoint(rec, d) \in CheckpointIds \cup {None}
      /\ RollbackPoint(rec, d) \in {rec.checkpoint, d.last}
  BY DEF RollbackPoint, RecoveryActivity, Database
<1> DEFINE cleared(b) == IF rec.stage = "RecoveryLock" THEN {} ELSE b
           p == [rec EXCEPT !.stage = "LoadingNativeSaves",
                            !.checkpoint = RollbackPoint(rec, d),
                            !.loaded = cleared(@), !.applied = cleared(@)]
<1>2. cleared(rec.loaded) \in SUBSET Slots /\ cleared(rec.applied) \in SUBSET Slots
  BY DEF RecoveryActivity
<1>3. /\ p \in RecoveryActivity /\ p.attempt = rec.attempt
      /\ p.checkpoint = RollbackPoint(rec, d) /\ p.stage = "LoadingNativeSaves"
  BY <1>1, <1>2 DEF RecoveryActivity
<1>4. PrepareRecovery(rec, d, pres) \in {rec, p}
  BY DEF PrepareRecovery
<1> HIDE DEF p
<1> QED BY <1>1, <1>3, <1>4

-----------------------------------------------------------------------------
(***************************************************************************)
(* The abstract step behind each step of the database.                      *)
(***************************************************************************)
\* The phase of a journal with no, or with one, open attempt.
LEMMA PhaseFacts ==
  ASSUME NEW j
  PROVE  /\ OpenAttempts(j) = {} => PhaseOf(j) = "Playing"
         /\ \A a : OpenAttempts(j) = {a} =>
              PhaseOf(j) = IF Restores(j, a) = {} THEN "Locked" ELSE "RolledBack"
BY DEF PhaseOf

\* The abstract campaign, with the three values a database maps to.
AbstractStep(d, n) ==
  LET live == d.core.ready    saved == SavedIn(d)    phase == PhaseOf(d.journal)
      live1 == n.core.ready   saved1 == SavedIn(n)   phase1 == PhaseOf(n.journal)
  IN  \/ /\ phase = "Playing" /\ live1 \in SUBSET Slots
         /\ saved1 = saved /\ phase1 = phase
      \/ /\ phase = "Playing" /\ saved1 = live
         /\ live1 = live /\ phase1 = phase
      \/ /\ phase = "Playing" /\ phase1 = "Locked"
         /\ live1 = live /\ saved1 = saved
      \/ /\ phase = "Locked" /\ saved # None /\ live1 = saved
         /\ phase1 = "RolledBack" /\ saved1 = saved
      \/ /\ phase = "RolledBack" /\ phase1 = "Playing"
         /\ live1 = live /\ saved1 = saved
      \/ live1 = live /\ saved1 = saved /\ phase1 = phase

\* It is the next-state relation of CampaignRollback under the mapping.
LEMMA AbstractStepIsNext ==
  ASSUME AbstractStep(db, db')
  PROVE  [Rollback!Next]_(Rollback!vars)
BY DEF AbstractStep, SavedWorld, RollbackPhase, Rollback!Next, Rollback!vars,
       Rollback!Play, Rollback!Save, Rollback!Lock, Rollback!RollBack, Rollback!Release

\* What is shown of every step.
StepOK == /\ AbstractStep(db, db')
          /\ FrozenStep(db, db')
          /\ HistoryStep(db, db')

\* The database moved at most by receipts: same world, same attempts.
SameWorld(d, n) ==
  /\ n \in Database
  /\ n.revision = d.revision /\ n.core = d.core
  /\ n.cps = d.cps /\ n.last = d.last
  /\ d.journal \subseteq n.journal
  /\ OpenAttempts(n.journal) = OpenAttempts(d.journal)
  /\ \A a : Restores(n.journal, a) = Restores(d.journal, a)
  /\ \A e \in n.journal : e.attempt <= n.revision /\ e.resulting <= n.revision
  /\ \A e \in n.journal :
       e.kind \in {"RecoveryLoaded", "RecoverySnapshotApplied"} => e.slot \in Slots

\* No change at all is such a step.
LEMMA UnchangedSameWorld ==
  ASSUME IInv PROVE SameWorld(db, db)
BY DEF IInv, TypeOK, SameWorld, RevisionBounds, ReceiptsNameSlots

\* An open attempt is a revision that has been written.
LEMMA OpenAttemptBound ==
  ASSUME IInv, NEW a \in OpenAttempts(db.journal)
  PROVE  a \in Nat /\ a <= db.revision
<1>1. db.journal \subseteq JournalRecord
  BY DEF IInv, TypeOK, Database
<1>2. PICK e \in db.journal : e.attempt = a
  BY DEF OpenAttempts, Attempts, OfKind
<1> QED BY <1>1, <1>2 DEF IInv, RevisionBounds, JournalRecord

\* A receipt of the open attempt is such a step.
LEMMA ReceiptSameWorld ==
  ASSUME IInv, NEW a \in OpenAttempts(db.journal), NEW s \in Slots,
         NEW kind \in {"RecoveryLoaded", "RecoverySnapshotApplied"},
         NEW c \in CheckpointIds \cup {None}
  PROVE  SameWorld(db, AcceptedNoOp(db, kind, a, s, c))
<1> DEFINE n == AcceptedNoOp(db, kind, a, s, c)
           e == Entry(kind, db.revision, db.revision, a, s, c, 0)
<1>1. db \in Database /\ db.revision \in Nat /\ a \in Nat /\ a <= db.revision
  BY OpenAttemptBound DEF IInv, TypeOK, Database
<1>2. kind \in Kinds /\ s \in Slots \cup {None}
  BY DEF Kinds
<1>3. /\ n \in Database /\ n.revision = db.revision /\ n.core = db.core
      /\ n.cps = db.cps /\ n.last = db.last /\ n.journal = db.journal \cup {e}
  BY <1>1, <1>2, NoOpFields
<1>4. e.kind = kind /\ e.resulting = db.revision /\ e.attempt = a /\ e.slot = s
  BY EntryFields
<1> HIDE DEF n, e
<1>5. /\ OpenAttempts(n.journal) = OpenAttempts(db.journal)
      /\ \A x : Restores(n.journal, x) = Restores(db.journal, x)
  <2>1. e.kind \notin {"BeginRecovery", "CompleteRecovery", "RestoreCheckpoint"}
    BY <1>4
  <2> QED BY <1>3, <2>1, BenignEntry
<1>6. \A x \in n.journal : /\ x.attempt <= n.revision /\ x.resulting <= n.revision
                           /\ x.kind \in {"RecoveryLoaded", "RecoverySnapshotApplied"}
                                => x.slot \in Slots
  BY <1>1, <1>3, <1>4 DEF IInv, RevisionBounds, ReceiptsNameSlots
<1>7. db.journal \subseteq n.journal
  BY <1>3
<1> QED BY <1>3, <1>5, <1>6, <1>7 DEF SameWorld, n

\* Such a step is correct whatever happens to the volatile state around it, as
\* long as the attempt in memory stays the open one.
LEMMA SameWorldStep ==
  ASSUME IInv, SameWorld(db, db'),
         active' \in {active, None},
         present' \subseteq Slots, pendingLoad' \in BOOLEAN,
         \/ recovery' = None
         \/ /\ recovery' \in RecoveryActivity
            /\ recovery'.attempt \in OpenAttempts(db.journal)
            /\ recovery'.checkpoint \in {None, db.last}
            /\ recovery'.stage = "ApplyingSnapshot" =>
                 Restores(db.journal, recovery'.attempt) # {}
  PROVE  IInv' /\ StepOK
<1> USE DEF SameWorld
<1>1. TypeOK'
  BY DEF IInv, TypeOK
<1>2. RevisionBounds' /\ ReceiptsNameSlots'
  BY DEF RevisionBounds, ReceiptsNameSlots
<1>3. OneAttempt'
  BY DEF IInv, OneAttempt
<1>4. RecoveryIsOpen'
  BY DEF RecoveryIsOpen
<1>5. CheckpointInProgress'
  BY DEF IInv, CheckpointInProgress
<1>6. LastIsCommitted'
  BY DEF IInv, LastIsCommitted
<1>7. RolledBackExactly'
  BY DEF IInv, RolledBackExactly
<1>8. AbstractStep(db, db')
  <2>1. PhaseOf(db'.journal) = PhaseOf(db.journal)
    BY DEF PhaseOf
  <2>2. SavedIn(db') = SavedIn(db)
    BY DEF SavedIn
  <2> QED BY <2>1, <2>2 DEF AbstractStep
<1>9. FrozenStep(db, db')
  BY DEF FrozenStep
<1>10. HistoryStep(db, db')
  BY DEF HistoryStep, IInv, TypeOK, Database
<1> QED BY <1>1, <1>2, <1>3, <1>4, <1>5, <1>6, <1>7, <1>8, <1>9, <1>10
        DEF IInv, StepOK

\* A row of ordinary play or of a checkpoint: allowed only with no attempt open,
\* it opens none.
LEMMA OrdinaryRow ==
  ASSUME IInv, OpenAttempts(db.journal) = {},
         NEW n \in Database, NEW d \in Database, NEW e,
         OpenAttempts(d.journal) = {}, db.revision <= d.revision,
         n.journal = d.journal \cup {e}, n.revision = d.revision + 1,
         \A x \in d.journal : /\ x.attempt <= d.revision /\ x.resulting <= d.revision
                              /\ x.kind \in {"RecoveryLoaded", "RecoverySnapshotApplied"}
                                   => x.slot \in Slots,
         e.kind \in {"SetReady", "CreateCheckpointCandidate",
                     "RecordCheckpointSlotSave", "CommitCheckpoint"},
         e.attempt = 0, e.resulting = n.revision
  PROVE  /\ OpenAttempts(n.journal) = {}
         /\ \A x \in n.journal : /\ x.attempt <= n.revision /\ x.resulting <= n.revision
                                 /\ x.kind \in {"RecoveryLoaded", "RecoverySnapshotApplied"}
                                      => x.slot \in Slots
         /\ PhaseOf(n.journal) = "Playing"
<1>1. OpenAttempts(n.journal) = {}
  BY BenignEntry, ZenonT(60)
<1>2. n.revision \in Nat /\ d.revision \in Nat /\ d.journal \subseteq JournalRecord
  BY DEF Database
<1>3. \A x \in d.journal : x.attempt <= n.revision /\ x.resulting <= n.revision
  BY <1>2 DEF JournalRecord
<1>4. e.attempt <= n.revision /\ e.resulting <= n.revision
  BY <1>2
<1> QED BY <1>1, <1>3, <1>4, PhaseFacts

\* Rows as IInv speaks of them.
LEMMA RowFacts ==
  ASSUME IInv
  PROVE  \A x \in db.journal :
           /\ x.attempt <= db.revision /\ x.resulting <= db.revision
           /\ x.kind \in {"RecoveryLoaded", "RecoverySnapshotApplied"} => x.slot \in Slots
BY DEF IInv, RevisionBounds, ReceiptsNameSlots

\* OnSetReady is ordinary play.
LEMMA SetReadyStep ==
  ASSUME IInv, NEW s \in Slots, NEW ready \in BOOLEAN, OnSetReady(s, ready)
  PROVE  IInv' /\ StepOK
<1> DEFINE e == Entry("SetReady", db.revision, db.revision + 1, 0, s, None, 0)
<1>1. /\ db \in Database /\ active = None /\ Rec = None
      /\ db' = ApplyReady(db, s, ready)
      /\ UNCHANGED <<active, recovery, present, pendingLoad>>
  BY DEF IInv, TypeOK, OnSetReady, MutationFence
<1>2. /\ db' \in Database /\ db'.revision = db.revision + 1
      /\ db'.cps = db.cps /\ db'.last = db.last
      /\ db'.journal = db.journal \cup {e}
  BY <1>1, ReadyFields
<1>3. e.kind = "SetReady" /\ e.attempt = 0 /\ e.resulting = db.revision + 1
  BY EntryFields
<1> HIDE DEF e
<1>4. recovery = None /\ OpenAttempts(db.journal) = {}
  BY <1>1, RecFacts DEF Rec
<1>5. db.revision \in Nat /\ db.revision <= db.revision
  BY <1>1 DEF Database
<1>6. /\ OpenAttempts(db'.journal) = {}
      /\ \A x \in db'.journal : /\ x.attempt <= db'.revision /\ x.resulting <= db'.revision
                                /\ x.kind \in {"RecoveryLoaded", "RecoverySnapshotApplied"}
                                     => x.slot \in Slots
      /\ PhaseOf(db'.journal) = "Playing"
  BY <1>1, <1>2, <1>3, <1>4, <1>5, OrdinaryRow, RowFacts
<1>7. IInv'
  <2>1. TypeOK'
    BY <1>1, <1>2 DEF IInv, TypeOK
  <2>2. RevisionBounds' /\ ReceiptsNameSlots' /\ OneAttempt' /\ RolledBackExactly'
    BY <1>6 DEF RevisionBounds, ReceiptsNameSlots, OneAttempt, RolledBackExactly
  <2>3. RecoveryIsOpen' /\ CheckpointInProgress'
    BY <1>1, <1>4 DEF RecoveryIsOpen, CheckpointInProgress
  <2>4. LastIsCommitted'
    BY <1>2 DEF IInv, LastIsCommitted
  <2> QED BY <2>1, <2>2, <2>3, <2>4 DEF IInv
<1>8. AbstractStep(db, db')
  <2>1. PhaseOf(db.journal) = "Playing"
    BY <1>4, PhaseFacts
  <2>2. db'.core.ready \in SUBSET Slots
    BY <1>2 DEF Database, Core
  <2>3. SavedIn(db') = SavedIn(db)
    BY <1>2 DEF SavedIn
  <2> QED BY <1>6, <2>1, <2>2, <2>3 DEF AbstractStep
<1>9. FrozenStep(db, db') /\ HistoryStep(db, db')
  BY <1>2, <1>4, <1>5 DEF FrozenStep, HistoryStep
<1> QED BY <1>7, <1>8, <1>9 DEF StepOK

\* OnCheckpointRequest freezes a candidate: nothing the players see.
LEMMA CheckpointRequestStep ==
  ASSUME IInv, NEW s \in Slots, NEW cp \in CheckpointIds, NEW sent \in BOOLEAN,
         OnCheckpointRequest(s, cp, sent)
  PROVE  IInv' /\ StepOK
<1> DEFINE e == Entry("CreateCheckpointCandidate", db.revision, db.revision + 1,
                      0, None, cp, 0)
<1>1. /\ db \in Database /\ active = None /\ Rec = None
      /\ db.cps[cp].state = "Absent"
      /\ db' = CreateCheckpointCandidate(db, cp)
      /\ active' = (IF sent THEN cp ELSE None)
      /\ UNCHANGED <<recovery, present, pendingLoad>>
  BY DEF IInv, TypeOK, OnCheckpointRequest, MutationFence, UnusedIdentity
<1>2. /\ db' \in Database /\ db'.revision = db.revision + 1
      /\ db'.core = db.core /\ db'.last = db.last
      /\ db'.journal = db.journal \cup {e}
      /\ db'.cps[cp].state = "Candidate"
      /\ db'.cps[cp].snap.ready = db.core.ready
      /\ \A x \in CheckpointIds \ {cp} : db'.cps[x] = db.cps[x]
  BY <1>1, CandidateFields
<1>3. e.kind = "CreateCheckpointCandidate" /\ e.attempt = 0
      /\ e.resulting = db.revision + 1
  BY EntryFields
<1> HIDE DEF e
<1>4. recovery = None /\ OpenAttempts(db.journal) = {}
  BY <1>1, RecFacts DEF Rec
<1>5. db.revision \in Nat /\ db.revision <= db.revision
  BY <1>1 DEF Database
<1>6. /\ OpenAttempts(db'.journal) = {}
      /\ \A x \in db'.journal : /\ x.attempt <= db'.revision /\ x.resulting <= db'.revision
                                /\ x.kind \in {"RecoveryLoaded", "RecoverySnapshotApplied"}
                                     => x.slot \in Slots
      /\ PhaseOf(db'.journal) = "Playing"
  BY <1>1, <1>2, <1>3, <1>4, <1>5, OrdinaryRow, RowFacts
<1>7. db.last # None => db.last \in CheckpointIds \ {cp}
  BY <1>1 DEF IInv, LastIsCommitted, Database
<1>8. IInv'
  <2>1. TypeOK'
    BY <1>1, <1>2 DEF IInv, TypeOK
  <2>2. RevisionBounds' /\ ReceiptsNameSlots' /\ OneAttempt' /\ RolledBackExactly'
    BY <1>6 DEF RevisionBounds, ReceiptsNameSlots, OneAttempt, RolledBackExactly
  <2>3. RecoveryIsOpen' /\ CheckpointInProgress'
    BY <1>1, <1>2, <1>4, <1>6 DEF RecoveryIsOpen, CheckpointInProgress
  <2>4. LastIsCommitted'
    BY <1>2, <1>7 DEF IInv, LastIsCommitted
  <2> QED BY <2>1, <2>2, <2>3, <2>4 DEF IInv
<1>9. AbstractStep(db, db')
  <2>1. PhaseOf(db.journal) = "Playing"
    BY <1>4, PhaseFacts
  <2>2. SavedIn(db') = SavedIn(db)
    BY <1>2, <1>7 DEF SavedIn
  <2> QED BY <1>2, <1>6, <2>1, <2>2 DEF AbstractStep
<1>10. FrozenStep(db, db') /\ HistoryStep(db, db')
  BY <1>1, <1>2, <1>4, <1>5 DEF FrozenStep, HistoryStep
<1> QED BY <1>8, <1>9, <1>10 DEF StepOK

\* The database after a slot reported its save, first time or again.
LEMMA RecordedFacts ==
  ASSUME IInv, OpenAttempts(db.journal) = {}, NEW s \in Slots,
         NEW cp \in CheckpointIds, NEW art \in Artifacts,
         NEW d, d \in {db, RecordCheckpointSlotSave(db, cp, s, art)}
  PROVE  /\ d \in Database
         /\ db.revision <= d.revision
         /\ db.journal \subseteq d.journal
         /\ d.core = db.core /\ d.last = db.last
         /\ d.cps[cp].state = db.cps[cp].state
         /\ d.cps[cp].snap = db.cps[cp].snap
         /\ \A x \in CheckpointIds \ {cp} : d.cps[x] = db.cps[x]
         /\ OpenAttempts(d.journal) = {}
         /\ \A x \in d.journal : /\ x.attempt <= d.revision /\ x.resulting <= d.revision
                                 /\ x.kind \in {"RecoveryLoaded", "RecoverySnapshotApplied"}
                                      => x.slot \in Slots
<1>1. db \in Database /\ db.revision \in Nat /\ db.revision <= db.revision
  BY DEF IInv, TypeOK, Database
<1>2. CASE d = db
  BY <1>1, <1>2, RowFacts
<1>3. CASE d = RecordCheckpointSlotSave(db, cp, s, art)
  <2> DEFINE e == Entry("RecordCheckpointSlotSave", db.revision, db.revision + 1,
                        0, s, cp, 0)
  <2>1. /\ d \in Database /\ d.revision = db.revision + 1
        /\ d.core = db.core /\ d.last = db.last
        /\ d.journal = db.journal \cup {e}
        /\ d.cps[cp].state = db.cps[cp].state
        /\ d.cps[cp].snap = db.cps[cp].snap
        /\ \A x \in CheckpointIds \ {cp} : d.cps[x] = db.cps[x]
    BY <1>1, <1>3, SlotSaveFields
  <2>2. e.kind = "RecordCheckpointSlotSave" /\ e.attempt = 0
        /\ e.resulting = db.revision + 1
    BY EntryFields
  <2> HIDE DEF e
  <2>3. /\ OpenAttempts(d.journal) = {}
        /\ \A x \in d.journal : /\ x.attempt <= d.revision /\ x.resulting <= d.revision
                                /\ x.kind \in {"RecoveryLoaded", "RecoverySnapshotApplied"}
                                     => x.slot \in Slots
    BY <1>1, <2>1, <2>2, OrdinaryRow, RowFacts
  <2>4. db.revision <= d.revision /\ db.journal \subseteq d.journal
    BY <1>1, <2>1
  <2> QED BY <2>1, <2>3, <2>4
<1> QED BY <1>2, <1>3

\* OnCheckpointSaveResult records a save and, with the last one, is the
\* abstract Save: the committed world is the live one.
LEMMA SaveResultStep ==
  ASSUME IInv, NEW s \in Slots, NEW cp \in CheckpointIds, NEW art \in Artifacts,
         OnCheckpointSaveResult(s, cp, art)
  PROVE  IInv' /\ StepOK
<1> DEFINE d == IF db.cps[cp].saves[s] = art THEN db
                ELSE RecordCheckpointSlotSave(db, cp, s, art)
<1>1. /\ active = cp /\ Rec = None /\ db.cps[cp].state = "Candidate"
      /\ \/ db' = CommitCheckpoint(d, cp) /\ active' = None
         \/ db' = d /\ active' = active
      /\ UNCHANGED <<recovery, present, pendingLoad>>
  BY DEF OnCheckpointSaveResult
<1>2. db \in Database /\ db.revision \in Nat /\ cp # None
  BY NoneAssumption DEF IInv, TypeOK, Database
<1>3. recovery = None /\ OpenAttempts(db.journal) = {}
  BY <1>1, RecFacts DEF Rec
<1>4. d \in {db, RecordCheckpointSlotSave(db, cp, s, art)}
  OBVIOUS
<1> HIDE DEF d
<1>5. /\ d \in Database
      /\ db.revision <= d.revision
      /\ db.journal \subseteq d.journal
      /\ d.core = db.core /\ d.last = db.last
      /\ d.cps[cp].state = db.cps[cp].state
      /\ d.cps[cp].snap = db.cps[cp].snap
      /\ \A x \in CheckpointIds \ {cp} : d.cps[x] = db.cps[x]
      /\ OpenAttempts(d.journal) = {}
      /\ \A x \in d.journal : /\ x.attempt <= d.revision /\ x.resulting <= d.revision
                              /\ x.kind \in {"RecoveryLoaded", "RecoverySnapshotApplied"}
                                   => x.slot \in Slots
  BY <1>3, <1>4, RecordedFacts
<1>6. PhaseOf(db.journal) = "Playing" /\ PhaseOf(d.journal) = "Playing"
  BY <1>3, <1>5, PhaseFacts
<1>7. db.cps[cp].snap.ready = db.core.ready
  BY <1>1, <1>2 DEF IInv, CheckpointInProgress
<1>8. db.last # None => db.last \in CheckpointIds \ {cp}
  BY <1>1, <1>2 DEF IInv, LastIsCommitted, Database
<1>9. CASE db' = d /\ active' = active
  <2>1. TypeOK'
    BY <1>1, <1>5, <1>9 DEF IInv, TypeOK
  <2>2. RevisionBounds' /\ ReceiptsNameSlots' /\ OneAttempt' /\ RolledBackExactly'
    BY <1>5, <1>9 DEF RevisionBounds, ReceiptsNameSlots, OneAttempt, RolledBackExactly
  <2>3. RecoveryIsOpen' /\ CheckpointInProgress'
    BY <1>1, <1>3, <1>5, <1>7, <1>9 DEF RecoveryIsOpen, CheckpointInProgress
  <2>4. LastIsCommitted'
    BY <1>5, <1>8, <1>9 DEF IInv, LastIsCommitted
  <2>5. SavedIn(d) = SavedIn(db)
    BY <1>5, <1>8 DEF SavedIn
  <2>6. AbstractStep(db, db')
    BY <1>5, <1>6, <1>9, <2>5 DEF AbstractStep
  <2>7. FrozenStep(db, db') /\ HistoryStep(db, db')
    BY <1>1, <1>2, <1>3, <1>5, <1>9 DEF FrozenStep, HistoryStep, Database
  <2> QED BY <2>1, <2>2, <2>3, <2>4, <2>6, <2>7 DEF IInv, StepOK
<1>10. CASE db' = CommitCheckpoint(d, cp) /\ active' = None
  <2> DEFINE e == Entry("CommitCheckpoint", d.revision, d.revision + 1,
                        0, None, cp, 0)
  <2>1. /\ db' \in Database /\ db'.revision = d.revision + 1
        /\ db'.core = d.core /\ db'.last = cp
        /\ db'.journal = d.journal \cup {e}
        /\ db'.cps[cp].state = "Committed"
        /\ db'.cps[cp].snap = d.cps[cp].snap
        /\ \A x \in CheckpointIds \ {cp} : db'.cps[x] = d.cps[x]
    BY <1>5, <1>10, CommitFields
  <2>2. e.kind = "CommitCheckpoint" /\ e.attempt = 0 /\ e.resulting = d.revision + 1
    BY EntryFields
  <2> HIDE DEF e
  <2>3. /\ OpenAttempts(db'.journal) = {}
        /\ \A x \in db'.journal : /\ x.attempt <= db'.revision /\ x.resulting <= db'.revision
                                  /\ x.kind \in {"RecoveryLoaded", "RecoverySnapshotApplied"}
                                       => x.slot \in Slots
        /\ PhaseOf(db'.journal) = "Playing"
    BY <1>3, <1>5, <2>1, <2>2, OrdinaryRow
  <2>4. TypeOK'
    BY <1>1, <1>10, <2>1 DEF IInv, TypeOK
  <2>5. RevisionBounds' /\ ReceiptsNameSlots' /\ OneAttempt' /\ RolledBackExactly'
    BY <2>3 DEF RevisionBounds, ReceiptsNameSlots, OneAttempt, RolledBackExactly
  <2>6. RecoveryIsOpen' /\ CheckpointInProgress' /\ LastIsCommitted'
    BY <1>1, <1>3, <1>10, <2>1 DEF RecoveryIsOpen, CheckpointInProgress, LastIsCommitted
  <2>7. SavedIn(db') = db.core.ready
    BY <1>2, <1>5, <1>7, <2>1 DEF SavedIn
  <2>8. AbstractStep(db, db')
    BY <1>5, <1>6, <2>1, <2>3, <2>7 DEF AbstractStep
  <2>9. FrozenStep(db, db') /\ HistoryStep(db, db')
    <3>1. d.revision \in Nat /\ db'.revision >= db.revision
      BY <1>2, <1>5, <2>1 DEF Database
    <3> QED BY <1>1, <1>3, <1>5, <2>1, <3>1 DEF FrozenStep, HistoryStep
  <2> QED BY <2>4, <2>5, <2>6, <2>8, <2>9 DEF IInv, StepOK
<1> QED BY <1>1, <1>9, <1>10

\* OnCheckpointSaveFailed gives the candidate up.
LEMMA SaveFailedStep ==
  ASSUME IInv, NEW s \in Slots, OnCheckpointSaveFailed(s)
  PROVE  IInv' /\ StepOK
<1>1. /\ SameWorld(db, db') /\ active' = None
      /\ UNCHANGED <<recovery, present, pendingLoad>>
  BY UnchangedSameWorld DEF OnCheckpointSaveFailed
<1>2. recovery = None
  BY RecFacts DEF OnCheckpointSaveFailed, Rec
<1> QED BY <1>1, <1>2, SameWorldStep DEF IInv, TypeOK

\* A restart loses only what the journal does not need.
LEMMA RestartStep ==
  ASSUME IInv, ServerRestart
  PROVE  IInv' /\ StepOK
<1>1. SameWorld(db, db')
  BY UnchangedSameWorld DEF ServerRestart
<1> QED BY <1>1, SameWorldStep DEF ServerRestart

-----------------------------------------------------------------------------
(***************************************************************************)
(* The steps of a recovery.                                                 *)
(***************************************************************************)
\* The one open attempt is the one a handler works with.
LEMMA OpenIsRec ==
  ASSUME IInv, Rec # None
  PROVE  OpenAttempts(db.journal) = {Rec.attempt}
BY RecFacts DEF IInv, OneAttempt

\* BeginRecovery opens a fresh attempt: the abstract Lock.
LEMMA BeginStep ==
  ASSUME IInv, Rec = None, OpenRecovery,
         recovery' \in RecoveryActivity,
         recovery'.attempt = db.revision + 1,
         recovery'.checkpoint \in {None, db.last},
         recovery'.stage # "ApplyingSnapshot",
         present' \subseteq Slots, pendingLoad' \in BOOLEAN
  PROVE  IInv' /\ StepOK
<1> DEFINE r == db.revision + 1
           e == Entry("BeginRecovery", db.revision, r, r, None, None, 0)
<1>1. db \in Database /\ db.revision \in Nat /\ r \in Nat
      /\ db.journal \subseteq JournalRecord
  BY DEF IInv, TypeOK, Database
<1>2. db' = ApplyBeginRecovery(db) /\ active' = None
  BY DEF OpenRecovery
<1>3. /\ db' \in Database /\ db'.revision = r
      /\ db'.core = db.core /\ db'.cps = db.cps /\ db'.last = db.last
      /\ db'.journal = db.journal \cup {e}
  BY <1>1, <1>2, BeginFields
<1>4. e.kind = "BeginRecovery" /\ e.attempt = r /\ e.resulting = r
  BY EntryFields
<1> HIDE DEF e
<1>5. OpenAttempts(db.journal) = {}
  BY RecFacts
<1>6. \A x \in db.journal : x.attempt < r /\ x.attempt # r
  BY <1>1 DEF IInv, RevisionBounds, JournalRecord
<1>7. r \notin Attempts(db.journal, "CompleteRecovery") /\ Restores(db.journal, r) = {}
  BY <1>6 DEF Attempts, Restores, Receipts, OfKind
<1>8. /\ OpenAttempts(db'.journal) = {r}
      /\ Restores(db'.journal, r) = {}
  <2>1. /\ OpenAttempts(db'.journal) = OpenAttempts(db.journal) \cup {r}
        /\ \A a : Restores(db'.journal, a) = Restores(db.journal, a)
    <3>1. e.attempt \notin Attempts(db.journal, "CompleteRecovery")
      BY <1>4, <1>7
    <3>2. /\ OpenAttempts(db.journal \cup {e}) = OpenAttempts(db.journal) \cup {e.attempt}
          /\ \A a : Restores(db.journal \cup {e}, a) = Restores(db.journal, a)
      BY <1>4, <3>1, BeginEntry
    <3> QED BY <1>3, <1>4, <3>2
  <2> QED BY <1>5, <1>7, <2>1
<1>9. IInv'
  <2>1. TypeOK'
    BY <1>2, <1>3 DEF TypeOK
  <2>2. RevisionBounds'
    <3>1. \A x \in db.journal : x.attempt <= r /\ x.resulting <= r
      BY <1>1 DEF IInv, RevisionBounds, JournalRecord
    <3>2. e.attempt <= r /\ e.resulting <= r
      BY <1>1, <1>4
    <3> QED BY <1>3, <3>1, <3>2 DEF RevisionBounds
  <2>3. ReceiptsNameSlots'
    BY <1>3, <1>4 DEF IInv, ReceiptsNameSlots
  <2>4. OneAttempt' /\ RolledBackExactly'
    BY <1>8 DEF OneAttempt, RolledBackExactly
  <2>5. RecoveryIsOpen' /\ CheckpointInProgress'
    BY <1>2, <1>3, <1>8 DEF RecoveryIsOpen, CheckpointInProgress
  <2>6. LastIsCommitted'
    BY <1>3 DEF IInv, LastIsCommitted
  <2> QED BY <2>1, <2>2, <2>3, <2>4, <2>5, <2>6 DEF IInv
<1>10. AbstractStep(db, db')
  <2>1. PhaseOf(db.journal) = "Playing" /\ PhaseOf(db'.journal) = "Locked"
    BY <1>5, <1>8, PhaseFacts
  <2>2. SavedIn(db') = SavedIn(db)
    BY <1>3 DEF SavedIn
  <2> QED BY <1>3, <2>1, <2>2 DEF AbstractStep
<1>11. FrozenStep(db, db') /\ HistoryStep(db, db')
  BY <1>1, <1>3, <1>5 DEF FrozenStep, HistoryStep
<1> QED BY <1>9, <1>10, <1>11 DEF StepOK

\* The attempt BeginRecovery builds has the shape of its class.
LEMMA OpenedFacts ==
  ASSUME NEW d \in Database
  PROVE  /\ OpenedAttempt(d) \in RecoveryActivity
         /\ OpenedAttempt(d).attempt = d.revision + 1
         /\ OpenedAttempt(d).checkpoint = None
         /\ OpenedAttempt(d).stage = "RecoveryLock"
<1>1. d.revision + 1 \in Nat
  BY DEF Database
<1> QED BY <1>1 DEF OpenedAttempt, RecoveryActivity

\* OnResume admits, and either opens an attempt or advances the open one.
LEMMA ResumeStep ==
  ASSUME IInv, NEW s \in Slots, NEW restore \in BOOLEAN, OnResume(s, restore)
  PROVE  IInv' /\ StepOK
<1> DEFINE pres == present \cup {s}
           state == RuntimeState(Rec, active, pres)
           wanted == LoadWanted(s, restore, state)
<1>1. db \in Database /\ pres \subseteq Slots /\ wanted \in BOOLEAN
  BY DEF IInv, TypeOK, LoadWanted
<1>2. present' = pres
  BY DEF OnResume
<1>3. CASE /\ state = "ACTIVE" /\ OpenRecovery
           /\ recovery' = PrepareRecovery(OpenedAttempt(db), db', pres)
           /\ pendingLoad' = FALSE
  <2>1. Rec = None
    BY <1>3, RecFacts DEF RuntimeState, RecoveryActivity
  <2>2. db' \in Database /\ db'.last = db.last
    BY <1>1, <1>3, BeginFields DEF OpenRecovery
  <2>3. /\ OpenedAttempt(db) \in RecoveryActivity
        /\ OpenedAttempt(db).attempt = db.revision + 1
        /\ OpenedAttempt(db).checkpoint = None
        /\ OpenedAttempt(db).stage = "RecoveryLock"
    BY <1>1, OpenedFacts
  <2>4. /\ recovery' \in RecoveryActivity
        /\ recovery'.attempt = db.revision + 1
        /\ recovery'.checkpoint \in {None, db.last}
        /\ recovery'.stage # "ApplyingSnapshot"
    BY <1>3, <2>2, <2>3, PrepareFacts
  <2> QED BY <1>1, <1>2, <1>3, <2>1, <2>4, BeginStep
<1>4. CASE /\ recovery' = PrepareRecovery(Rec, db, pres)
           /\ pendingLoad' = wanted
           /\ UNCHANGED <<db, active>>
  <2>1. SameWorld(db, db') /\ active' \in {active, None} /\ pendingLoad' \in BOOLEAN
    BY <1>1, <1>4, UnchangedSameWorld
  <2>2. CASE Rec = None
    <3>1. recovery' = None
      BY <1>4, <2>2 DEF PrepareRecovery
    <3> QED BY <1>1, <1>2, <2>1, <3>1, SameWorldStep
  <2>3. CASE Rec # None
    <3>1. /\ recovery' \in RecoveryActivity
          /\ recovery'.attempt = Rec.attempt
          /\ recovery'.checkpoint \in {Rec.checkpoint, db.last}
          /\ recovery'.stage = "ApplyingSnapshot" => Rec.stage = "ApplyingSnapshot"
      BY <1>1, <1>4, <2>3, RecFacts, PrepareFacts
    <3>2. /\ recovery'.attempt \in OpenAttempts(db.journal)
          /\ recovery'.checkpoint \in {None, db.last}
          /\ recovery'.stage = "ApplyingSnapshot" =>
               Restores(db.journal, recovery'.attempt) # {}
      BY <2>3, <3>1, RecFacts
    <3> QED BY <1>1, <1>2, <2>1, <3>1, <3>2, SameWorldStep
  <2> QED BY <2>2, <2>3
<1> QED BY <1>3, <1>4 DEF OnResume

\* Losing a member again keeps the attempt and its rollback point.
LEMMA RelockedFacts ==
  ASSUME NEW rec \in RecoveryActivity
  PROVE  /\ Relocked(rec) \in RecoveryActivity
         /\ Relocked(rec).attempt = rec.attempt
         /\ Relocked(rec).checkpoint = rec.checkpoint
         /\ Relocked(rec).stage = "RecoveryLock"
<1> DEFINE kept(b) == IF rec.stage = "RecoveryLock" THEN b ELSE {}
<1>1. kept(rec.loaded) \in SUBSET Slots /\ kept(rec.applied) \in SUBSET Slots
  BY DEF RecoveryActivity
<1>2. Relocked(rec) = [rec EXCEPT !.stage = "RecoveryLock",
                                  !.loaded = kept(rec.loaded),
                                  !.applied = kept(rec.applied)]
  BY DEF Relocked
<1> HIDE DEF kept
<1> QED BY <1>1, <1>2 DEF RecoveryActivity

\* OnPlayerLeave opens an attempt, relocks the open one, or fails to.
LEMMA LeaveStep ==
  ASSUME IInv, NEW s \in Slots, OnPlayerLeave(s)
  PROVE  IInv' /\ StepOK
<1>1. /\ db \in Database /\ present' \subseteq Slots /\ pendingLoad' \in BOOLEAN
  BY DEF IInv, TypeOK, OnPlayerLeave
<1>2. CASE Rec # None /\ recovery' = Relocked(Rec) /\ UNCHANGED <<db, active>>
  <2>1. /\ Rec \in RecoveryActivity /\ recovery' \in RecoveryActivity
        /\ recovery'.attempt = Rec.attempt /\ recovery'.checkpoint = Rec.checkpoint
        /\ recovery'.stage = "RecoveryLock"
    BY <1>2, RecFacts, RelockedFacts
  <2>2. SameWorld(db, db') /\ active' \in {active, None}
    BY <1>2, UnchangedSameWorld
  <2>3. Rec.attempt \in OpenAttempts(db.journal) /\ Rec.checkpoint \in {None, db.last}
    BY <1>2, RecFacts
  <2> QED BY <1>1, <2>1, <2>2, <2>3, SameWorldStep
<1>3. CASE /\ CurrentState \in {"ACTIVE", "CHECKPOINTING"}
           /\ OpenRecovery /\ recovery' = OpenedAttempt(db)
  <2>1. Rec = None
    BY <1>3, RecFacts DEF CurrentState, RuntimeState, RecoveryActivity
  <2>2. /\ recovery' \in RecoveryActivity
        /\ recovery'.attempt = db.revision + 1
        /\ recovery'.checkpoint = None
        /\ recovery'.stage = "RecoveryLock"
    BY <1>1, <1>3, OpenedFacts
  <2> QED BY <1>1, <1>3, <2>1, <2>2, BeginStep
<1>4. CASE /\ Rec = None /\ UNCHANGED <<db, recovery>>
           /\ active' \in {active, None}
  <2>1. recovery' = None
    BY <1>4 DEF Rec
  <2>2. SameWorld(db, db')
    BY <1>4, UnchangedSameWorld
  <2> QED BY <1>1, <1>4, <2>1, <2>2, SameWorldStep
<1>5. CurrentState \in {"ACTIVE", "CHECKPOINTING"} => Rec = None
  BY RecFacts DEF CurrentState, RuntimeState, RecoveryActivity
<1> QED BY <1>2, <1>3, <1>4, <1>5 DEF OnPlayerLeave

\* Acknowledgements grow the barrier sets and nothing else.
LEMMA AckFacts ==
  ASSUME NEW rec \in RecoveryActivity, NEW s \in Slots, NEW r \in Nat
  PROVE  LET loaded == [rec EXCEPT !.durableLoaded = @ \cup {s}]
             acked == [loaded EXCEPT !.loaded = @ \cup {s}]
             applied == [rec EXCEPT !.durableApplied = @ \cup {s},
                                    !.applied = @ \cup {s}]
             restored == Restored(acked, r)
         IN  /\ \A x \in {loaded, acked, applied} :
                  /\ x \in RecoveryActivity /\ x.attempt = rec.attempt
                  /\ x.checkpoint = rec.checkpoint /\ x.stage = rec.stage
             /\ restored \in RecoveryActivity /\ restored.attempt = rec.attempt
             /\ restored.checkpoint = rec.checkpoint
<1> DEFINE loaded == [rec EXCEPT !.durableLoaded = @ \cup {s}]
           acked == [loaded EXCEPT !.loaded = @ \cup {s}]
           applied == [rec EXCEPT !.durableApplied = @ \cup {s},
                                  !.applied = @ \cup {s}]
<1>1. /\ loaded \in RecoveryActivity /\ loaded.attempt = rec.attempt
      /\ loaded.checkpoint = rec.checkpoint /\ loaded.stage = rec.stage
  BY DEF RecoveryActivity
<1>2. /\ applied \in RecoveryActivity /\ applied.attempt = rec.attempt
      /\ applied.checkpoint = rec.checkpoint /\ applied.stage = rec.stage
  BY DEF RecoveryActivity
<1> HIDE DEF loaded, applied
<1>3. /\ acked \in RecoveryActivity /\ acked.attempt = rec.attempt
      /\ acked.checkpoint = rec.checkpoint /\ acked.stage = rec.stage
  BY <1>1 DEF RecoveryActivity
<1> HIDE DEF acked
<1>4. /\ Restored(acked, r) \in RecoveryActivity
      /\ Restored(acked, r).attempt = rec.attempt
      /\ Restored(acked, r).checkpoint = rec.checkpoint
  BY <1>3 DEF RecoveryActivity, Restored
<1> QED BY <1>1, <1>2, <1>3, <1>4 DEF loaded, acked, applied

\* The restore of the open attempt, on top of the last receipt: RollBack.
LEMMA RestoreStep ==
  ASSUME IInv, Rec # None, Rec.checkpoint # None,
         NEW d, SameWorld(db, d),
         Restores(db.journal, Rec.attempt) = {},
         db' = RestoreCheckpointSnapshot(d, Rec.attempt, Rec.checkpoint),
         recovery' \in RecoveryActivity,
         recovery'.attempt = Rec.attempt, recovery'.checkpoint = Rec.checkpoint,
         UNCHANGED <<active, present, pendingLoad>>
  PROVE  IInv' /\ StepOK
<1> DEFINE a == Rec.attempt
           cp == Rec.checkpoint
           e == Entry("RestoreCheckpoint", d.revision, d.revision + 1, a, None, cp,
                      d.cps[cp].source)
<1>1. /\ db \in Database /\ d \in Database /\ a \in Nat /\ a <= d.revision
      /\ cp \in CheckpointIds /\ cp = db.last /\ a \in OpenAttempts(db.journal)
      /\ d.revision \in Nat /\ d.revision + 1 \in Nat
  <2>1. db \in Database /\ d \in Database /\ d.revision \in Nat /\ d.revision + 1 \in Nat
    BY DEF IInv, TypeOK, SameWorld, Database
  <2>2. a \in OpenAttempts(db.journal) /\ cp = db.last /\ cp # None
    BY RecFacts
  <2>3. a \in Nat /\ a <= d.revision
    BY <2>2, OpenAttemptBound DEF SameWorld
  <2>4. cp \in CheckpointIds
    BY <2>1, <2>2 DEF Database
  <2> QED BY <2>1, <2>2, <2>3, <2>4
<1>2. OpenAttempts(db.journal) = {a}
  BY OpenIsRec
<1>3. active = None
  BY <1>1 DEF IInv, CheckpointInProgress
<1> HIDE DEF a, cp
<1>4. /\ db' \in Database /\ db'.revision = d.revision + 1
      /\ db'.core.ready = d.cps[cp].snap.ready
      /\ db'.cps = d.cps /\ db'.last = d.last
      /\ db'.journal = d.journal \cup {e}
  BY <1>1, RestoreFields, ZenonT(60) DEF a, cp
<1>5. e.kind = "RestoreCheckpoint" /\ e.attempt = a /\ e.cp = cp
      /\ e.resulting = d.revision + 1
  BY EntryFields
<1> HIDE DEF e
<1>6. /\ OpenAttempts(d.journal) = {a} /\ Restores(d.journal, a) = {}
      /\ d.core = db.core /\ d.cps = db.cps /\ d.last = db.last
      /\ d.revision = db.revision /\ db.journal \subseteq d.journal
  BY <1>2 DEF SameWorld, a
<1>7. OpenAttempts(db'.journal) = {a} /\ Restores(db'.journal, a) = {e}
  <2>1. /\ OpenAttempts(d.journal \cup {e}) = OpenAttempts(d.journal)
        /\ Restores(d.journal \cup {e}, e.attempt) = Restores(d.journal, e.attempt) \cup {e}
    BY <1>5, RestoreEntry
  <2> QED BY <1>4, <1>5, <1>6, <2>1
<1>8. IInv'
  <2>1. TypeOK'
    BY <1>4 DEF IInv, TypeOK
  <2>2. RevisionBounds'
    <3>1. \A x \in d.journal : x.attempt <= d.revision + 1 /\ x.resulting <= d.revision + 1
      BY <1>1 DEF SameWorld, Database, JournalRecord
    <3>2. e.attempt <= d.revision + 1 /\ e.resulting <= d.revision + 1
      BY <1>1, <1>5
    <3> QED BY <1>4, <3>1, <3>2 DEF RevisionBounds
  <2>3. ReceiptsNameSlots'
    BY <1>4, <1>5 DEF SameWorld, ReceiptsNameSlots
  <2>4. OneAttempt'
    BY <1>7 DEF OneAttempt
  <2>5. RecoveryIsOpen'
    BY <1>1, <1>4, <1>6, <1>7 DEF RecoveryIsOpen, a, cp
  <2>6. CheckpointInProgress'
    BY <1>3 DEF CheckpointInProgress
  <2>7. LastIsCommitted'
    BY <1>4, <1>6 DEF IInv, LastIsCommitted
  <2>8. RolledBackExactly'
    BY <1>1, <1>4, <1>5, <1>6, <1>7 DEF RolledBackExactly
  <2> QED BY <2>1, <2>2, <2>3, <2>4, <2>5, <2>6, <2>7, <2>8 DEF IInv
<1>9. AbstractStep(db, db')
  <2>1. PhaseOf(db.journal) = "Locked" /\ PhaseOf(db'.journal) = "RolledBack"
    BY <1>2, <1>7, PhaseFacts DEF a
  <2>2. /\ SavedIn(db) = db.cps[cp].snap.ready /\ SavedIn(db') = SavedIn(db)
        /\ db'.core.ready = SavedIn(db)
    BY <1>1, <1>4, <1>6, NoneAssumption DEF SavedIn
  <2>3. SavedIn(db) # None
    BY <1>1, <2>2, UnsavedWorldAssumption DEF Database, CheckpointRecord, Core
  <2> QED BY <2>1, <2>2, <2>3 DEF AbstractStep
<1>10. FrozenStep(db, db')
  BY <1>2, <1>4, <1>6, <1>7 DEF FrozenStep, a
<1>11. HistoryStep(db, db')
  BY <1>1, <1>4, <1>6 DEF HistoryStep
<1> QED BY <1>8, <1>9, <1>10, <1>11 DEF StepOK

\* OnRecoveryLoadedResult: a receipt and, with the last one, the restore.
LEMMA LoadedStep ==
  ASSUME IInv, NEW s \in Slots, OnRecoveryLoadedResult(s)
  PROVE  IInv' /\ StepOK
<1> DEFINE rec == [Rec EXCEPT !.durableLoaded = @ \cup {s}]
           acked == [rec EXCEPT !.loaded = @ \cup {s}]
           d == LoadedReceipt(Rec, s)
<1>1. /\ Rec # None /\ Rec.checkpoint # None
      /\ UNCHANGED <<active, present, pendingLoad>>
  BY DEF OnRecoveryLoadedResult
<1>2. /\ Rec \in RecoveryActivity /\ Rec.attempt \in OpenAttempts(db.journal)
      /\ Rec.checkpoint \in {None, db.last}
      /\ Rec.stage = "ApplyingSnapshot" => Restores(db.journal, Rec.attempt) # {}
  BY <1>1, RecFacts
<1>3. Rec.checkpoint \in CheckpointIds \cup {None}
  BY <1>2 DEF RecoveryActivity
<1>4. SameWorld(db, d)
  BY <1>2, <1>3, UnchangedSameWorld, ReceiptSameWorld DEF LoadedReceipt
<1>5. /\ present' \subseteq Slots /\ pendingLoad' \in BOOLEAN
      /\ active' \in {active, None}
  BY <1>1 DEF IInv, TypeOK
<1>6. /\ rec.attempt = Rec.attempt /\ rec.checkpoint = Rec.checkpoint
      /\ rec \in RecoveryActivity /\ rec.stage = Rec.stage
      /\ acked \in RecoveryActivity /\ acked.attempt = Rec.attempt
      /\ acked.checkpoint = Rec.checkpoint /\ acked.stage = Rec.stage
  <2>1. 0 \in Nat
    OBVIOUS
  <2> QED BY <1>2, <2>1, AckFacts
<1>7. \A r \in Nat : /\ Restored(acked, r) \in RecoveryActivity
                     /\ Restored(acked, r).attempt = Rec.attempt
                     /\ Restored(acked, r).checkpoint = Rec.checkpoint
  BY <1>2, AckFacts, ZenonT(60)
<1>8. \/ db' = d /\ recovery' = rec
      \/ db' = d /\ recovery' = acked
      \/ \E e \in Restores(d.journal, rec.attempt) :
            db' = d /\ recovery' = Restored(acked, e.resulting)
      \/ /\ Restores(d.journal, rec.attempt) = {}
         /\ db' = RestoreCheckpointSnapshot(d, rec.attempt, rec.checkpoint)
         /\ recovery' = Restored(acked, d.revision + 1)
  BY DEF OnRecoveryLoadedResult
<1> HIDE DEF rec, acked, d
<1>9. CASE db' = d /\ recovery' \in {rec, acked}
  BY <1>2, <1>4, <1>5, <1>6, <1>9, SameWorldStep
<1>10. CASE \E e \in Restores(d.journal, rec.attempt) :
               db' = d /\ recovery' = Restored(acked, e.resulting)
  <2>1. PICK e \in Restores(d.journal, rec.attempt) :
               db' = d /\ recovery' = Restored(acked, e.resulting)
    BY <1>10
  <2>2. e.resulting \in Nat
    BY <1>4 DEF SameWorld, Database, Restores, Receipts, OfKind, JournalRecord
  <2>3. Restores(db.journal, Rec.attempt) # {}
    BY <1>4, <1>6, <2>1 DEF SameWorld
  <2>4. /\ recovery' \in RecoveryActivity /\ recovery'.attempt = Rec.attempt
        /\ recovery'.checkpoint = Rec.checkpoint
    BY <1>7, <2>1, <2>2
  <2> QED BY <1>2, <1>4, <1>5, <2>1, <2>3, <2>4, SameWorldStep
<1>11. CASE /\ Restores(d.journal, rec.attempt) = {}
            /\ db' = RestoreCheckpointSnapshot(d, rec.attempt, rec.checkpoint)
            /\ recovery' = Restored(acked, d.revision + 1)
  <2>1. d.revision + 1 \in Nat
    BY <1>4 DEF SameWorld, Database
  <2>2. /\ recovery' \in RecoveryActivity /\ recovery'.attempt = Rec.attempt
        /\ recovery'.checkpoint = Rec.checkpoint
    BY <1>7, <1>11, <2>1
  <2>3. Restores(db.journal, Rec.attempt) = {}
    BY <1>4, <1>6, <1>11 DEF SameWorld
  <2> QED BY <1>1, <1>4, <1>6, <1>11, <2>2, <2>3, RestoreStep
<1> QED BY <1>8, <1>9, <1>10, <1>11

\* OnRecoverySnapshotApplied: a receipt and, with the last one, Release.
LEMMA AppliedStep ==
  ASSUME IInv, NEW s \in Slots, OnRecoverySnapshotApplied(s)
  PROVE  IInv' /\ StepOK
<1> DEFINE acked == [Rec EXCEPT !.durableApplied = @ \cup {s}, !.applied = @ \cup {s}]
           d == AppliedReceipt(Rec, s)
           a == Rec.attempt
           cp == Rec.checkpoint
<1>1. /\ Rec # None /\ Rec.stage = "ApplyingSnapshot"
      /\ UNCHANGED <<active, present, pendingLoad>>
      /\ \/ db' = d /\ recovery' = acked
         \/ /\ db' = AcceptedNoOp(d, "CompleteRecovery", a, None, cp)
            /\ recovery' = None
  BY DEF OnRecoverySnapshotApplied
<1>2. /\ Rec \in RecoveryActivity /\ a \in OpenAttempts(db.journal)
      /\ cp \in {None, db.last} /\ Restores(db.journal, a) # {}
  BY <1>1, RecFacts
<1>3. cp \in CheckpointIds \cup {None}
  BY <1>2 DEF RecoveryActivity
<1>4. SameWorld(db, d)
  BY <1>2, <1>3, UnchangedSameWorld, ReceiptSameWorld DEF AppliedReceipt
<1>5. /\ present' \subseteq Slots /\ pendingLoad' \in BOOLEAN
      /\ active' \in {active, None}
  BY <1>1 DEF IInv, TypeOK
<1>6. /\ acked \in RecoveryActivity /\ acked.attempt = a /\ acked.checkpoint = cp
  <2>1. 0 \in Nat
    OBVIOUS
  <2> QED BY <1>2, <2>1, AckFacts
<1>7. OpenAttempts(db.journal) = {a} /\ a \in Nat /\ a <= db.revision
  BY <1>1, <1>2, OpenIsRec, OpenAttemptBound
<1> HIDE DEF acked, d, a, cp
<1>8. CASE db' = d /\ recovery' = acked
  BY <1>2, <1>4, <1>5, <1>6, <1>8, SameWorldStep
<1>9. CASE /\ db' = AcceptedNoOp(d, "CompleteRecovery", a, None, cp)
           /\ recovery' = None
  <2> DEFINE e == Entry("CompleteRecovery", d.revision, d.revision, a, None, cp, 0)
  <2>1. /\ d \in Database /\ "CompleteRecovery" \in Kinds /\ None \in Slots \cup {None}
    BY <1>4 DEF SameWorld, Kinds
  <2>2. /\ db' \in Database /\ db'.revision = d.revision /\ db'.core = d.core
        /\ db'.cps = d.cps /\ db'.last = d.last /\ db'.journal = d.journal \cup {e}
    BY <1>3, <1>7, <1>9, <2>1, NoOpFields, SMTT(60)
  <2>3. e.kind = "CompleteRecovery" /\ e.attempt = a /\ e.resulting = d.revision
    BY EntryFields
  <2> HIDE DEF e
  <2>4. /\ d.revision = db.revision /\ d.core = db.core /\ d.cps = db.cps
        /\ d.last = db.last /\ db.journal \subseteq d.journal
        /\ OpenAttempts(d.journal) = {a} /\ d.revision \in Nat
    BY <1>4, <1>7 DEF SameWorld, Database
  <2>5. OpenAttempts(db'.journal) = {}
    <3>1. OpenAttempts(d.journal \cup {e}) = OpenAttempts(d.journal) \ {e.attempt}
      BY <2>3, CompleteEntry
    <3> QED BY <2>2, <2>3, <2>4, <3>1
  <2>6. IInv'
    <3>1. TypeOK'
      BY <1>5, <1>9, <2>2 DEF IInv, TypeOK
    <3>2. RevisionBounds'
      <4>1. \A x \in d.journal : x.attempt <= d.revision /\ x.resulting <= d.revision
        BY <1>4 DEF SameWorld
      <4>2. e.attempt <= d.revision /\ e.resulting <= d.revision
        BY <1>7, <2>3, <2>4
      <4> QED BY <2>2, <4>1, <4>2 DEF RevisionBounds
    <3>3. ReceiptsNameSlots'
      BY <1>4, <2>2, <2>3 DEF SameWorld, ReceiptsNameSlots
    <3>4. OneAttempt' /\ RolledBackExactly'
      BY <2>5 DEF OneAttempt, RolledBackExactly
    <3>5. RecoveryIsOpen' /\ CheckpointInProgress'
      BY <1>1, <1>7, <1>9 DEF IInv, RecoveryIsOpen, CheckpointInProgress
    <3>6. LastIsCommitted'
      BY <2>2, <2>4 DEF IInv, LastIsCommitted
    <3> QED BY <3>1, <3>2, <3>3, <3>4, <3>5, <3>6 DEF IInv
  <2>7. AbstractStep(db, db')
    <3>1. PhaseOf(db.journal) = "RolledBack" /\ PhaseOf(db'.journal) = "Playing"
      BY <1>2, <1>7, <2>5, PhaseFacts
    <3>2. SavedIn(db') = SavedIn(db)
      BY <2>2, <2>4 DEF SavedIn
    <3> QED BY <2>2, <2>4, <3>1, <3>2 DEF AbstractStep
  <2>8. FrozenStep(db, db') /\ HistoryStep(db, db')
    BY <2>2, <2>4 DEF FrozenStep, HistoryStep
  <2> QED BY <2>6, <2>7, <2>8 DEF StepOK
<1> QED BY <1>1, <1>8, <1>9

-----------------------------------------------------------------------------
(***************************************************************************)
(* The theorems.                                                            *)
(***************************************************************************)
\* A campaign that was just started satisfies the invariant and is an initial
\* state of the abstract campaign.
LEMMA InitOK ==
  ASSUME Init
  PROVE  IInv /\ Rollback!Init
<1> DEFINE c == Entry("CreateCampaign", 0, 1, 0, None, None, 0)
           t == Entry("CommitCampaignStart", 1, 2, 0, None, None, 0)
<1>1. /\ 0 \in Nat /\ 1 \in Nat /\ 2 \in Nat
      /\ "CreateCampaign" \in Kinds /\ "CommitCampaignStart" \in Kinds
      /\ None \in Slots \cup {None} /\ None \in CheckpointIds \cup {None}
  BY DEF Kinds
<1>2. c \in JournalRecord /\ t \in JournalRecord
  BY <1>1, EntryType
<1>3. /\ c.kind = "CreateCampaign" /\ c.attempt = 0 /\ c.resulting = 1
      /\ t.kind = "CommitCampaignStart" /\ t.attempt = 0 /\ t.resulting = 2
  BY EntryFields
<1>4. /\ db.revision = 2 /\ db.core = [ready |-> {}, version |-> 2]
      /\ db.cps = [x \in CheckpointIds |-> AbsentCheckpoint]
      /\ db.last = None /\ db.journal = {c, t} /\ db.outbox = {1, 2}
      /\ db = [revision |-> db.revision, core |-> db.core, cps |-> db.cps,
               last |-> db.last, journal |-> db.journal, outbox |-> db.outbox]
      /\ active = None /\ recovery = None /\ present = {} /\ pendingLoad = FALSE
  BY DEF Init, StartedCampaign
<1> HIDE DEF c, t
<1>5. OpenAttempts(db.journal) = {}
  BY <1>3, <1>4 DEF OpenAttempts, Attempts, OfKind
<1>6. AbsentCheckpoint \in CheckpointRecord
  BY DEF AbsentCheckpoint, CheckpointRecord, Core, NoSaves
<1>7. db \in Database
  <2>1. db.core \in Core
    BY <1>4 DEF Core
  <2>2. db.cps \in [CheckpointIds -> CheckpointRecord]
    BY <1>4, <1>6
  <2> QED BY <1>2, <1>4, <2>1, <2>2 DEF Database
<1>8. IInv
  <2>1. TypeOK
    BY <1>4, <1>7 DEF TypeOK
  <2>2. RevisionBounds /\ ReceiptsNameSlots
    BY <1>3, <1>4 DEF RevisionBounds, ReceiptsNameSlots
  <2>3. OneAttempt /\ RolledBackExactly
    BY <1>5 DEF OneAttempt, RolledBackExactly
  <2>4. RecoveryIsOpen /\ CheckpointInProgress /\ LastIsCommitted
    BY <1>4 DEF RecoveryIsOpen, CheckpointInProgress, LastIsCommitted
  <2> QED BY <2>1, <2>2, <2>3, <2>4 DEF IInv
<1>9. Rollback!Init
  <2>1. RollbackPhase = "Playing"
    BY <1>5, PhaseFacts DEF RollbackPhase
  <2>2. SavedWorld = None
    BY <1>4 DEF SavedWorld, SavedIn
  <2>3. db.core.ready \in SUBSET Slots
    BY <1>4
  <2> QED BY <2>1, <2>2, <2>3 DEF Rollback!Init
<1> QED BY <1>8, <1>9

\* Every handler keeps the invariant and does what StepOK says.
LEMMA NextOK ==
  ASSUME IInv, [Next]_vars
  PROVE  IInv' /\ StepOK
<1>1. CASE Next
  <2>1. ASSUME NEW s \in Slots, NEW ready \in BOOLEAN, OnSetReady(s, ready)
        PROVE  IInv' /\ StepOK
    BY <2>1, SetReadyStep
  <2>2. ASSUME NEW s \in Slots, NEW cp \in CheckpointIds, NEW sent \in BOOLEAN,
               OnCheckpointRequest(s, cp, sent)
        PROVE  IInv' /\ StepOK
    BY <2>2, CheckpointRequestStep
  <2>3. ASSUME NEW s \in Slots, NEW cp \in CheckpointIds, NEW art \in Artifacts,
               OnCheckpointSaveResult(s, cp, art)
        PROVE  IInv' /\ StepOK
    BY <2>3, SaveResultStep
  <2>4. ASSUME NEW s \in Slots, OnCheckpointSaveFailed(s) PROVE IInv' /\ StepOK
    BY <2>4, SaveFailedStep
  <2>5. ASSUME NEW s \in Slots, NEW restore \in BOOLEAN, OnResume(s, restore)
        PROVE  IInv' /\ StepOK
    BY <2>5, ResumeStep
  <2>6. ASSUME NEW s \in Slots, OnPlayerLeave(s) PROVE IInv' /\ StepOK
    BY <2>6, LeaveStep
  <2>7. ASSUME NEW s \in Slots, OnRecoveryLoadedResult(s) PROVE IInv' /\ StepOK
    BY <2>7, LoadedStep
  <2>8. ASSUME NEW s \in Slots, OnRecoverySnapshotApplied(s) PROVE IInv' /\ StepOK
    BY <2>8, AppliedStep
  <2>9. CASE ServerRestart
    BY <2>9, RestartStep
  <2> QED BY <1>1, <2>1, <2>2, <2>3, <2>4, <2>5, <2>6, <2>7, <2>8, <2>9 DEF Next
<1>2. CASE UNCHANGED vars
  <2>1. /\ SameWorld(db, db') /\ active' \in {active, None}
        /\ present' \subseteq Slots /\ pendingLoad' \in BOOLEAN
    BY <1>2, UnchangedSameWorld DEF vars, IInv, TypeOK
  <2>2. \/ recovery' = None
        \/ /\ recovery' \in RecoveryActivity
           /\ recovery'.attempt \in OpenAttempts(db.journal)
           /\ recovery'.checkpoint \in {None, db.last}
           /\ recovery'.stage = "ApplyingSnapshot" =>
                Restores(db.journal, recovery'.attempt) # {}
    BY <1>2 DEF vars, IInv, TypeOK, RecoveryIsOpen
  <2> QED BY <2>1, <2>2, SameWorldStep
<1> QED BY <1>1, <1>2

\* The invariant the other theorems rest on.
THEOREM Invariance == Spec => []IInv
<1>1. Init => IInv
  BY InitOK
<1>2. IInv /\ [Next]_vars => IInv'
  BY NextOK
<1> QED BY <1>1, <1>2, PTL DEF Spec

\* Every reachable state of the server is well-typed, for every roster, set of
\* checkpoint identities and artifacts, revision bound and store-fault setting.
THEOREM TypeCorrect == Spec => []TypeOK
<1>1. IInv => TypeOK
  BY DEF IInv
<1> QED BY <1>1, Invariance, PTL

\* No checkpoint is in progress while a recovery attempt is open, in memory or
\* only in the journal (BeginRecovery, CheckMutationFence).
THEOREM CheckpointExclusion == Spec => []CheckpointExcludesRecovery
<1>1. IInv => CheckpointExcludesRecovery
  BY DEF IInv, CheckpointInProgress, CheckpointExcludesRecovery
<1> QED BY <1>1, Invariance, PTL

\* From the durable restore to the completion of an attempt the shared core is
\* exactly the last committed snapshot, at exactly the restored revision.
THEOREM ExactRollback == Spec => []RolledBackExactly
<1>1. IInv => RolledBackExactly
  BY DEF IInv
<1> QED BY <1>1, Invariance, PTL

\* While an attempt is open nothing durable moves but its own restore.
THEOREM Frozen == Spec => FrozenWhileRecovering
<1>1. IInv /\ [Next]_vars => [FrozenStep(db, db')]_vars
  BY NextOK DEF StepOK
<1> QED BY <1>1, Invariance, PTL DEF Spec, FrozenWhileRecovering

\* Journal rows and committed checkpoints are never changed, and the revision
\* never goes back.
THEOREM Immutable == Spec => HistoryIsImmutable
<1>1. IInv /\ [Next]_vars => [HistoryStep(db, db')]_vars
  BY NextOK DEF StepOK
<1> QED BY <1>1, Invariance, PTL DEF Spec, HistoryIsImmutable

\* The server, with its restarts and store faults, implements the campaign its
\* players are promised.
THEOREM Refinement == Spec => ImplementsRollback
<1>1. Init => Rollback!Init
  BY InitOK
<1>2. IInv /\ [Next]_vars => [Rollback!Next]_(Rollback!vars)
  BY NextOK, AbstractStepIsNext DEF StepOK
<1> QED BY <1>1, <1>2, Invariance, PTL DEF Spec, ImplementsRollback, Rollback!Spec

=============================================================================
