------------------------ MODULE CampaignHistoryProofs ------------------------
(***************************************************************************)
(* The durable and the volatile side of the campaign server.  Durable: what *)
(* the journal, the checkpoints and the outbox say about each other.  The   *)
(* history is stated of a database and the checkpoint in progress on it, so *)
(* that a handler that runs two transactions is two uses of a lemma.        *)
(* Volatile: what a restart rebuilds of the attempt in memory, whom the     *)
(* barriers of a session count, and what becomes of a pending load and of a *)
(* lost member.                                                             *)
(***************************************************************************)
EXTENDS CampaignServerProofs

-----------------------------------------------------------------------------
(***************************************************************************)
(* The history of a campaign.                                               *)
(***************************************************************************)
\* No row comes from a revision that is not written yet.
RowsWritten(d) == \A e \in d.journal : e.resulting <= d.revision

\* A checkpoint is taken at a written revision and its payload says which.
SnapshotsLabelled(d) ==
  \A cp \in CheckpointIds :
    /\ d.cps[cp].source <= d.revision
    /\ d.cps[cp].state # "Absent" => d.cps[cp].snap.version = d.cps[cp].source

\* The campaign row names the committed checkpoint with the newest source.
CommitsSealed(d) ==
  /\ d.last # None => d.cps[d.last].state = "Committed"
  /\ \A c \in OfKind(d.journal, "CommitCheckpoint") :
       /\ c.cp \in CheckpointIds /\ d.last \in CheckpointIds
       /\ d.cps[c.cp].state = "Committed"
       /\ d.cps[c.cp].source <= d.cps[d.last].source

\* No core mutation lies between the source and the commit of a checkpoint.
CutsConsistent(d) ==
  \A c \in OfKind(d.journal, "CommitCheckpoint"), e \in d.journal :
     ProducesCoreState(e) =>
       \/ e.resulting <= d.cps[c.cp].source
       \/ e.resulting > c.resulting

\* The checkpoint in progress is newer than every core mutation and commit.
CandidateNewest(d, act) ==
  act # None =>
    /\ d.cps[act].state = "Candidate"
    /\ \A e \in d.journal : ProducesCoreState(e) => e.resulting <= d.cps[act].source
    /\ \A c \in OfKind(d.journal, "CommitCheckpoint") :
         d.cps[c.cp].source <= d.cps[act].source

\* Pending intents are no older than the newest restore, and the newest core
\* state has one.
IntentsLive(d) ==
  /\ \A r \in d.outbox, e \in OfKind(d.journal, "RestoreCheckpoint") : r >= e.resulting
  /\ d.core.version \in d.outbox

\* The payload of the campaign row is labelled with the newest core revision.
CoreLabelled(d) == IsCoreRevision(d.journal, d.core.version, d.revision)

History(d, act) ==
  /\ d \in Database
  /\ act \in CheckpointIds \cup {None}
  /\ RowsWritten(d)
  /\ SnapshotsLabelled(d)
  /\ CommitsSealed(d)
  /\ CutsConsistent(d)
  /\ CandidateNewest(d, act)
  /\ IntentsLive(d)
  /\ CoreLabelled(d)

CurrentHistory == History(db, active)

\* Giving the checkpoint in progress up is always allowed.
LEMMA GiveUp ==
  ASSUME NEW d, NEW act, History(d, act)
  PROVE  History(d, None)
BY DEF History, CandidateNewest

\* What the fields of a database are.
LEMMA DatabaseFields ==
  ASSUME NEW d \in Database
  PROVE  /\ d.revision \in Nat /\ d.core.version \in Nat /\ d.outbox \subseteq Nat
         /\ d.last \in CheckpointIds \cup {None}
         /\ \A e \in d.journal :
              e \in JournalRecord /\ e.resulting \in Nat /\ e.expected \in Nat
         /\ \A cp \in CheckpointIds :
              d.cps[cp].source \in Nat /\ d.cps[cp].snap.version \in Nat
BY DEF Database, Core, CheckpointRecord, JournalRecord

\* A row that carries no core state, commits nothing and restores nothing
\* leaves the history as it was: receipts, BeginRecovery, slot saves.
LEMMA QuietRow ==
  ASSUME NEW d, NEW act, History(d, act), NEW n \in Database, NEW e,
         n.revision \in {d.revision, d.revision + 1},
         n.journal = d.journal \cup {e}, e.resulting = n.revision,
         e.kind \notin {"CommitCheckpoint", "RestoreCheckpoint"},
         ~ProducesCoreState(e),
         n.core = d.core, n.outbox = d.outbox, n.last = d.last,
         \A x \in CheckpointIds : /\ n.cps[x].state = d.cps[x].state
                                  /\ n.cps[x].snap = d.cps[x].snap
                                  /\ n.cps[x].source = d.cps[x].source
  PROVE  History(n, act)
<1>1. /\ d \in Database /\ act \in CheckpointIds \cup {None}
      /\ RowsWritten(d) /\ SnapshotsLabelled(d) /\ CommitsSealed(d)
      /\ CutsConsistent(d) /\ CandidateNewest(d, act) /\ IntentsLive(d)
      /\ CoreLabelled(d)
  BY DEF History
<1>2. /\ d.revision \in Nat /\ n.revision \in Nat /\ d.revision <= n.revision
      /\ \A x \in d.journal : x.resulting \in Nat
      /\ \A cp \in CheckpointIds : d.cps[cp].source \in Nat
      /\ d.last \in CheckpointIds \cup {None} /\ d.core.version \in Nat
  BY <1>1, DatabaseFields
<1>3. /\ OfKind(n.journal, "CommitCheckpoint") = OfKind(d.journal, "CommitCheckpoint")
      /\ OfKind(n.journal, "RestoreCheckpoint") = OfKind(d.journal, "RestoreCheckpoint")
  BY DEF OfKind
<1>4. RowsWritten(n)
  BY <1>1, <1>2 DEF RowsWritten
<1>5. SnapshotsLabelled(n)
  BY <1>1, <1>2 DEF SnapshotsLabelled
<1>6. CommitsSealed(n)
  BY <1>1, <1>2, <1>3 DEF CommitsSealed
<1>7. CutsConsistent(n)
  BY <1>1, <1>3 DEF CutsConsistent, CommitsSealed
<1>8. CandidateNewest(n, act)
  BY <1>1, <1>3 DEF CandidateNewest, CommitsSealed
<1>9. IntentsLive(n)
  BY <1>1, <1>3 DEF IntentsLive
<1>10. CoreLabelled(n)
  <2>1. \A x \in n.journal : ProducesCoreState(x) => x \in d.journal
    OBVIOUS
  <2>2. d.core.version <= n.revision
    BY <1>1, <1>2 DEF CoreLabelled, IsCoreRevision
  <2>3. \A x \in d.journal : x.resulting <= d.revision
    BY <1>1 DEF RowsWritten
  <2> QED BY <1>1, <1>2, <2>1, <2>2, <2>3 DEF CoreLabelled, IsCoreRevision
<1> QED BY <1>1, <1>4, <1>5, <1>6, <1>7, <1>8, <1>9, <1>10 DEF History

\* A row that carries a new core state, written while no checkpoint is in
\* progress: ordinary play and restores.
LEMMA CoreRow ==
  ASSUME NEW d, History(d, None), NEW n \in Database, NEW e,
         n.revision = d.revision + 1,
         n.journal = d.journal \cup {e}, e.resulting = n.revision,
         e.kind # "CommitCheckpoint", ProducesCoreState(e),
         n.core.version = n.revision, n.cps = d.cps, n.last = d.last,
         n.revision \in n.outbox,
         \A r \in n.outbox : r \in d.outbox \cup {n.revision},
         e.kind = "RestoreCheckpoint" => \A r \in n.outbox : r >= n.revision
  PROVE  History(n, None)
<1>1. /\ d \in Database
      /\ RowsWritten(d) /\ SnapshotsLabelled(d) /\ CommitsSealed(d)
      /\ CutsConsistent(d) /\ IntentsLive(d)
  BY DEF History
<1>2. /\ d.revision \in Nat /\ n.revision \in Nat /\ d.revision <= n.revision
      /\ \A x \in d.journal : x.resulting \in Nat
      /\ \A cp \in CheckpointIds : d.cps[cp].source \in Nat
      /\ d.outbox \subseteq Nat
  BY <1>1, DatabaseFields
<1>3. OfKind(n.journal, "CommitCheckpoint") = OfKind(d.journal, "CommitCheckpoint")
  BY DEF OfKind
<1>4. \A x \in d.journal : x.resulting <= d.revision /\ x.resulting < n.revision
  BY <1>1, <1>2 DEF RowsWritten
<1>5. RowsWritten(n)
  BY <1>2, <1>4 DEF RowsWritten
<1>6. SnapshotsLabelled(n)
  BY <1>1, <1>2 DEF SnapshotsLabelled
<1>7. CommitsSealed(n)
  BY <1>1, <1>3 DEF CommitsSealed
<1>8. CutsConsistent(n)
  <2>1. \A c \in OfKind(n.journal, "CommitCheckpoint") : e.resulting > c.resulting
    BY <1>2, <1>3, <1>4 DEF OfKind
  <2> QED BY <1>1, <1>3, <2>1 DEF CutsConsistent
<1>9. IntentsLive(n)
  <2>1. CASE e.kind = "RestoreCheckpoint"
    <3>1. OfKind(n.journal, "RestoreCheckpoint") =
            OfKind(d.journal, "RestoreCheckpoint") \cup {e}
      BY <2>1 DEF OfKind
    <3>2. n.outbox \subseteq Nat
      BY DatabaseFields
    <3>3. \A r \in n.outbox, x \in OfKind(n.journal, "RestoreCheckpoint") :
             r >= x.resulting
      BY <1>2, <1>4, <2>1, <3>1, <3>2 DEF OfKind
    <3> QED BY <3>3 DEF IntentsLive
  <2>2. CASE e.kind # "RestoreCheckpoint"
    <3>1. OfKind(n.journal, "RestoreCheckpoint") = OfKind(d.journal, "RestoreCheckpoint")
      BY <2>2 DEF OfKind
    <3>2. \A x \in OfKind(n.journal, "RestoreCheckpoint") : n.revision >= x.resulting
      BY <1>2, <1>4, <3>1 DEF OfKind
    <3> QED BY <1>1, <3>1, <3>2 DEF IntentsLive
  <2> QED BY <2>1, <2>2
<1>10. CoreLabelled(n)
  BY <1>2, <1>4 DEF CoreLabelled, IsCoreRevision
<1> QED BY <1>1, <1>5, <1>6, <1>7, <1>8, <1>9, <1>10
        DEF History, CandidateNewest

\* A receipt of the open attempt.
LEMMA ReceiptHistory ==
  ASSUME NEW d, NEW act, History(d, act),
         NEW kind \in {"RecoveryLoaded", "RecoverySnapshotApplied", "CompleteRecovery"},
         NEW a \in Nat, NEW s \in Slots \cup {None}, NEW c \in CheckpointIds \cup {None}
  PROVE  History(AcceptedNoOp(d, kind, a, s, c), act)
<1> DEFINE n == AcceptedNoOp(d, kind, a, s, c)
           e == Entry(kind, d.revision, d.revision, a, s, c, 0)
<1>1. d \in Database /\ kind \in Kinds /\ d.revision \in Nat
  BY DEF History, Kinds, Database
<1>2. /\ n \in Database /\ n.revision = d.revision /\ n.core = d.core
      /\ n.cps = d.cps /\ n.last = d.last /\ n.outbox = d.outbox
      /\ n.journal = d.journal \cup {e}
  BY <1>1, NoOpFields
<1>3. e.kind = kind /\ e.resulting = d.revision /\ e.expected = d.revision
  BY EntryFields
<1> HIDE DEF n, e
<1>4. ~ProducesCoreState(e)
  BY <1>1, <1>3 DEF ProducesCoreState
<1>5. e.kind \notin {"CommitCheckpoint", "RestoreCheckpoint"}
  BY <1>3
<1> QED BY <1>2, <1>3, <1>4, <1>5, QuietRow DEF n

\* ApplyMutation of BeginRecovery.
LEMMA BeginHistory ==
  ASSUME NEW d, NEW act, History(d, act)
  PROVE  History(ApplyBeginRecovery(d), act)
<1> DEFINE n == ApplyBeginRecovery(d)
           e == Entry("BeginRecovery", d.revision, d.revision + 1,
                      d.revision + 1, None, None, 0)
<1>1. d \in Database
  BY DEF History
<1>2. /\ n \in Database /\ n.revision = d.revision + 1 /\ n.core = d.core
      /\ n.cps = d.cps /\ n.last = d.last /\ n.outbox = d.outbox
      /\ n.journal = d.journal \cup {e}
  BY <1>1, BeginFields
<1>3. e.kind = "BeginRecovery" /\ e.resulting = d.revision + 1
  BY EntryFields
<1> HIDE DEF n, e
<1>4. ~ProducesCoreState(e)
  BY <1>3 DEF ProducesCoreState
<1>5. e.kind \notin {"CommitCheckpoint", "RestoreCheckpoint"}
  BY <1>3
<1> QED BY <1>2, <1>3, <1>4, <1>5, QuietRow DEF n

\* RecordCheckpointSlotSave.
LEMMA SlotSaveHistory ==
  ASSUME NEW d, NEW act, History(d, act), NEW cp \in CheckpointIds,
         NEW s \in Slots, NEW art \in Artifacts
  PROVE  History(RecordCheckpointSlotSave(d, cp, s, art), act)
<1> DEFINE n == RecordCheckpointSlotSave(d, cp, s, art)
           e == Entry("RecordCheckpointSlotSave", d.revision, d.revision + 1,
                      0, s, cp, 0)
<1>1. d \in Database
  BY DEF History
<1>2. /\ n \in Database /\ n.revision = d.revision + 1 /\ n.core = d.core
      /\ n.last = d.last /\ n.outbox = d.outbox
      /\ n.journal = d.journal \cup {e}
      /\ n.cps[cp].state = d.cps[cp].state
      /\ n.cps[cp].snap = d.cps[cp].snap
      /\ n.cps[cp].source = d.cps[cp].source
      /\ \A x \in CheckpointIds \ {cp} : n.cps[x] = d.cps[x]
  BY <1>1, SlotSaveFields
<1>3. e.kind = "RecordCheckpointSlotSave" /\ e.resulting = d.revision + 1
  BY EntryFields
<1> HIDE DEF n, e
<1>4. ~ProducesCoreState(e)
  BY <1>3 DEF ProducesCoreState
<1>5. e.kind \notin {"CommitCheckpoint", "RestoreCheckpoint"}
  BY <1>3
<1>6. \A x \in CheckpointIds : /\ n.cps[x].state = d.cps[x].state
                               /\ n.cps[x].snap = d.cps[x].snap
                               /\ n.cps[x].source = d.cps[x].source
  BY <1>2
<1> QED BY <1>2, <1>3, <1>4, <1>5, <1>6, QuietRow DEF n

\* SetReady writes a core state.
LEMMA ReadyHistory ==
  ASSUME NEW d, History(d, None), NEW s \in Slots, NEW ready \in BOOLEAN
  PROVE  History(ApplyReady(d, s, ready), None)
<1> DEFINE n == ApplyReady(d, s, ready)
           e == Entry("SetReady", d.revision, d.revision + 1, 0, s, None, 0)
<1>1. d \in Database /\ d.revision \in Nat
  BY DEF History, Database
<1>2. /\ n \in Database /\ n.revision = d.revision + 1
      /\ n.core.version = d.revision + 1
      /\ n.cps = d.cps /\ n.last = d.last
      /\ n.outbox = d.outbox \cup {d.revision + 1}
      /\ n.journal = d.journal \cup {e}
  BY <1>1, ReadyFields
<1>3. e.kind = "SetReady" /\ e.resulting = d.revision + 1 /\ e.expected = d.revision
  BY EntryFields
<1> HIDE DEF n, e
<1>4. ProducesCoreState(e)
  BY <1>1, <1>3 DEF ProducesCoreState
<1>5. e.kind # "CommitCheckpoint" /\ e.kind # "RestoreCheckpoint"
  BY <1>3
<1> QED BY <1>2, <1>3, <1>4, <1>5, CoreRow DEF n

\* RestoreCheckpointSnapshot writes a core state and supersedes the intents.
LEMMA RestoreHistory ==
  ASSUME NEW d, History(d, None), NEW a \in Nat, NEW cp \in CheckpointIds
  PROVE  History(RestoreCheckpointSnapshot(d, a, cp), None)
<1> DEFINE n == RestoreCheckpointSnapshot(d, a, cp)
           e == Entry("RestoreCheckpoint", d.revision, d.revision + 1,
                      a, None, cp, d.cps[cp].source)
<1>1. d \in Database /\ d.revision \in Nat /\ d.outbox \subseteq Nat
  BY DEF History, Database
<1>2. /\ n \in Database /\ n.revision = d.revision + 1
      /\ n.core.version = d.revision + 1
      /\ n.cps = d.cps /\ n.last = d.last
      /\ n.outbox = {r \in d.outbox : r > d.revision} \cup {d.revision + 1}
      /\ n.journal = d.journal \cup {e}
  BY <1>1, RestoreFields
<1>3. e.kind = "RestoreCheckpoint" /\ e.resulting = d.revision + 1
      /\ e.expected = d.revision
  BY EntryFields
<1> HIDE DEF n, e
<1>4. ProducesCoreState(e)
  BY <1>1, <1>3 DEF ProducesCoreState
<1>5. e.kind # "CommitCheckpoint"
  BY <1>3
<1>6. \A r \in n.outbox : r >= n.revision /\ r \in d.outbox \cup {n.revision}
  BY <1>1, <1>2
<1> QED BY <1>2, <1>3, <1>4, <1>5, <1>6, CoreRow DEF n

\* CreateCheckpointCandidate: the newest thing there is.
LEMMA CandidateHistory ==
  ASSUME NEW d, History(d, None), NEW cp \in CheckpointIds, d.cps[cp].state = "Absent"
  PROVE  History(CreateCheckpointCandidate(d, cp), cp)
<1> DEFINE n == CreateCheckpointCandidate(d, cp)
           e == Entry("CreateCheckpointCandidate", d.revision, d.revision + 1,
                      0, None, cp, 0)
<1>1. /\ d \in Database
      /\ RowsWritten(d) /\ SnapshotsLabelled(d) /\ CommitsSealed(d)
      /\ CutsConsistent(d) /\ IntentsLive(d) /\ CoreLabelled(d)
  BY DEF History
<1>2. /\ n \in Database /\ n.revision = d.revision + 1
      /\ n.core = d.core /\ n.last = d.last /\ n.outbox = d.outbox
      /\ n.journal = d.journal \cup {e}
      /\ n.cps[cp].state = "Candidate"
      /\ n.cps[cp].source = d.revision
      /\ n.cps[cp].snap.version = d.revision
      /\ \A x \in CheckpointIds \ {cp} : n.cps[x] = d.cps[x]
  BY <1>1, CandidateFields
<1>3. e.kind = "CreateCheckpointCandidate" /\ e.resulting = d.revision + 1
  BY EntryFields
<1> HIDE DEF n, e
<1>4. /\ d.revision \in Nat /\ n.revision \in Nat /\ d.revision <= n.revision
      /\ \A x \in d.journal : x.resulting \in Nat
      /\ \A x \in CheckpointIds : d.cps[x].source \in Nat
      /\ d.last \in CheckpointIds \cup {None} /\ d.core.version \in Nat
  BY <1>1, <1>2, DatabaseFields
<1>5. ~ProducesCoreState(e)
  BY <1>3 DEF ProducesCoreState
<1>6. /\ OfKind(n.journal, "CommitCheckpoint") = OfKind(d.journal, "CommitCheckpoint")
      /\ OfKind(n.journal, "RestoreCheckpoint") = OfKind(d.journal, "RestoreCheckpoint")
  BY <1>2, <1>3 DEF OfKind
<1>7. \A c \in OfKind(d.journal, "CommitCheckpoint") :
         c.cp \in CheckpointIds /\ n.cps[c.cp] = d.cps[c.cp]
  BY <1>1, <1>2 DEF CommitsSealed
<1>8. d.last # None => d.last \in CheckpointIds /\ n.cps[d.last] = d.cps[d.last]
  BY <1>1, <1>2, <1>4 DEF CommitsSealed
<1>9. \A x \in d.journal : x.resulting <= d.revision
  BY <1>1 DEF RowsWritten
<1>10. RowsWritten(n)
  BY <1>2, <1>3, <1>4, <1>9 DEF RowsWritten
<1>11. SnapshotsLabelled(n)
  BY <1>1, <1>2, <1>4 DEF SnapshotsLabelled
<1>12. CommitsSealed(n)
  BY <1>1, <1>2, <1>6, <1>7, <1>8, NoneAssumption DEF CommitsSealed
<1>13. CutsConsistent(n)
  BY <1>1, <1>2, <1>5, <1>6, <1>7 DEF CutsConsistent
<1>14. CandidateNewest(n, cp)
  <2>1. \A x \in n.journal : ProducesCoreState(x) => x.resulting <= n.cps[cp].source
    BY <1>2, <1>5, <1>9
  <2>2. \A c \in OfKind(n.journal, "CommitCheckpoint") :
           n.cps[c.cp].source <= n.cps[cp].source
    BY <1>1, <1>2, <1>6, <1>7 DEF SnapshotsLabelled
  <2> QED BY <1>2, <2>1, <2>2 DEF CandidateNewest
<1>15. IntentsLive(n)
  BY <1>1, <1>2, <1>6 DEF IntentsLive
<1>16. CoreLabelled(n)
  <2>1. \A x \in n.journal : ProducesCoreState(x) => x \in d.journal
    BY <1>2, <1>5
  <2>2. d.core.version <= n.revision
    BY <1>1, <1>4 DEF CoreLabelled, IsCoreRevision
  <2> QED BY <1>1, <1>2, <1>4, <1>9, <2>1, <2>2 DEF CoreLabelled, IsCoreRevision
<1> QED BY <1>2, <1>10, <1>11, <1>12, <1>13, <1>14, <1>15, <1>16 DEF History, n

\* CommitCheckpoint of the checkpoint in progress: no core mutation since its
\* source, no commit newer than it.
LEMMA CommitHistory ==
  ASSUME NEW d, NEW cp \in CheckpointIds, History(d, cp)
  PROVE  History(CommitCheckpoint(d, cp), None)
<1> DEFINE n == CommitCheckpoint(d, cp)
           e == Entry("CommitCheckpoint", d.revision, d.revision + 1,
                      0, None, cp, 0)
<1>1. /\ d \in Database
      /\ RowsWritten(d) /\ SnapshotsLabelled(d) /\ CommitsSealed(d)
      /\ CutsConsistent(d) /\ CandidateNewest(d, cp) /\ IntentsLive(d)
      /\ CoreLabelled(d)
  BY DEF History
<1>2. /\ n \in Database /\ n.revision = d.revision + 1
      /\ n.core = d.core /\ n.last = cp /\ n.outbox = d.outbox
      /\ n.journal = d.journal \cup {e}
      /\ n.cps[cp].state = "Committed"
      /\ n.cps[cp].snap = d.cps[cp].snap
      /\ n.cps[cp].source = d.cps[cp].source
      /\ \A x \in CheckpointIds \ {cp} : n.cps[x] = d.cps[x]
  BY <1>1, CommitFields
<1>3. /\ e.kind = "CommitCheckpoint" /\ e.resulting = d.revision + 1
      /\ e.cp = cp
  BY EntryFields
<1> HIDE DEF n, e
<1>4. /\ d.revision \in Nat /\ n.revision \in Nat /\ d.revision <= n.revision
      /\ \A x \in d.journal : x.resulting \in Nat
      /\ \A x \in CheckpointIds : d.cps[x].source \in Nat
      /\ d.core.version \in Nat
  BY <1>1, <1>2, DatabaseFields
<1>5. ~ProducesCoreState(e)
  BY <1>3 DEF ProducesCoreState
<1>6. /\ OfKind(n.journal, "CommitCheckpoint") =
           OfKind(d.journal, "CommitCheckpoint") \cup {e}
      /\ OfKind(n.journal, "RestoreCheckpoint") = OfKind(d.journal, "RestoreCheckpoint")
  BY <1>2, <1>3 DEF OfKind
<1>7. \A x \in CheckpointIds : n.cps[x].source = d.cps[x].source
                             /\ n.cps[x].snap = d.cps[x].snap
  BY <1>2
<1>8. cp # None /\ d.cps[cp].state = "Candidate"
  BY <1>1, NoneAssumption DEF CandidateNewest
<1>9. \A c \in OfKind(d.journal, "CommitCheckpoint") :
         /\ c.cp \in CheckpointIds /\ n.cps[c.cp].state = "Committed"
         /\ n.cps[c.cp].source <= n.cps[cp].source
  BY <1>1, <1>2, <1>7, <1>8 DEF CommitsSealed, CandidateNewest
<1>10. \A x \in d.journal : x.resulting <= d.revision
  BY <1>1 DEF RowsWritten
<1>11. RowsWritten(n)
  BY <1>2, <1>3, <1>4, <1>10 DEF RowsWritten
<1>12. SnapshotsLabelled(n)
  BY <1>1, <1>2, <1>4, <1>7, <1>8 DEF SnapshotsLabelled
<1>13. CommitsSealed(n)
  <2>1. n.cps[e.cp].source <= n.cps[cp].source
    BY <1>3, <1>4, <1>7
  <2> QED BY <1>2, <1>3, <1>6, <1>9, <2>1 DEF CommitsSealed
<1>14. CutsConsistent(n)
  <2>1. \A x \in n.journal : ProducesCoreState(x) =>
           x \in d.journal /\ x.resulting <= n.cps[cp].source
    BY <1>1, <1>2, <1>5, <1>7, <1>8 DEF CandidateNewest
  <2>2. \A c \in OfKind(d.journal, "CommitCheckpoint") : n.cps[c.cp].source = d.cps[c.cp].source
    BY <1>7, <1>9
  <2>3. ASSUME NEW c \in OfKind(n.journal, "CommitCheckpoint"), NEW x \in n.journal,
               ProducesCoreState(x)
        PROVE  x.resulting <= n.cps[c.cp].source \/ x.resulting > c.resulting
    <3>1. CASE c = e
      BY <1>3, <2>1, <2>3, <3>1
    <3>2. CASE c \in OfKind(d.journal, "CommitCheckpoint")
      BY <1>1, <2>1, <2>2, <2>3, <3>2 DEF CutsConsistent
    <3> QED BY <1>6, <3>1, <3>2
  <2> QED BY <2>3 DEF CutsConsistent
<1>15. IntentsLive(n)
  BY <1>1, <1>2, <1>6 DEF IntentsLive
<1>16. CoreLabelled(n)
  <2>1. \A x \in n.journal : ProducesCoreState(x) => x \in d.journal
    BY <1>2, <1>5
  <2>2. d.core.version <= n.revision
    BY <1>1, <1>4 DEF CoreLabelled, IsCoreRevision
  <2> QED BY <1>1, <1>2, <1>4, <1>10, <2>1, <2>2 DEF CoreLabelled, IsCoreRevision
<1> QED BY <1>2, <1>11, <1>12, <1>13, <1>14, <1>15, <1>16 DEF History, CandidateNewest, n

\* A campaign that was just started has a history.
LEMMA HistoryInit ==
  ASSUME Init
  PROVE  CurrentHistory
<1> DEFINE c == Entry("CreateCampaign", 0, 1, 0, None, None, 0)
           t == Entry("CommitCampaignStart", 1, 2, 0, None, None, 0)
<1>1. db \in Database /\ active = None
  BY InitOK DEF Init, IInv, TypeOK
<1>2. /\ c.kind = "CreateCampaign" /\ c.expected = 0 /\ c.resulting = 1
      /\ t.kind = "CommitCampaignStart" /\ t.expected = 1 /\ t.resulting = 2
  BY EntryFields
<1>3. /\ db.revision = 2 /\ db.core.version = 2 /\ db.last = None
      /\ db.cps = [x \in CheckpointIds |-> AbsentCheckpoint]
      /\ db.journal = {c, t} /\ db.outbox = {1, 2}
  BY DEF Init, StartedCampaign
<1> HIDE DEF c, t
<1>4. \A x \in CheckpointIds : db.cps[x].state = "Absent" /\ db.cps[x].source = 0
  BY <1>3 DEF AbsentCheckpoint
<1>5. /\ OfKind(db.journal, "CommitCheckpoint") = {}
      /\ OfKind(db.journal, "RestoreCheckpoint") = {}
  BY <1>2, <1>3 DEF OfKind
<1>6. ProducesCoreState(c) /\ ProducesCoreState(t)
  BY <1>2 DEF ProducesCoreState
<1>7. RowsWritten(db) /\ CoreLabelled(db)
  BY <1>2, <1>3, <1>6 DEF RowsWritten, CoreLabelled, IsCoreRevision
<1>8. SnapshotsLabelled(db)
  BY <1>3, <1>4 DEF SnapshotsLabelled
<1>9. CommitsSealed(db) /\ CutsConsistent(db) /\ CandidateNewest(db, active)
  BY <1>1, <1>3, <1>5 DEF CommitsSealed, CutsConsistent, CandidateNewest
<1>10. IntentsLive(db)
  BY <1>3, <1>5 DEF IntentsLive
<1> QED BY <1>1, <1>7, <1>8, <1>9, <1>10 DEF CurrentHistory, History

\* No handler disturbs the history, whichever of its transactions succeed.
LEMMA HistoryNext ==
  ASSUME IInv, CurrentHistory, [Next]_vars
  PROVE  CurrentHistory'
<1> USE DEF CurrentHistory
<1>1. /\ History(db, active) /\ History(db, None)
      /\ db \in Database /\ active \in CheckpointIds \cup {None}
  BY GiveUp DEF History
<1>2. Rec # None => /\ active = None
                    /\ Rec.attempt \in Nat
                    /\ Rec.checkpoint \in CheckpointIds \cup {None}
  BY RecFacts DEF IInv, CheckpointInProgress, RecoveryActivity
<1>3. ASSUME db' = db, active' \in {active, None} PROVE CurrentHistory'
  BY <1>1, <1>3
<1>4. ASSUME NEW s \in Slots, NEW ready \in BOOLEAN, OnSetReady(s, ready)
      PROVE  CurrentHistory'
  BY <1>1, <1>4, ReadyHistory DEF OnSetReady, MutationFence
<1>5. ASSUME NEW s \in Slots, NEW cp \in CheckpointIds, NEW sent \in BOOLEAN,
             OnCheckpointRequest(s, cp, sent)
      PROVE  CurrentHistory'
  <2>1. History(CreateCheckpointCandidate(db, cp), cp)
    BY <1>1, <1>5, CandidateHistory DEF OnCheckpointRequest, UnusedIdentity
  <2>2. History(CreateCheckpointCandidate(db, cp), None)
    BY <2>1, GiveUp
  <2> QED BY <1>5, <2>1, <2>2 DEF OnCheckpointRequest
<1>6. ASSUME NEW s \in Slots, NEW cp \in CheckpointIds, NEW art \in Artifacts,
             OnCheckpointSaveResult(s, cp, art)
      PROVE  CurrentHistory'
  <2> DEFINE d == IF db.cps[cp].saves[s] = art THEN db
                  ELSE RecordCheckpointSlotSave(db, cp, s, art)
  <2>1. /\ active = cp
        /\ \/ db' = CommitCheckpoint(d, cp) /\ active' = None
           \/ db' = d /\ active' = active
    BY <1>6 DEF OnCheckpointSaveResult
  <2>2. History(d, cp)
    BY <1>1, <2>1, SlotSaveHistory
  <2> HIDE DEF d
  <2>3. History(CommitCheckpoint(d, cp), None)
    BY <2>2, CommitHistory
  <2> QED BY <2>1, <2>2, <2>3
<1>7. ASSUME OpenRecovery PROVE CurrentHistory'
  BY <1>1, <1>7, BeginHistory DEF OpenRecovery
<1>8. ASSUME NEW s \in Slots, OnCheckpointSaveFailed(s) PROVE CurrentHistory'
  BY <1>3, <1>8 DEF OnCheckpointSaveFailed
<1>9. ASSUME NEW s \in Slots, NEW restore \in BOOLEAN, OnResume(s, restore)
      PROVE  CurrentHistory'
  BY <1>3, <1>7, <1>9 DEF OnResume
<1>10. ASSUME NEW s \in Slots, OnPlayerLeave(s) PROVE CurrentHistory'
  BY <1>3, <1>7, <1>10 DEF OnPlayerLeave
<1>11. ASSUME NEW s \in Slots, OnRecoveryLoadedResult(s) PROVE CurrentHistory'
  <2> DEFINE d == LoadedReceipt(Rec, s)
             rec == [Rec EXCEPT !.durableLoaded = @ \cup {s}]
  <2>1. /\ Rec # None /\ Rec.checkpoint # None /\ active' = active
        /\ \/ db' = d
           \/ db' = RestoreCheckpointSnapshot(d, rec.attempt, rec.checkpoint)
    BY <1>11 DEF OnRecoveryLoadedResult
  <2>2. active = None /\ Rec.attempt \in Nat /\ Rec.checkpoint \in CheckpointIds
    BY <1>2, <2>1
  <2>3. rec.attempt = Rec.attempt /\ rec.checkpoint = Rec.checkpoint
    BY <2>1, RecFacts DEF RecoveryActivity
  <2>4. History(d, None)
    BY <1>1, <2>2, ReceiptHistory DEF LoadedReceipt
  <2> HIDE DEF d, rec
  <2>5. History(RestoreCheckpointSnapshot(d, rec.attempt, rec.checkpoint), None)
    BY <2>2, <2>3, <2>4, RestoreHistory
  <2> QED BY <2>1, <2>2, <2>4, <2>5
<1>12. ASSUME NEW s \in Slots, OnRecoverySnapshotApplied(s) PROVE CurrentHistory'
  <2> DEFINE d == AppliedReceipt(Rec, s)
  <2>1. /\ Rec # None /\ active' = active
        /\ \/ db' = d
           \/ db' = AcceptedNoOp(d, "CompleteRecovery", Rec.attempt, None, Rec.checkpoint)
    BY <1>12 DEF OnRecoverySnapshotApplied
  <2>2. /\ active = None /\ Rec.attempt \in Nat
        /\ Rec.checkpoint \in CheckpointIds \cup {None}
        /\ None \in Slots \cup {None}
    BY <1>2, <2>1
  <2>3. History(d, None)
    BY <1>1, <2>2, ReceiptHistory DEF AppliedReceipt
  <2> HIDE DEF d
  <2>4. History(AcceptedNoOp(d, "CompleteRecovery", Rec.attempt, None, Rec.checkpoint), None)
    BY <2>2, <2>3, ReceiptHistory
  <2> QED BY <2>1, <2>2, <2>3, <2>4
<1>13. CASE ServerRestart
  BY <1>3, <1>13 DEF ServerRestart
<1>14. CASE UNCHANGED vars
  BY <1>3, <1>14 DEF vars
<1> QED BY <1>4, <1>5, <1>6, <1>8, <1>9, <1>10, <1>11, <1>12, <1>13, <1>14 DEF Next

\* The history of every reachable state, together with IInv.
THEOREM HistoryInvariance == Spec => []CurrentHistory
<1>1. Init => CurrentHistory
  BY HistoryInit
<1>2. IInv /\ CurrentHistory /\ [Next]_vars => CurrentHistory'
  BY HistoryNext
<1> QED BY <1>1, <1>2, Invariance, PTL DEF Spec

\* A committed checkpoint is one moment of the campaign: whatever handlers run
\* between OnCheckpointRequest and the last OnCheckpointSaveResult, and however
\* transactions fail, no core mutation lies between its source and its commit.
THEOREM ConsistentCut == Spec => []CheckpointIsConsistentCut
<1>1. CurrentHistory => CheckpointIsConsistentCut
  BY DEF CurrentHistory, History, CutsConsistent, CheckpointIsConsistentCut
<1> QED BY <1>1, HistoryInvariance, PTL

\* Neither the campaign row nor the checkpoint an open attempt has chosen ever
\* falls behind a commit.
THEOREM LatestCommit == Spec => []RollsBackToLatestCommit
<1>1. IInv /\ CurrentHistory => RollsBackToLatestCommit
  <2> SUFFICES ASSUME IInv, CurrentHistory,
                      NEW c \in OfKind(db.journal, "CommitCheckpoint"),
                      NEW point \in {db.last} \cup
                        (IF recovery = None THEN {} ELSE {recovery.checkpoint} \ {None})
               PROVE  db.cps[c.cp].source <= db.cps[point].source
    BY DEF RollsBackToLatestCommit
  <2>1. point = db.last
    BY DEF IInv, RecoveryIsOpen
  <2> QED BY <2>1 DEF CurrentHistory, History, CommitsSealed
<1> QED BY <1>1, Invariance, HistoryInvariance, PTL

\* Pending snapshot intents never describe a timeline a restore has abandoned,
\* and the newest core state has its intent (RestoreCheckpointSnapshot).
THEOREM LiveIntents == Spec => []IntentsDescribeLiveTimeline
<1>1. CurrentHistory => IntentsDescribeLiveTimeline
  BY DEF CurrentHistory, History, IntentsLive, IntentsDescribeLiveTimeline
<1> QED BY <1>1, HistoryInvariance, PTL

\* LoadAggregate and the decoding of a checkpoint never fail: the payload of the
\* campaign row is labelled with the newest core revision, a snapshot with its
\* source.  The restore lineage of DecodesAt is not needed for that.
THEOREM Loadable == Spec => []AlwaysLoadable
<1>1. CurrentHistory => AlwaysLoadable
  <2> SUFFICES ASSUME CurrentHistory PROVE AlwaysLoadable
    OBVIOUS
  <2>1. PICK e \in db.journal : e.resulting = db.core.version
    BY DEF CurrentHistory, History, CoreLabelled, IsCoreRevision
  <2>2. AggregateLoads(db)
    BY <2>1 DEF CurrentHistory, History, CoreLabelled, AggregateLoads, DecodesAt
  <2>3. \A cp \in CheckpointIds :
          db.cps[cp].state # "Absent" => CheckpointDecodes(db, cp)
    BY DEF CurrentHistory, History, SnapshotsLabelled, CheckpointDecodes
  <2> QED BY <2>2, <2>3 DEF AlwaysLoadable
<1> QED BY <1>1, HistoryInvariance, PTL

-----------------------------------------------------------------------------
(***************************************************************************)
(* The barriers of the current session.                                     *)
(***************************************************************************)
\* A locked attempt has counted nobody; a barrier is open only while the whole
\* roster is connected.
BarriersOpen(rec) ==
  rec # None =>
    IF rec.stage = "RecoveryLock" THEN rec.loaded = {} /\ rec.applied = {}
                                  ELSE present = Slots
CurrentBarriers == BarriersOpen(recovery)

-----------------------------------------------------------------------------
(***************************************************************************)
(* What ReconstructRecovery reads.                                          *)
(***************************************************************************)
Acks(j, a) == Receipts(j, "RecoveryLoaded", a) \cup Receipts(j, "RecoverySnapshotApplied", a)

\* An attempt is named after its revision and closed before the next one.
BeginsOrdered(d) ==
  LET j == d.journal IN
  \A b \in OfKind(j, "BeginRecovery") :
    /\ b.resulting = b.expected + 1 /\ b.attempt = b.resulting
    /\ \A n \in OfKind(j, "BeginRecovery") : b.resulting < n.resulting =>
          \E c \in Receipts(j, "CompleteRecovery", b.attempt) :
             c.resulting < n.resulting

\* Restores carry a revision and a checkpoint, completions those of their restore.
RestoresMatch(d) ==
  /\ \A e \in OfKind(d.journal, "RestoreCheckpoint") :
        e.resulting = e.expected + 1 /\ e.cp # None
  /\ \A c \in OfKind(d.journal, "CompleteRecovery") :
        \E e \in Restores(d.journal, c.attempt) :
           c.resulting = e.resulting /\ c.cp = e.cp

\* The receipts of the open attempt name the rollback point, one per slot and
\* barrier, and the second barrier follows the restore.
AcksMatch(d) ==
  \A a \in OpenAttempts(d.journal) :
    /\ \A e \in Acks(d.journal, a) :
         /\ e.cp = d.last /\ d.last # None /\ e.expected = e.resulting
         /\ \A x \in Acks(d.journal, a) : x.kind = e.kind /\ x.slot = e.slot => x = e
    /\ Receipts(d.journal, "RecoverySnapshotApplied", a) # {} => Restores(d.journal, a) # {}

\* The attempt in memory has the restore and the receipts of the journal.
MemoryMatches(d, rec) ==
  rec # None =>
    /\ rec.restore = RebuiltRestore(d.journal, rec.attempt)
    /\ rec.durableLoaded = Receivers(d.journal, "RecoveryLoaded", rec.attempt)
    /\ rec.durableApplied = Receivers(d.journal, "RecoverySnapshotApplied", rec.attempt)
    /\ \/ rec.stage # "RecoveryLock"
       \/ Restores(d.journal, rec.attempt) \cup Acks(d.journal, rec.attempt) # {}
       => rec.checkpoint # None

Scannable(d) == BeginsOrdered(d) /\ RestoresMatch(d) /\ AcksMatch(d)
CurrentMemory == Scannable(db) /\ MemoryMatches(db, recovery)

-----------------------------------------------------------------------------
(***************************************************************************)
(* The attempt in memory, field by field.                                   *)
(***************************************************************************)
\* What ReconstructRecovery builds for the open attempt.
LEMMA RebuildFields ==
  ASSUME NEW d, NEW a, OpenAttempts(d.journal) = {a}
  PROVE  LET r == Rebuild(d) IN
         /\ r.attempt = a /\ r.stage = "RecoveryLock"
         /\ r.checkpoint = RebuiltCheckpoint(d, a)
         /\ r.restore = RebuiltRestore(d.journal, a)
         /\ r.durableLoaded = Receivers(d.journal, "RecoveryLoaded", a)
         /\ r.durableApplied = Receivers(d.journal, "RecoverySnapshotApplied", a)
         /\ r.loaded = {} /\ r.applied = {}
<1> DEFINE b == CHOOSE x \in OpenAttempts(d.journal) : TRUE
<1>1. b = a
  OBVIOUS
<1>2. Rebuild(d) =
        [attempt |-> b, stage |-> "RecoveryLock",
         checkpoint |-> RebuiltCheckpoint(d, b),
         restore |-> RebuiltRestore(d.journal, b),
         durableLoaded |-> Receivers(d.journal, "RecoveryLoaded", b),
         durableApplied |-> Receivers(d.journal, "RecoverySnapshotApplied", b),
         loaded |-> {}, applied |-> {}]
  BY DEF Rebuild
<1> HIDE DEF b
<1> QED BY <1>1, <1>2

\* PrepareRecovery keeps what is durable, opens empty barriers, and only in
\* front of the whole roster.
LEMMA PrepareFields ==
  ASSUME NEW rec \in RecoveryActivity, NEW d \in Database, NEW pres
  PROVE  LET p == PrepareRecovery(rec, d, pres) IN
         /\ p.attempt = rec.attempt /\ p.restore = rec.restore
         /\ p.durableLoaded = rec.durableLoaded /\ p.durableApplied = rec.durableApplied
         /\ rec.checkpoint # None => p.checkpoint = rec.checkpoint
         /\ \/ p = rec
            \/ /\ pres = Slots
               /\ p.stage = "LoadingNativeSaves" /\ p.checkpoint # None
<1>1. CASE PrepareRecovery(rec, d, pres) = rec
  BY <1>1
<1>2. CASE CanPrepare(rec, d, pres) /\ rec # None
  <2> DEFINE cp == RollbackPoint(rec, d)
             cleared(b) == IF rec.stage = "RecoveryLock" THEN {} ELSE b
             l == cleared(rec.loaded)
             m == cleared(rec.applied)
             p == [rec EXCEPT !.stage = "LoadingNativeSaves",
                              !.checkpoint = cp, !.loaded = l, !.applied = m]
  <2>1. cp # None /\ pres = Slots /\ (rec.checkpoint # None => cp = rec.checkpoint)
    BY <1>2 DEF CanPrepare, FullRoster, RollbackPoint
  <2>2. PrepareRecovery(rec, d, pres) = p
    BY <1>2 DEF PrepareRecovery
  <2> HIDE DEF cp, l, m
  <2>3. /\ p.attempt = rec.attempt /\ p.restore = rec.restore
        /\ p.durableLoaded = rec.durableLoaded /\ p.durableApplied = rec.durableApplied
        /\ p.checkpoint = cp /\ p.stage = "LoadingNativeSaves"
    BY DEF RecoveryActivity
  <2> HIDE DEF p
  <2> QED BY <2>1, <2>2, <2>3
<1> QED BY <1>1, <1>2 DEF PrepareRecovery

\* BeginRecovery on an attempt in progress keeps what is durable.
LEMMA RelockedFields ==
  ASSUME NEW rec \in RecoveryActivity
  PROVE  LET r == Relocked(rec) IN
         /\ r.attempt = rec.attempt /\ r.restore = rec.restore
         /\ r.durableLoaded = rec.durableLoaded /\ r.durableApplied = rec.durableApplied
         /\ r.checkpoint = rec.checkpoint /\ r.stage = "RecoveryLock"
         /\ rec.stage # "RecoveryLock" => r.loaded = {} /\ r.applied = {}
         /\ rec.stage = "RecoveryLock" => r.loaded = rec.loaded /\ r.applied = rec.applied
<1> DEFINE l == IF rec.stage = "RecoveryLock" THEN rec.loaded ELSE {}
           m == IF rec.stage = "RecoveryLock" THEN rec.applied ELSE {}
           r == [rec EXCEPT !.stage = "RecoveryLock", !.loaded = l, !.applied = m]
<1>1. Relocked(rec) = r
  BY DEF Relocked
<1>2. /\ rec.stage # "RecoveryLock" => l = {} /\ m = {}
      /\ rec.stage = "RecoveryLock" => l = rec.loaded /\ m = rec.applied
  OBVIOUS
<1> HIDE DEF l, m
<1>3. /\ r.attempt = rec.attempt /\ r.restore = rec.restore
      /\ r.durableLoaded = rec.durableLoaded /\ r.durableApplied = rec.durableApplied
      /\ r.checkpoint = rec.checkpoint /\ r.stage = "RecoveryLock"
      /\ r.loaded = l /\ r.applied = m
  BY DEF RecoveryActivity
<1> HIDE DEF r
<1> QED BY <1>1, <1>2, <1>3

\* What an acknowledgement of slot s writes into the attempt.
LEMMA AckFields ==
  ASSUME NEW rec \in RecoveryActivity, NEW s \in Slots, NEW r \in Nat
  PROVE  LET loaded == [rec EXCEPT !.durableLoaded = @ \cup {s}]
             acked == [loaded EXCEPT !.loaded = @ \cup {s}]
             applied == [rec EXCEPT !.durableApplied = @ \cup {s},
                                    !.applied = @ \cup {s}]
             restored == Restored(acked, r)
         IN  /\ loaded.attempt = rec.attempt /\ loaded.checkpoint = rec.checkpoint
             /\ loaded.durableLoaded = rec.durableLoaded \cup {s}
             /\ loaded.durableApplied = rec.durableApplied
             /\ loaded.restore = rec.restore /\ loaded.stage = rec.stage
             /\ acked.attempt = rec.attempt /\ acked.checkpoint = rec.checkpoint
             /\ acked.durableLoaded = rec.durableLoaded \cup {s}
             /\ acked.durableApplied = rec.durableApplied
             /\ acked.restore = rec.restore /\ acked.stage = rec.stage
             /\ applied.attempt = rec.attempt /\ applied.checkpoint = rec.checkpoint
             /\ applied.durableLoaded = rec.durableLoaded
             /\ applied.durableApplied = rec.durableApplied \cup {s}
             /\ applied.restore = rec.restore /\ applied.stage = rec.stage
             /\ restored.attempt = rec.attempt /\ restored.checkpoint = rec.checkpoint
             /\ restored.durableLoaded = rec.durableLoaded \cup {s}
             /\ restored.durableApplied = rec.durableApplied
             /\ restored.restore = r /\ restored.stage = "ApplyingSnapshot"
<1> DEFINE loaded == [rec EXCEPT !.durableLoaded = @ \cup {s}]
           acked == [loaded EXCEPT !.loaded = @ \cup {s}]
           applied == [rec EXCEPT !.durableApplied = @ \cup {s},
                                  !.applied = @ \cup {s}]
<1>1. /\ loaded \in RecoveryActivity
      /\ loaded.attempt = rec.attempt /\ loaded.checkpoint = rec.checkpoint
      /\ loaded.durableLoaded = rec.durableLoaded \cup {s}
      /\ loaded.durableApplied = rec.durableApplied
      /\ loaded.restore = rec.restore /\ loaded.stage = rec.stage
  BY DEF RecoveryActivity
<1>2. /\ applied.attempt = rec.attempt /\ applied.checkpoint = rec.checkpoint
      /\ applied.durableLoaded = rec.durableLoaded
      /\ applied.durableApplied = rec.durableApplied \cup {s}
      /\ applied.restore = rec.restore /\ applied.stage = rec.stage
  BY DEF RecoveryActivity
<1> HIDE DEF loaded, applied
<1>3. /\ acked \in RecoveryActivity
      /\ acked.attempt = rec.attempt /\ acked.checkpoint = rec.checkpoint
      /\ acked.durableLoaded = rec.durableLoaded \cup {s}
      /\ acked.durableApplied = rec.durableApplied
      /\ acked.restore = rec.restore /\ acked.stage = rec.stage
  BY <1>1 DEF RecoveryActivity
<1> HIDE DEF acked
<1>4. /\ Restored(acked, r).attempt = rec.attempt
      /\ Restored(acked, r).checkpoint = rec.checkpoint
      /\ Restored(acked, r).durableLoaded = rec.durableLoaded \cup {s}
      /\ Restored(acked, r).durableApplied = rec.durableApplied
      /\ Restored(acked, r).restore = r
      /\ Restored(acked, r).stage = "ApplyingSnapshot"
  BY <1>3 DEF RecoveryActivity, Restored
<1> QED BY <1>1, <1>2, <1>3, <1>4 DEF loaded, acked, applied

-----------------------------------------------------------------------------
(***************************************************************************)
(* The barriers count connected members only.                               *)
(***************************************************************************)
\* The attempt a handler works with, in memory or rebuilt.
LEMMA RecBarriers ==
  ASSUME IInv, CurrentBarriers
  PROVE  BarriersOpen(Rec)
<1>1. CASE recovery # None
  BY <1>1 DEF CurrentBarriers, Rec
<1>2. CASE recovery = None /\ Rec # None
  <2>1. OpenAttempts(db.journal) = {Rec.attempt}
    BY <1>2, OpenIsRec
  <2>2. Rec = Rebuild(db)
    BY <1>2 DEF Rec
  <2> QED BY <2>1, <2>2, RebuildFields DEF BarriersOpen
<1>3. CASE Rec = None
  BY <1>3 DEF BarriersOpen
<1> QED BY <1>1, <1>2, <1>3

\* Admissions, losses and acknowledgements leave the barriers in order.
LEMMA BarriersNext ==
  ASSUME IInv, CurrentBarriers, [Next]_vars
  PROVE  CurrentBarriers'
<1> USE DEF CurrentBarriers
<1>1. BarriersOpen(Rec) /\ (Rec # None => Rec \in RecoveryActivity)
      /\ present \subseteq Slots /\ db \in Database
  BY RecBarriers, RecFacts DEF IInv, TypeOK
<1>2. ASSUME recovery' = None \/ (recovery' = recovery /\ present' = present)
      PROVE  CurrentBarriers'
  BY <1>2 DEF BarriersOpen
<1>3. ASSUME NEW s \in Slots, NEW restore \in BOOLEAN, OnResume(s, restore)
      PROVE  CurrentBarriers'
  <2> DEFINE pres == present \cup {s}
  <2>1. /\ present' = pres /\ present \subseteq pres /\ pres \subseteq Slots
        /\ \/ recovery' = PrepareRecovery(Rec, db, pres)
           \/ OpenRecovery /\ recovery' = PrepareRecovery(OpenedAttempt(db), db', pres)
    BY <1>1, <1>3 DEF OnResume
  <2>2. ASSUME NEW rec \in RecoveryActivity, NEW d \in Database,
               BarriersOpen(rec), recovery' = PrepareRecovery(rec, d, pres)
        PROVE  CurrentBarriers'
    <3>1. CASE recovery' = rec
      BY <2>1, <2>2, <3>1 DEF BarriersOpen
    <3>2. CASE pres = Slots /\ recovery'.stage = "LoadingNativeSaves"
      BY <2>1, <3>2 DEF BarriersOpen
    <3> QED BY <2>2, <3>1, <3>2, PrepareFields
  <2>3. CASE recovery' = PrepareRecovery(Rec, db, pres) /\ Rec # None
    BY <1>1, <2>2, <2>3
  <2>4. CASE recovery' = PrepareRecovery(Rec, db, pres) /\ Rec = None
    BY <1>2, <2>4 DEF PrepareRecovery
  <2>5. CASE OpenRecovery /\ recovery' = PrepareRecovery(OpenedAttempt(db), db', pres)
    <3>1. OpenedAttempt(db) \in RecoveryActivity /\ db' \in Database
      BY <1>1, <2>5, OpenedFacts, BeginFields DEF OpenRecovery
    <3>2. BarriersOpen(OpenedAttempt(db))
      BY DEF BarriersOpen, OpenedAttempt
    <3> QED BY <2>2, <2>5, <3>1, <3>2
  <2> QED BY <2>1, <2>3, <2>4, <2>5
<1>4. ASSUME NEW s \in Slots, OnPlayerLeave(s) PROVE CurrentBarriers'
  <2>1. CASE Rec # None /\ recovery' = Relocked(Rec)
    BY <1>1, <2>1, RelockedFields DEF BarriersOpen
  <2>2. CASE recovery' = OpenedAttempt(db)
    BY <2>2 DEF BarriersOpen, OpenedAttempt
  <2>3. CASE Rec = None /\ recovery' = recovery
    BY <1>2, <2>3 DEF Rec
  <2>4. CurrentState \in {"ACTIVE", "CHECKPOINTING"} => Rec = None
    BY <1>1 DEF CurrentState, RuntimeState, RecoveryActivity
  <2> QED BY <1>4, <2>1, <2>2, <2>3, <2>4 DEF OnPlayerLeave
<1>5. ASSUME NEW s \in Slots, OnRecoveryLoadedResult(s) PROVE CurrentBarriers'
  <2> DEFINE rec == [Rec EXCEPT !.durableLoaded = @ \cup {s}]
             acked == [rec EXCEPT !.loaded = @ \cup {s}]
  <2>1. /\ Rec # None /\ present = Slots /\ present' = present
        /\ Rec.stage \in {"ApplyingSnapshot", "LoadingNativeSaves"}
        /\ \/ recovery' \in {rec, acked}
           \/ \E r : recovery' = Restored(acked, r)
    BY <1>5 DEF OnRecoveryLoadedResult, FullRoster
  <2>2. rec.stage = Rec.stage /\ acked.stage = Rec.stage
        /\ \A r : Restored(acked, r).stage = "ApplyingSnapshot"
    BY <1>1, <2>1 DEF RecoveryActivity, Restored
  <2> HIDE DEF rec, acked
  <2> QED BY <2>1, <2>2 DEF BarriersOpen
<1>6. ASSUME NEW s \in Slots, OnRecoverySnapshotApplied(s) PROVE CurrentBarriers'
  <2> DEFINE acked == [Rec EXCEPT !.durableApplied = @ \cup {s}, !.applied = @ \cup {s}]
  <2>1. /\ Rec # None /\ present = Slots /\ present' = present
        /\ Rec.stage = "ApplyingSnapshot"
        /\ recovery' \in {acked, None}
    BY <1>6 DEF OnRecoverySnapshotApplied, FullRoster
  <2>2. acked.stage = Rec.stage
    BY <1>1, <2>1 DEF RecoveryActivity
  <2> HIDE DEF acked
  <2> QED BY <2>1, <2>2 DEF BarriersOpen
<1>7. CASE ServerRestart
  BY <1>2, <1>7 DEF ServerRestart
<1>8. ASSUME UNCHANGED <<recovery, present>> PROVE CurrentBarriers'
  BY <1>2, <1>8
<1> QED BY <1>3, <1>4, <1>5, <1>6, <1>7, <1>8
        DEF Next, vars, OnSetReady, OnCheckpointRequest, OnCheckpointSaveResult,
            OnCheckpointSaveFailed

\* A barrier of the current session counts connected members only, however
\* admissions, losses, restarts and late acknowledgements interleave.
THEOREM ConnectedBarriers == Spec => []BarriersCountConnected
<1>1. Init => CurrentBarriers
  BY DEF Init, CurrentBarriers, BarriersOpen
<1>2. IInv /\ CurrentBarriers /\ [Next]_vars => CurrentBarriers'
  BY BarriersNext
<1>3. IInv /\ CurrentBarriers => BarriersCountConnected
  BY DEF IInv, TypeOK, RecoveryActivity, CurrentBarriers, BarriersOpen,
         BarriersCountConnected
<1> QED BY <1>1, <1>2, <1>3, Invariance, PTL DEF Spec

-----------------------------------------------------------------------------
(***************************************************************************)
(* A restart rebuilds the attempt.                                          *)
(***************************************************************************)
RecoveryKinds == {"BeginRecovery", "RecoveryLoaded", "RestoreCheckpoint",
                  "RecoverySnapshotApplied", "CompleteRecovery"}

\* With no attempt open, the scan does not look at receipts.
LEMMA ScannableClosed ==
  ASSUME NEW d, OpenAttempts(d.journal) = {}, BeginsOrdered(d), RestoresMatch(d)
  PROVE  Scannable(d)
BY DEF Scannable, AcksMatch

\* A row of ordinary play or of a checkpoint is invisible to the scan.
LEMMA OrdinaryScan ==
  ASSUME NEW d, NEW n, NEW e, Scannable(d), OpenAttempts(d.journal) = {},
         n.journal = d.journal \cup {e}, e.kind \notin RecoveryKinds
  PROVE  Scannable(n) /\ OpenAttempts(n.journal) = {}
<1>1. OpenAttempts(n.journal) = {} /\ \A a : Restores(n.journal, a) = Restores(d.journal, a)
  BY BenignEntry DEF RecoveryKinds
<1>2. /\ OfKind(n.journal, "BeginRecovery") = OfKind(d.journal, "BeginRecovery")
      /\ OfKind(n.journal, "RestoreCheckpoint") = OfKind(d.journal, "RestoreCheckpoint")
      /\ OfKind(n.journal, "CompleteRecovery") = OfKind(d.journal, "CompleteRecovery")
      /\ \A a : Receipts(n.journal, "CompleteRecovery", a) =
                  Receipts(d.journal, "CompleteRecovery", a)
  BY DEF RecoveryKinds, OfKind, Receipts
<1>3. BeginsOrdered(n)
  BY <1>2 DEF Scannable, BeginsOrdered
<1>4. RestoresMatch(n)
  BY <1>1, <1>2 DEF Scannable, RestoresMatch
<1> QED BY <1>1, <1>3, <1>4, ScannableClosed

\* The attempt a handler works with agrees with the journal.
LEMMA RecMatches ==
  ASSUME IInv, CurrentMemory
  PROVE  MemoryMatches(db, Rec)
<1>1. CASE recovery # None
  BY <1>1 DEF CurrentMemory, Rec
<1>2. CASE recovery = None /\ Rec # None
  <2> DEFINE a == Rec.attempt
             j == db.journal
  <2>1. OpenAttempts(j) = {a} /\ a \in OpenAttempts(j)
    BY <1>2, OpenIsRec
  <2>2. Rec = Rebuild(db)
    BY <1>2 DEF Rec
  <2>3. /\ Rec.stage = "RecoveryLock"
        /\ Rec.checkpoint = RebuiltCheckpoint(db, a)
        /\ Rec.restore = RebuiltRestore(j, a)
        /\ Rec.durableLoaded = Receivers(j, "RecoveryLoaded", a)
        /\ Rec.durableApplied = Receivers(j, "RecoverySnapshotApplied", a)
    BY <2>1, <2>2, RebuildFields
  <2> HIDE DEF a
  <2>4. ASSUME Restores(j, a) \cup Acks(j, a) # {}
        PROVE  RebuiltCheckpoint(db, a) # None
    <3>1. CASE Restores(j, a) # {}
      <4>1. (CHOOSE e \in Restores(j, a) : TRUE) \in OfKind(j, "RestoreCheckpoint")
        BY <3>1 DEF Restores, Receipts
      <4>2. (CHOOSE e \in Restores(j, a) : TRUE).cp # None
        BY <4>1 DEF CurrentMemory, Scannable, RestoresMatch
      <4> QED BY <3>1, <4>2 DEF RebuiltCheckpoint
    <3>2. CASE Restores(j, a) = {}
      <4>1. Acks(j, a) # {}
        BY <2>4, <3>2
      <4>2. db.last # None
        BY <2>1, <4>1 DEF CurrentMemory, Scannable, AcksMatch
      <4> QED BY <3>2, <4>1, <4>2 DEF RebuiltCheckpoint, Acks
    <3> QED BY <3>1, <3>2
  <2> QED BY <2>3, <2>4 DEF MemoryMatches, a
<1>3. CASE Rec = None
  BY <1>3 DEF MemoryMatches
<1> QED BY <1>1, <1>2, <1>3

\* BeginRecovery: every earlier attempt is closed, the new one has no rows yet.
LEMMA BeginScan ==
  ASSUME IInv, CurrentMemory, Rec = None, OpenRecovery
  PROVE  /\ Scannable(db')
         /\ Restores(db'.journal, db.revision + 1) = {}
         /\ Acks(db'.journal, db.revision + 1) = {}
<1> DEFINE r == db.revision + 1
           e == Entry("BeginRecovery", db.revision, r, r, None, None, 0)
<1>1. /\ db \in Database /\ db.revision \in Nat /\ r \in Nat
      /\ db.journal \subseteq JournalRecord
      /\ \A x \in db.journal : x.attempt \in Nat /\ x.resulting \in Nat
  BY DEF IInv, TypeOK, Database, JournalRecord
<1>2. db'.journal = db.journal \cup {e}
  BY <1>1, BeginFields DEF OpenRecovery
<1>3. e.kind = "BeginRecovery" /\ e.attempt = r /\ e.resulting = r
      /\ e.expected = db.revision
  BY EntryFields
<1> HIDE DEF e
<1>4. OpenAttempts(db.journal) = {}
  BY RecFacts
<1>5. \A x \in db.journal : x.attempt # r /\ x.resulting < r
  BY <1>1 DEF IInv, RevisionBounds
<1>6. /\ OfKind(db'.journal, "BeginRecovery") = OfKind(db.journal, "BeginRecovery") \cup {e}
      /\ OfKind(db'.journal, "RestoreCheckpoint") = OfKind(db.journal, "RestoreCheckpoint")
      /\ OfKind(db'.journal, "CompleteRecovery") = OfKind(db.journal, "CompleteRecovery")
  BY <1>2, <1>3 DEF OfKind
<1>7. /\ \A a : Restores(db'.journal, a) = Restores(db.journal, a)
      /\ \A a : Receipts(db'.journal, "CompleteRecovery", a) =
                  Receipts(db.journal, "CompleteRecovery", a)
  BY <1>6 DEF Restores, Receipts
<1>8. Restores(db'.journal, r) = {} /\ Acks(db'.journal, r) = {}
  <2>1. Restores(db.journal, r) = {}
    BY <1>5 DEF Restores, Receipts, OfKind
  <2>2. Acks(db'.journal, r) = {}
    BY <1>2, <1>3, <1>5 DEF Acks, Receipts, OfKind
  <2> QED BY <1>7, <2>1, <2>2
<1>9. BeginsOrdered(db')
  <2> DEFINE j == db'.journal
  <2>1. \A b \in OfKind(j, "BeginRecovery") :
           b.resulting = b.expected + 1 /\ b.attempt = b.resulting
    BY <1>3, <1>6 DEF CurrentMemory, Scannable, BeginsOrdered
  <2>2. ASSUME NEW b \in OfKind(j, "BeginRecovery"), NEW n \in OfKind(j, "BeginRecovery"),
               b.resulting < n.resulting
        PROVE  \E c \in Receipts(j, "CompleteRecovery", b.attempt) :
                  c.resulting < n.resulting
    <3>1. b # e /\ b \in OfKind(db.journal, "BeginRecovery")
      <4>1. b.resulting # r
        <5>1. CASE n = e
          BY <1>1, <1>3, <2>2, <5>1
        <5>2. CASE n \in db.journal
          BY <1>1, <1>5, <2>2, <5>2
        <5> QED BY <1>6, <5>1, <5>2 DEF OfKind
      <4> QED BY <1>3, <1>6, <4>1
    <3>2. CASE n = e
      <4>1. b.attempt \in Attempts(db.journal, "CompleteRecovery")
        BY <1>4, <3>1 DEF OpenAttempts, Attempts
      <4>2. PICK c \in OfKind(db.journal, "CompleteRecovery") : c.attempt = b.attempt
        BY <4>1 DEF Attempts
      <4>3. c \in Receipts(j, "CompleteRecovery", b.attempt) /\ c \in db.journal
        BY <1>6, <4>2 DEF Receipts, OfKind
      <4>4. c.resulting < n.resulting
        BY <1>3, <1>5, <3>2, <4>3
      <4> QED BY <4>3, <4>4
    <3>3. CASE n \in OfKind(db.journal, "BeginRecovery")
      BY <1>7, <2>2, <3>1, <3>3 DEF CurrentMemory, Scannable, BeginsOrdered
    <3> QED BY <1>6, <3>2, <3>3
  <2> QED BY <2>1, <2>2 DEF BeginsOrdered
<1>10. RestoresMatch(db')
  BY <1>6, <1>7 DEF CurrentMemory, Scannable, RestoresMatch
<1>11. AcksMatch(db')
  <2>1. OpenAttempts(db'.journal) \subseteq {r}
    BY <1>3, <1>4, <1>6 DEF OpenAttempts, Attempts
  <2>2. Receipts(db'.journal, "RecoverySnapshotApplied", r) = {}
    BY <1>8 DEF Acks
  <2> QED BY <1>8, <2>1, <2>2 DEF AcksMatch
<1> QED BY <1>8, <1>9, <1>10, <1>11 DEF Scannable

\* A receipt of a slot that has none yet, for the rollback point.
LEMMA AckScan ==
  ASSUME IInv, Scannable(db), NEW a, OpenAttempts(db.journal) = {a}, a \in Nat,
         NEW kind \in {"RecoveryLoaded", "RecoverySnapshotApplied"},
         NEW s \in Slots, s \notin Receivers(db.journal, kind, a),
         NEW cp \in CheckpointIds, cp = db.last,
         kind = "RecoverySnapshotApplied" => Restores(db.journal, a) # {},
         NEW d, d = AcceptedNoOp(db, kind, a, s, cp)
  PROVE  /\ Scannable(d)
         /\ Receivers(d.journal, kind, a) = Receivers(db.journal, kind, a) \cup {s}
         /\ \A k : k # kind => Receivers(d.journal, k, a) = Receivers(db.journal, k, a)
<1> DEFINE e == Entry(kind, db.revision, db.revision, a, s, cp, 0)
<1>1. /\ kind \in Kinds /\ s \in Slots \cup {None} /\ cp \in CheckpointIds \cup {None}
      /\ db \in Database /\ cp # None
  BY NoneAssumption DEF Kinds, IInv, TypeOK
<1>2. d.journal = db.journal \cup {e} /\ d.last = db.last
  BY <1>1, NoOpFields
<1>3. /\ e.kind = kind /\ e.attempt = a /\ e.slot = s /\ e.cp = cp
      /\ e.expected = e.resulting
  BY EntryFields
<1> HIDE DEF e
<1>4. /\ Receipts(d.journal, kind, a) = Receipts(db.journal, kind, a) \cup {e}
      /\ \A k : k # kind => /\ Receipts(d.journal, k, a) = Receipts(db.journal, k, a)
                            /\ OfKind(d.journal, k) = OfKind(db.journal, k)
  BY <1>2, <1>3 DEF Receipts, OfKind
<1>5. /\ Receivers(d.journal, kind, a) = Receivers(db.journal, kind, a) \cup {s}
      /\ \A k : k # kind => Receivers(d.journal, k, a) = Receivers(db.journal, k, a)
  BY <1>3, <1>4 DEF Receivers
<1>6. /\ OpenAttempts(d.journal) = {a}
      /\ \A x : Restores(d.journal, x) = Restores(db.journal, x)
  BY <1>2, <1>3, BenignEntry
<1>7. BeginsOrdered(d)
  <2>1. /\ OfKind(d.journal, "BeginRecovery") = OfKind(db.journal, "BeginRecovery")
        /\ OfKind(d.journal, "CompleteRecovery") = OfKind(db.journal, "CompleteRecovery")
    BY <1>4
  <2>2. \A x : Receipts(d.journal, "CompleteRecovery", x) =
               Receipts(db.journal, "CompleteRecovery", x)
    BY <2>1 DEF Receipts
  <2> QED BY <2>1, <2>2 DEF Scannable, BeginsOrdered
<1>8. RestoresMatch(d)
  <2>1. /\ OfKind(d.journal, "RestoreCheckpoint") = OfKind(db.journal, "RestoreCheckpoint")
        /\ OfKind(d.journal, "CompleteRecovery") = OfKind(db.journal, "CompleteRecovery")
    BY <1>4
  <2> QED BY <1>6, <2>1 DEF Scannable, RestoresMatch
<1>9. AcksMatch(d)
  <2>1. Acks(d.journal, a) = Acks(db.journal, a) \cup {e}
    BY <1>4 DEF Acks
  <2>2. \A x \in Acks(db.journal, a) : x.kind # kind \/ x.slot # s
    BY DEF Acks, Receipts, OfKind, Receivers
  <2>3. \A x \in Acks(db.journal, a) :
          /\ x.cp = db.last /\ x.expected = x.resulting
          /\ \A y \in Acks(db.journal, a) : y.kind = x.kind /\ y.slot = x.slot => y = x
    BY DEF Scannable, AcksMatch
  <2>4. \A x \in Acks(d.journal, a) :
          /\ x.cp = d.last /\ d.last # None /\ x.expected = x.resulting
          /\ \A y \in Acks(d.journal, a) : y.kind = x.kind /\ y.slot = x.slot => y = x
    <3>1. \A x \in Acks(d.journal, a) :
             x.cp = d.last /\ d.last # None /\ x.expected = x.resulting
      BY <1>1, <1>2, <1>3, <2>1, <2>3
    <3>2. ASSUME NEW x \in Acks(d.journal, a), NEW y \in Acks(d.journal, a),
                 y.kind = x.kind, y.slot = x.slot
          PROVE  y = x
      <4>1. CASE x = e
        BY <1>3, <2>1, <2>2, <3>2, <4>1
      <4>2. CASE x \in Acks(db.journal, a) /\ y = e
        BY <1>3, <2>2, <3>2, <4>2
      <4>3. CASE x \in Acks(db.journal, a) /\ y \in Acks(db.journal, a)
        BY <2>3, <3>2, <4>3
      <4> QED BY <2>1, <4>1, <4>2, <4>3
    <3> QED BY <3>1, <3>2
  <2>5. Receipts(d.journal, "RecoverySnapshotApplied", a) # {} => Restores(d.journal, a) # {}
    <3>1. CASE kind = "RecoverySnapshotApplied"
      BY <1>6, <3>1
    <3>2. CASE kind # "RecoverySnapshotApplied"
      BY <1>4, <1>6, <3>2 DEF Scannable, AcksMatch
    <3> QED BY <3>1, <3>2
  <2> QED BY <1>6, <2>4, <2>5 DEF AcksMatch
<1> QED BY <1>5, <1>7, <1>8, <1>9 DEF Scannable

\* The restore of the open attempt.
LEMMA RestoreScan ==
  ASSUME NEW d \in Database, Scannable(d), NEW a \in Nat, OpenAttempts(d.journal) = {a},
         NEW cp \in CheckpointIds, Restores(d.journal, a) = {},
         NEW n, n = RestoreCheckpointSnapshot(d, a, cp)
  PROVE  /\ Scannable(n)
         /\ RebuiltRestore(n.journal, a) = d.revision + 1
         /\ \A k \in {"RecoveryLoaded", "RecoverySnapshotApplied"} :
               Receivers(n.journal, k, a) = Receivers(d.journal, k, a)
<1> DEFINE e == Entry("RestoreCheckpoint", d.revision, d.revision + 1,
                      a, None, cp, d.cps[cp].source)
<1>1. n.journal = d.journal \cup {e} /\ n.last = d.last
  BY RestoreFields
<1>2. /\ e.kind = "RestoreCheckpoint" /\ e.attempt = a /\ e.cp = cp /\ cp # None
      /\ e.expected = d.revision /\ e.resulting = d.revision + 1
  BY EntryFields, NoneAssumption
<1> HIDE DEF e
<1>3. /\ OpenAttempts(n.journal) = {a} /\ Restores(n.journal, a) = {e}
      /\ \A x : Restores(d.journal, x) \subseteq Restores(n.journal, x)
  <2>0. /\ OpenAttempts(d.journal \cup {e}) = OpenAttempts(d.journal)
        /\ Restores(d.journal \cup {e}, e.attempt) = Restores(d.journal, e.attempt) \cup {e}
    BY <1>2, RestoreEntry
  <2>1. OpenAttempts(n.journal) = {a} /\ Restores(n.journal, a) = {e}
    BY <1>1, <1>2, <2>0
  <2>2. \A x : Restores(d.journal, x) \subseteq Restores(n.journal, x)
    BY <1>1 DEF Restores, Receipts, OfKind
  <2> QED BY <2>1, <2>2
<1>4. /\ \A k : k # "RestoreCheckpoint" => OfKind(n.journal, k) = OfKind(d.journal, k)
      /\ OfKind(n.journal, "RestoreCheckpoint") =
           OfKind(d.journal, "RestoreCheckpoint") \cup {e}
  BY <1>1, <1>2 DEF OfKind
<1>5. \A k, x : k # "RestoreCheckpoint" =>
        /\ Receipts(n.journal, k, x) = Receipts(d.journal, k, x)
        /\ Receivers(n.journal, k, x) = Receivers(d.journal, k, x)
  BY <1>4 DEF Receipts, Receivers
<1>6. BeginsOrdered(n)
  <2>1. /\ OfKind(n.journal, "BeginRecovery") = OfKind(d.journal, "BeginRecovery")
        /\ \A x : Receipts(n.journal, "CompleteRecovery", x) =
                   Receipts(d.journal, "CompleteRecovery", x)
    BY <1>4, <1>5
  <2> QED BY <2>1 DEF Scannable, BeginsOrdered
<1>7. RestoresMatch(n)
  <2>1. OfKind(n.journal, "CompleteRecovery") = OfKind(d.journal, "CompleteRecovery")
    BY <1>4
  <2>2. \A x \in OfKind(n.journal, "RestoreCheckpoint") :
           x.resulting = x.expected + 1 /\ x.cp # None
    BY <1>2, <1>4 DEF Scannable, RestoresMatch
  <2>3. \A c \in OfKind(n.journal, "CompleteRecovery") :
           \E x \in Restores(n.journal, c.attempt) :
              c.resulting = x.resulting /\ c.cp = x.cp
    BY <1>3, <2>1 DEF Scannable, RestoresMatch
  <2> QED BY <2>2, <2>3 DEF RestoresMatch
<1>8. AcksMatch(n)
  <2>1. Acks(n.journal, a) = Acks(d.journal, a)
    BY <1>5 DEF Acks
  <2> QED BY <1>1, <1>3, <2>1 DEF Scannable, AcksMatch
<1>9. RebuiltRestore(n.journal, a) = d.revision + 1
  BY <1>2, <1>3 DEF RebuiltRestore
<1> QED BY <1>5, <1>6, <1>7, <1>8, <1>9 DEF Scannable

\* The completion of a restored attempt.
LEMMA CompleteScan ==
  ASSUME NEW d \in Database, Scannable(d), NEW a \in Nat, OpenAttempts(d.journal) = {a},
         NEW cp \in CheckpointIds,
         \E x \in Restores(d.journal, a) : x.resulting = d.revision /\ x.cp = cp
  PROVE  Scannable(AcceptedNoOp(d, "CompleteRecovery", a, None, cp))
<1> DEFINE n == AcceptedNoOp(d, "CompleteRecovery", a, None, cp)
           e == Entry("CompleteRecovery", d.revision, d.revision, a, None, cp, 0)
<1>1. n.journal = d.journal \cup {e}
  BY NoOpFields DEF Kinds
<1>2. /\ e.kind = "CompleteRecovery" /\ e.attempt = a /\ e.cp = cp
      /\ e.resulting = d.revision
  BY EntryFields
<1> HIDE DEF n, e
<1>3. OpenAttempts(n.journal) = {} /\ \A x : Restores(n.journal, x) = Restores(d.journal, x)
  BY <1>1, <1>2, CompleteEntry
<1>4. /\ OfKind(n.journal, "BeginRecovery") = OfKind(d.journal, "BeginRecovery")
      /\ OfKind(n.journal, "RestoreCheckpoint") = OfKind(d.journal, "RestoreCheckpoint")
      /\ OfKind(n.journal, "CompleteRecovery") =
           OfKind(d.journal, "CompleteRecovery") \cup {e}
  BY <1>1, <1>2 DEF OfKind
<1>5. \A x : Receipts(d.journal, "CompleteRecovery", x) \subseteq
             Receipts(n.journal, "CompleteRecovery", x)
  BY <1>4 DEF Receipts
<1>6. BeginsOrdered(n)
  BY <1>4, <1>5 DEF Scannable, BeginsOrdered
<1>7. RestoresMatch(n)
  BY <1>2, <1>3, <1>4 DEF Scannable, RestoresMatch
<1> QED BY <1>3, <1>6, <1>7, ScannableClosed DEF n

\* The receipt of one acknowledgement, if it is not there yet.
LEMMA LoadedScan ==
  ASSUME IInv, CurrentMemory, Rec # None, Rec.checkpoint # None, NEW s \in Slots
  PROVE  LET d == LoadedReceipt(Rec, s)
             a == Rec.attempt
         IN  /\ Scannable(d)
             /\ OpenAttempts(d.journal) = {a}
             /\ Restores(d.journal, a) = Restores(db.journal, a)
             /\ Receivers(d.journal, "RecoveryLoaded", a) = Rec.durableLoaded \cup {s}
             /\ Receivers(d.journal, "RecoverySnapshotApplied", a) = Rec.durableApplied
<1> DEFINE a == Rec.attempt
<1>1. /\ OpenAttempts(db.journal) = {a} /\ Rec.checkpoint = db.last
      /\ Rec.checkpoint \in CheckpointIds /\ a \in Nat
  BY OpenIsRec, RecFacts DEF RecoveryActivity
<1>2. /\ Rec.durableLoaded = Receivers(db.journal, "RecoveryLoaded", a)
      /\ Rec.durableApplied = Receivers(db.journal, "RecoverySnapshotApplied", a)
  BY RecMatches DEF MemoryMatches
<1>3. Scannable(db)
  BY DEF CurrentMemory
<1> HIDE DEF a
<1>4. CASE s \in Rec.durableLoaded
  <2>1. LoadedReceipt(Rec, s) = db /\ Rec.durableLoaded \cup {s} = Rec.durableLoaded
    BY <1>4 DEF LoadedReceipt
  <2> QED BY <1>1, <1>2, <1>3, <2>1 DEF a
<1>5. CASE s \notin Rec.durableLoaded
  <2> DEFINE d == AcceptedNoOp(db, "RecoveryLoaded", a, s, Rec.checkpoint)
  <2>1. LoadedReceipt(Rec, s) = d
    BY <1>5 DEF LoadedReceipt, a
  <2>2. /\ Scannable(d)
        /\ Receivers(d.journal, "RecoveryLoaded", a) =
             Receivers(db.journal, "RecoveryLoaded", a) \cup {s}
        /\ Receivers(d.journal, "RecoverySnapshotApplied", a) =
             Receivers(db.journal, "RecoverySnapshotApplied", a)
    <3>1. s \notin Receivers(db.journal, "RecoveryLoaded", a)
      BY <1>2, <1>5
    <3> QED BY <1>1, <1>3, <3>1, AckScan
  <2>3. SameWorld(db, d)
    BY <1>1, ReceiptSameWorld
  <2> HIDE DEF d
  <2> QED BY <1>1, <1>2, <2>1, <2>2, <2>3 DEF SameWorld, a
<1> QED BY <1>4, <1>5

\* The same for the second barrier, which follows the restore.
LEMMA AppliedScan ==
  ASSUME IInv, CurrentMemory, Rec # None, Rec.stage = "ApplyingSnapshot", NEW s \in Slots
  PROVE  LET d == AppliedReceipt(Rec, s)
             a == Rec.attempt
         IN  /\ Scannable(d)
             /\ OpenAttempts(d.journal) = {a}
             /\ Restores(d.journal, a) = Restores(db.journal, a)
             /\ Receivers(d.journal, "RecoveryLoaded", a) = Rec.durableLoaded
             /\ Receivers(d.journal, "RecoverySnapshotApplied", a) = Rec.durableApplied \cup {s}
<1> DEFINE a == Rec.attempt
<1>1. /\ OpenAttempts(db.journal) = {a} /\ a \in Nat /\ Restores(db.journal, a) # {}
      /\ Rec.checkpoint \in {None, db.last} /\ Rec.checkpoint \in CheckpointIds \cup {None}
  BY OpenIsRec, RecFacts DEF RecoveryActivity
<1>2. /\ Rec.durableLoaded = Receivers(db.journal, "RecoveryLoaded", a)
      /\ Rec.durableApplied = Receivers(db.journal, "RecoverySnapshotApplied", a)
      /\ Rec.checkpoint # None
  BY RecMatches DEF MemoryMatches
<1>3. Scannable(db)
  BY DEF CurrentMemory
<1>4. Rec.checkpoint = db.last /\ Rec.checkpoint \in CheckpointIds
  BY <1>1, <1>2
<1> HIDE DEF a
<1>5. CASE s \in Rec.durableApplied
  <2>1. AppliedReceipt(Rec, s) = db /\ Rec.durableApplied \cup {s} = Rec.durableApplied
    BY <1>5 DEF AppliedReceipt
  <2> QED BY <1>1, <1>2, <1>3, <2>1 DEF a
<1>6. CASE s \notin Rec.durableApplied
  <2> DEFINE d == AcceptedNoOp(db, "RecoverySnapshotApplied", a, s, Rec.checkpoint)
  <2>1. AppliedReceipt(Rec, s) = d
    BY <1>6 DEF AppliedReceipt, a
  <2>2. /\ Scannable(d)
        /\ Receivers(d.journal, "RecoverySnapshotApplied", a) =
             Receivers(db.journal, "RecoverySnapshotApplied", a) \cup {s}
        /\ Receivers(d.journal, "RecoveryLoaded", a) =
             Receivers(db.journal, "RecoveryLoaded", a)
    <3>1. s \notin Receivers(db.journal, "RecoverySnapshotApplied", a)
      BY <1>2, <1>6
    <3> QED BY <1>1, <1>3, <1>4, <3>1, AckScan
  <2>3. SameWorld(db, d)
    BY <1>1, ReceiptSameWorld
  <2> HIDE DEF d
  <2> QED BY <1>1, <1>2, <2>1, <2>2, <2>3 DEF SameWorld, a
<1> QED BY <1>5, <1>6

\* What a second attempt record needs to agree with the same journal.
LEMMA MatchesToo ==
  ASSUME NEW d, NEW rec, NEW r, rec # None, MemoryMatches(d, rec),
         r.attempt = rec.attempt, r.restore = rec.restore,
         r.durableLoaded = rec.durableLoaded, r.durableApplied = rec.durableApplied,
         rec.checkpoint # None => r.checkpoint # None,
         r.stage # "RecoveryLock" => r.checkpoint # None
  PROVE  MemoryMatches(d, r)
BY DEF MemoryMatches

\* An attempt without rows is what BeginRecovery builds.
LEMMA OpenedMatches ==
  ASSUME NEW d, NEW r, Restores(d.journal, r.attempt) = {}, Acks(d.journal, r.attempt) = {},
         r.restore = 0, r.durableLoaded = {}, r.durableApplied = {},
         r.stage # "RecoveryLock" => r.checkpoint # None
  PROVE  MemoryMatches(d, r)
<1>1. \A k \in {"RecoveryLoaded", "RecoverySnapshotApplied"} :
         Receipts(d.journal, k, r.attempt) = {}
  BY DEF Acks
<1>2. \A k \in {"RecoveryLoaded", "RecoverySnapshotApplied"} :
         Receivers(d.journal, k, r.attempt) = {}
  BY <1>1 DEF Receivers
<1> QED BY <1>2 DEF MemoryMatches, RebuiltRestore

\* Every handler keeps memory and journal in agreement, whichever of its
\* transactions succeed.
LEMMA MemoryNext ==
  ASSUME IInv, CurrentMemory, [Next]_vars
  PROVE  CurrentMemory'
<1> USE DEF CurrentMemory
<1>1. /\ db \in Database /\ Scannable(db) /\ MemoryMatches(db, Rec)
      /\ Rec # None => Rec \in RecoveryActivity /\ OpenAttempts(db.journal) = {Rec.attempt}
      /\ Rec = None => recovery = None /\ OpenAttempts(db.journal) = {}
  BY RecMatches, RecFacts, OpenIsRec DEF IInv, TypeOK, Rec
<1>2. ASSUME db' = db, recovery' \in {recovery, None} PROVE CurrentMemory'
  BY <1>2 DEF MemoryMatches
<1>3. ASSUME NEW s \in Slots, NEW ready \in BOOLEAN, OnSetReady(s, ready)
      PROVE  CurrentMemory'
  <2> DEFINE e == Entry("SetReady", db.revision, db.revision + 1, 0, s, None, 0)
  <2>1. /\ Rec = None /\ recovery' = recovery /\ db'.journal = db.journal \cup {e}
    BY <1>1, <1>3, ReadyFields DEF OnSetReady, MutationFence
  <2>2. e.kind \notin RecoveryKinds
    BY EntryFields DEF RecoveryKinds
  <2> HIDE DEF e
  <2> QED BY <1>1, <2>1, <2>2, OrdinaryScan DEF MemoryMatches
<1>4. ASSUME NEW s \in Slots, NEW cp \in CheckpointIds, NEW sent \in BOOLEAN,
             OnCheckpointRequest(s, cp, sent)
      PROVE  CurrentMemory'
  <2> DEFINE e == Entry("CreateCheckpointCandidate", db.revision, db.revision + 1,
                        0, None, cp, 0)
  <2>1. /\ Rec = None /\ recovery' = recovery /\ db'.journal = db.journal \cup {e}
    BY <1>1, <1>4, CandidateFields DEF OnCheckpointRequest, MutationFence
  <2>2. e.kind \notin RecoveryKinds
    BY EntryFields DEF RecoveryKinds
  <2> HIDE DEF e
  <2> QED BY <1>1, <2>1, <2>2, OrdinaryScan DEF MemoryMatches
<1>5. ASSUME NEW s \in Slots, NEW cp \in CheckpointIds, NEW art \in Artifacts,
             OnCheckpointSaveResult(s, cp, art)
      PROVE  CurrentMemory'
  <2> DEFINE d == IF db.cps[cp].saves[s] = art THEN db
                  ELSE RecordCheckpointSlotSave(db, cp, s, art)
             e == Entry("RecordCheckpointSlotSave", db.revision, db.revision + 1,
                        0, s, cp, 0)
             c == Entry("CommitCheckpoint", d.revision, d.revision + 1, 0, None, cp, 0)
  <2>1. /\ Rec = None /\ recovery' = recovery
        /\ db' = d \/ db' = CommitCheckpoint(d, cp)
    BY <1>5 DEF OnCheckpointSaveResult
  <2>2. d \in Database /\ (d = db \/ d.journal = db.journal \cup {e})
    BY <1>1, SlotSaveFields
  <2>3. e.kind \notin RecoveryKinds /\ c.kind \notin RecoveryKinds
    BY EntryFields DEF RecoveryKinds
  <2> HIDE DEF d, e, c
  <2>4. Scannable(d) /\ OpenAttempts(d.journal) = {}
    BY <1>1, <2>1, <2>2, <2>3, OrdinaryScan
  <2>5. CommitCheckpoint(d, cp).journal = d.journal \cup {c}
    BY <2>2, CommitFields DEF c
  <2>6. Scannable(CommitCheckpoint(d, cp))
    BY <2>3, <2>4, <2>5, OrdinaryScan
  <2> QED BY <1>1, <2>1, <2>4, <2>6 DEF MemoryMatches
<1>6. ASSUME Rec = None, OpenRecovery, NEW p,
             \/ p = OpenedAttempt(db)
             \/ \E pres : p = PrepareRecovery(OpenedAttempt(db), db', pres),
             recovery' = p
      PROVE  CurrentMemory'
  <2> DEFINE o == OpenedAttempt(db)
  <2>1. /\ o \in RecoveryActivity /\ o.attempt = db.revision + 1
        /\ o.restore = 0 /\ o.durableLoaded = {} /\ o.durableApplied = {}
        /\ o.stage = "RecoveryLock" /\ db' \in Database
    BY <1>1, <1>6, OpenedFacts, BeginFields DEF OpenedAttempt, OpenRecovery
  <2> HIDE DEF o
  <2>2. /\ p.attempt = db.revision + 1 /\ p.restore = 0
        /\ p.durableLoaded = {} /\ p.durableApplied = {}
        /\ p.stage # "RecoveryLock" => p.checkpoint # None
    BY <1>6, <2>1, PrepareFields DEF o
  <2>3. /\ Scannable(db')
        /\ Restores(db'.journal, p.attempt) = {} /\ Acks(db'.journal, p.attempt) = {}
    BY <1>6, <2>2, BeginScan
  <2>4. MemoryMatches(db', p)
    BY <2>2, <2>3, OpenedMatches
  <2> QED BY <1>6, <2>3, <2>4
<1>7. ASSUME NEW s \in Slots, NEW restore \in BOOLEAN, OnResume(s, restore)
      PROVE  CurrentMemory'
  <2> DEFINE pres == present \cup {s}
             state == RuntimeState(Rec, active, pres)
  <2>1. CASE /\ state = "ACTIVE" /\ OpenRecovery
             /\ recovery' = PrepareRecovery(OpenedAttempt(db), db', pres)
    <3>1. Rec = None
      BY <1>1, <2>1 DEF RuntimeState, RecoveryActivity
    <3> QED BY <1>6, <2>1, <3>1
  <2>2. CASE db' = db /\ recovery' = PrepareRecovery(Rec, db, pres) /\ Rec # None
    <3>1. /\ recovery'.attempt = Rec.attempt /\ recovery'.restore = Rec.restore
          /\ recovery'.durableLoaded = Rec.durableLoaded
          /\ recovery'.durableApplied = Rec.durableApplied
          /\ Rec.checkpoint # None => recovery'.checkpoint # None
          /\ recovery'.stage # "RecoveryLock" =>
               recovery' = Rec \/ recovery'.checkpoint # None
      BY <1>1, <2>2, PrepareFields
    <3>2. Rec.stage # "RecoveryLock" => Rec.checkpoint # None
      BY <1>1, <2>2 DEF MemoryMatches
    <3>3. MemoryMatches(db, recovery')
      BY <1>1, <2>2, <3>1, <3>2, MatchesToo
    <3> QED BY <1>1, <2>2, <3>3
  <2>3. CASE db' = db /\ recovery' = PrepareRecovery(Rec, db, pres) /\ Rec = None
    BY <1>2, <2>3 DEF PrepareRecovery
  <2> QED BY <1>7, <2>1, <2>2, <2>3 DEF OnResume
<1>8. ASSUME NEW s \in Slots, OnPlayerLeave(s) PROVE CurrentMemory'
  <2>1. CASE Rec # None /\ db' = db /\ recovery' = Relocked(Rec)
    <3>1. MemoryMatches(db, recovery')
      BY <1>1, <2>1, RelockedFields, MatchesToo
    <3> QED BY <1>1, <2>1, <3>1
  <2>2. CASE /\ CurrentState \in {"ACTIVE", "CHECKPOINTING"}
             /\ OpenRecovery /\ recovery' = OpenedAttempt(db)
    <3>1. Rec = None
      BY <1>1, <2>2 DEF CurrentState, RuntimeState, RecoveryActivity
    <3> QED BY <1>6, <2>2, <3>1
  <2>3. CASE UNCHANGED <<db, recovery>>
    BY <1>2, <2>3
  <2> QED BY <1>8, <2>1, <2>2, <2>3 DEF OnPlayerLeave
<1>9. ASSUME NEW s \in Slots, OnRecoveryLoadedResult(s) PROVE CurrentMemory'
  <2> DEFINE rec == [Rec EXCEPT !.durableLoaded = @ \cup {s}]
             acked == [rec EXCEPT !.loaded = @ \cup {s}]
             d == LoadedReceipt(Rec, s)
             a == Rec.attempt
  <2>1. /\ Rec # None /\ Rec.checkpoint # None
        /\ \/ db' = d /\ recovery' \in {rec, acked}
           \/ \E e \in Restores(d.journal, rec.attempt) :
                 db' = d /\ recovery' = Restored(acked, e.resulting)
           \/ /\ Restores(d.journal, rec.attempt) = {}
              /\ db' = RestoreCheckpointSnapshot(d, rec.attempt, rec.checkpoint)
              /\ recovery' = Restored(acked, d.revision + 1)
    BY <1>9 DEF OnRecoveryLoadedResult
  <2>2. /\ Scannable(d) /\ OpenAttempts(d.journal) = {a}
        /\ Restores(d.journal, a) = Restores(db.journal, a)
        /\ Receivers(d.journal, "RecoveryLoaded", a) = Rec.durableLoaded \cup {s}
        /\ Receivers(d.journal, "RecoverySnapshotApplied", a) = Rec.durableApplied
    BY <2>1, LoadedScan
  <2>3. /\ a \in OpenAttempts(db.journal) /\ a \in Nat
        /\ Rec.checkpoint \in CheckpointIds
    BY <1>1, <2>1 DEF RecoveryActivity
  <2>4. SameWorld(db, d)
    BY <2>3, UnchangedSameWorld, ReceiptSameWorld DEF LoadedReceipt
  <2>5. /\ d \in Database /\ d.revision + 1 \in Nat
        /\ \A e \in Restores(d.journal, a) : e.resulting \in Nat
    BY <2>4 DEF SameWorld, Database, Restores, Receipts, OfKind, JournalRecord
  <2>6. /\ rec.attempt = a /\ rec.checkpoint = Rec.checkpoint
        /\ rec.restore = Rec.restore
        /\ rec.durableLoaded = Rec.durableLoaded \cup {s}
        /\ rec.durableApplied = Rec.durableApplied
        /\ acked.attempt = a /\ acked.checkpoint = Rec.checkpoint
        /\ acked.restore = Rec.restore
        /\ acked.durableLoaded = Rec.durableLoaded \cup {s}
        /\ acked.durableApplied = Rec.durableApplied
    <3>1. 0 \in Nat
      OBVIOUS
    <3> QED BY <1>1, <2>1, <3>1, AckFields, ZenonT(60)
  <2>7. Rec.restore = RebuiltRestore(db.journal, a)
    BY <1>1, <2>1 DEF MemoryMatches
  <2>0. acked \in RecoveryActivity
    <3>1. rec \in RecoveryActivity
      BY <1>1, <2>1 DEF RecoveryActivity
    <3> HIDE DEF rec
    <3> QED BY <3>1 DEF RecoveryActivity
  <2> HIDE DEF rec, acked, d, a
  <2>8. \A r \in Nat :
           /\ Restored(acked, r).attempt = a
           /\ Restored(acked, r).checkpoint = Rec.checkpoint
           /\ Restored(acked, r).restore = r
           /\ Restored(acked, r).durableLoaded = Rec.durableLoaded \cup {s}
           /\ Restored(acked, r).durableApplied = Rec.durableApplied
    BY <2>0, <2>6 DEF Restored, RecoveryActivity
  <2>9. CASE db' = d /\ recovery' \in {rec, acked}
    <3>1. RebuiltRestore(d.journal, a) = RebuiltRestore(db.journal, a)
      BY <2>2 DEF RebuiltRestore
    <3>2. MemoryMatches(d, recovery')
      BY <2>1, <2>2, <2>6, <2>7, <2>9, <3>1 DEF MemoryMatches
    <3> QED BY <2>2, <2>9, <3>2
  <2>10. CASE \E e \in Restores(d.journal, rec.attempt) :
                 db' = d /\ recovery' = Restored(acked, e.resulting)
    <3>1. PICK e \in Restores(d.journal, a) :
                 db' = d /\ recovery' = Restored(acked, e.resulting)
      BY <2>6, <2>10
    <3>2. \A x \in Restores(d.journal, a) : x.resulting = db.revision
      BY <2>2, <2>3 DEF IInv, RolledBackExactly
    <3>3. (CHOOSE x \in Restores(d.journal, a) : TRUE) \in Restores(d.journal, a)
      BY <3>1
    <3>4. RebuiltRestore(d.journal, a) = e.resulting
      BY <3>1, <3>2, <3>3 DEF RebuiltRestore
    <3>5. MemoryMatches(d, recovery')
      BY <2>1, <2>2, <2>5, <2>8, <3>1, <3>4 DEF MemoryMatches
    <3> QED BY <2>2, <3>1, <3>5
  <2>11. CASE /\ Restores(d.journal, rec.attempt) = {}
              /\ db' = RestoreCheckpointSnapshot(d, rec.attempt, rec.checkpoint)
              /\ recovery' = Restored(acked, d.revision + 1)
    <3>1. /\ Restores(d.journal, a) = {}
          /\ db' = RestoreCheckpointSnapshot(d, a, Rec.checkpoint)
      BY <2>6, <2>11
    <3>2. /\ Scannable(db') /\ RebuiltRestore(db'.journal, a) = d.revision + 1
          /\ Receivers(db'.journal, "RecoveryLoaded", a) =
               Receivers(d.journal, "RecoveryLoaded", a)
          /\ Receivers(db'.journal, "RecoverySnapshotApplied", a) =
               Receivers(d.journal, "RecoverySnapshotApplied", a)
      BY <2>2, <2>3, <2>5, <3>1, RestoreScan
    <3>3. MemoryMatches(db', recovery')
      BY <2>1, <2>2, <2>5, <2>8, <2>11, <3>2 DEF MemoryMatches
    <3> QED BY <3>2, <3>3
  <2> QED BY <2>1, <2>9, <2>10, <2>11
<1>10. ASSUME NEW s \in Slots, OnRecoverySnapshotApplied(s) PROVE CurrentMemory'
  <2> DEFINE acked == [Rec EXCEPT !.durableApplied = @ \cup {s}, !.applied = @ \cup {s}]
             d == AppliedReceipt(Rec, s)
             a == Rec.attempt
             cp == Rec.checkpoint
  <2>1. /\ Rec # None /\ Rec.stage = "ApplyingSnapshot"
        /\ \/ db' = d /\ recovery' = acked
           \/ /\ db' = AcceptedNoOp(d, "CompleteRecovery", a, None, cp)
              /\ recovery' = None
    BY <1>10 DEF OnRecoverySnapshotApplied
  <2>2. /\ Scannable(d) /\ OpenAttempts(d.journal) = {a}
        /\ Restores(d.journal, a) = Restores(db.journal, a)
        /\ Receivers(d.journal, "RecoveryLoaded", a) = Rec.durableLoaded
        /\ Receivers(d.journal, "RecoverySnapshotApplied", a) = Rec.durableApplied \cup {s}
    BY <2>1, AppliedScan
  <2>3. /\ a \in OpenAttempts(db.journal) /\ a \in Nat /\ cp # None
        /\ cp \in CheckpointIds /\ cp = db.last /\ Restores(db.journal, a) # {}
    BY <1>1, <2>1, RecFacts DEF RecoveryActivity, MemoryMatches
  <2>4. SameWorld(db, d)
    BY <2>3, UnchangedSameWorld, ReceiptSameWorld DEF AppliedReceipt
  <2>5. d \in Database /\ d.revision = db.revision
    BY <2>4 DEF SameWorld
  <2>6. /\ acked.attempt = a /\ acked.checkpoint = cp /\ acked.restore = Rec.restore
        /\ acked.durableLoaded = Rec.durableLoaded
        /\ acked.durableApplied = Rec.durableApplied \cup {s}
    <3>1. 0 \in Nat
      OBVIOUS
    <3> QED BY <1>1, <2>1, <3>1, AckFields, ZenonT(60)
  <2>7. Rec.restore = RebuiltRestore(db.journal, a)
    BY <1>1, <2>1 DEF MemoryMatches
  <2> HIDE DEF acked, d, a, cp
  <2>8. CASE db' = d /\ recovery' = acked
    <3>1. RebuiltRestore(d.journal, a) = RebuiltRestore(db.journal, a)
      BY <2>2 DEF RebuiltRestore
    <3>2. MemoryMatches(d, recovery')
      BY <2>2, <2>3, <2>6, <2>7, <2>8, <3>1 DEF MemoryMatches
    <3> QED BY <2>2, <2>8, <3>2
  <2>9. CASE /\ db' = AcceptedNoOp(d, "CompleteRecovery", a, None, cp)
             /\ recovery' = None
    <3>1. \E x \in Restores(d.journal, a) : x.resulting = d.revision /\ x.cp = cp
      BY <2>2, <2>3, <2>5 DEF IInv, RolledBackExactly
    <3>2. Scannable(db')
      BY <2>2, <2>3, <2>5, <2>9, <3>1, CompleteScan
    <3> QED BY <2>9, <3>2 DEF MemoryMatches
  <2> QED BY <2>1, <2>8, <2>9
<1>11. ASSUME NEW s \in Slots, OnCheckpointSaveFailed(s) PROVE CurrentMemory'
  BY <1>2, <1>11 DEF OnCheckpointSaveFailed
<1>12. CASE ServerRestart
  BY <1>2, <1>12 DEF ServerRestart
<1>13. CASE UNCHANGED vars
  BY <1>2, <1>13 DEF vars
<1> QED BY <1>3, <1>4, <1>5, <1>7, <1>8, <1>9, <1>10, <1>11, <1>12, <1>13 DEF Next

\* A restarted server recovers the attempt the old one had in memory: the scan
\* of ReconstructRecovery never fails and agrees with m_recoveries on the
\* attempt, the restore and every durable receipt.
THEOREM RestartRebuilds == Spec => []RestartRebuildsRecovery
<1>1. Init => CurrentMemory
  <2> SUFFICES ASSUME Init PROVE CurrentMemory
    OBVIOUS
  <2> DEFINE c == Entry("CreateCampaign", 0, 1, 0, None, None, 0)
             t == Entry("CommitCampaignStart", 1, 2, 0, None, None, 0)
  <2>1. db.journal = {c, t} /\ recovery = None
    BY DEF Init, StartedCampaign
  <2>2. c.kind = "CreateCampaign" /\ t.kind = "CommitCampaignStart"
    BY EntryFields
  <2> HIDE DEF c, t
  <2>3. \A k \in RecoveryKinds : OfKind(db.journal, k) = {}
    BY <2>1, <2>2 DEF OfKind, RecoveryKinds
  <2>4. OpenAttempts(db.journal) = {}
    BY <2>3 DEF OpenAttempts, Attempts, RecoveryKinds
  <2>5. BeginsOrdered(db) /\ RestoresMatch(db)
    BY <2>3 DEF BeginsOrdered, RestoresMatch, RecoveryKinds
  <2> QED BY <2>1, <2>4, <2>5, ScannableClosed DEF CurrentMemory, MemoryMatches
<1>2. IInv /\ CurrentMemory /\ [Next]_vars => CurrentMemory'
  BY MemoryNext
<1>3. IInv /\ CurrentMemory => RestartRebuildsRecovery
  <2> SUFFICES ASSUME IInv, CurrentMemory PROVE RestartRebuildsRecovery
    OBVIOUS
  <2> DEFINE j == db.journal
  <2>1. Scannable(db) /\ MemoryMatches(db, recovery)
    BY DEF CurrentMemory
  <2>2. ASSUME NEW a \in OpenAttempts(j), Restores(j, a) \cup Acks(j, a) # {}
        PROVE  RebuiltCheckpoint(db, a) = db.last
    <3>1. CASE Restores(j, a) # {}
      <4>1. (CHOOSE e \in Restores(j, a) : TRUE) \in Restores(j, a)
        BY <3>1
      <4> QED BY <3>1, <4>1 DEF IInv, RolledBackExactly, RebuiltCheckpoint
    <3>2. CASE Restores(j, a) = {}
      BY <2>2, <3>2 DEF RebuiltCheckpoint, Acks
    <3> QED BY <3>1, <3>2
  <2>3. ScanSucceeds(db)
    <3>1. ASSUME NEW a \in OpenAttempts(j), NEW e \in Acks(j, a)
          PROVE  /\ e.cp = RebuiltCheckpoint(db, a) /\ e.cp # None
                 /\ e.expected = e.resulting
                 /\ \A x \in Acks(j, a) : MutationId(x) = MutationId(e) => x = e
      <4>1. /\ e.cp = db.last /\ db.last # None /\ e.expected = e.resulting
            /\ \A x \in Acks(j, a) : x.kind = e.kind /\ x.slot = e.slot => x = e
        BY <2>1 DEF Scannable, AcksMatch
      <4>2. RebuiltCheckpoint(db, a) = db.last
        BY <2>2
      <4>3. \A x \in Acks(j, a) : MutationId(x) = <<x.kind, x.attempt, x.slot>>
        BY DEF Acks, Receipts, OfKind, MutationId
      <4>4. \A x \in Acks(j, a) : MutationId(x) = MutationId(e) => x = e
        BY <4>1, <4>3
      <4> QED BY <4>1, <4>2, <4>4
    <3>2. \A a \in OpenAttempts(j) :
            Receipts(j, "RecoverySnapshotApplied", a) # {} => Restores(j, a) # {}
      BY <2>1 DEF Scannable, AcksMatch
    <3>3. BeginsOrdered(db) /\ RestoresMatch(db)
      BY <2>1 DEF Scannable
    <3> QED BY <3>1, <3>2, <3>3 DEF ScanSucceeds, BeginsOrdered, RestoresMatch, Acks
  <2>4. ASSUME recovery # None
        PROVE  /\ OpenAttempts(j) = {recovery.attempt}
               /\ LET rebuilt == Rebuild(db) IN
                  /\ rebuilt.restore = recovery.restore
                  /\ rebuilt.durableLoaded = recovery.durableLoaded
                  /\ rebuilt.durableApplied = recovery.durableApplied
                  /\ rebuilt.checkpoint \in {None, recovery.checkpoint}
    <3> DEFINE a == recovery.attempt
    <3>1. OpenAttempts(j) = {a}
      BY <2>4 DEF IInv, OneAttempt, RecoveryIsOpen
    <3>2. /\ Rebuild(db).restore = RebuiltRestore(j, a)
          /\ Rebuild(db).durableLoaded = Receivers(j, "RecoveryLoaded", a)
          /\ Rebuild(db).durableApplied = Receivers(j, "RecoverySnapshotApplied", a)
          /\ Rebuild(db).checkpoint = RebuiltCheckpoint(db, a)
      BY <3>1, RebuildFields
    <3>3. RebuiltCheckpoint(db, a) \in {None, recovery.checkpoint}
      <4>1. CASE Restores(j, a) \cup Acks(j, a) = {}
        BY <4>1 DEF RebuiltCheckpoint, Acks
      <4>2. CASE Restores(j, a) \cup Acks(j, a) # {}
        <5>1. RebuiltCheckpoint(db, a) = db.last
          BY <2>2, <3>1, <4>2
        <5>2. recovery.checkpoint = db.last
          BY <2>1, <2>4, <4>2 DEF MemoryMatches, IInv, RecoveryIsOpen
        <5> QED BY <5>1, <5>2
      <4> QED BY <4>1, <4>2
    <3> QED BY <2>1, <2>4, <3>1, <3>2, <3>3 DEF MemoryMatches
  <2> QED BY <2>3, <2>4 DEF RestartRebuildsRecovery
<1> QED BY <1>1, <1>2, <1>3, Invariance, PTL DEF Spec

-----------------------------------------------------------------------------
(***************************************************************************)
(* Pending loads and lost members, when no store call fails.                *)
(***************************************************************************)
\* A request waits only in front of an idle, incomplete campaign, and a
\* checkpoint is in progress only in front of the whole roster.
LoadsWait ==
  /\ pendingLoad => /\ recovery = None /\ OpenAttempts(db.journal) = {}
                    /\ active = None /\ present # Slots
  /\ active # None => present = Slots

\* Every handler keeps requests waiting.
LEMMA LoadsWaitNext ==
  ASSUME ~StoreMayFail, IInv, LoadsWait, [Next]_vars
  PROVE  LoadsWait'
<1> USE DEF LoadsWait
<1>1. /\ Rec = None => recovery = None /\ OpenAttempts(db.journal) = {}
      /\ Rec # None => Rec.stage \in {"RecoveryLock", "LoadingNativeSaves", "ApplyingSnapshot"}
      /\ present \subseteq Slots
      /\ Rec # None => active = None /\ pendingLoad = FALSE
  BY RecFacts DEF Rec, RecoveryActivity, IInv, TypeOK, CheckpointInProgress
<1>2. ASSUME UNCHANGED <<db, recovery, present, pendingLoad>>, active' \in {active, None}
      PROVE  LoadsWait'
  BY <1>2
<1>3. ASSUME pendingLoad' = FALSE, active' = None PROVE LoadsWait'
  BY <1>3
<1>4. ASSUME NEW s \in Slots, NEW ready \in BOOLEAN, OnSetReady(s, ready)
      PROVE  LoadsWait'
  <2> DEFINE e == Entry("SetReady", db.revision, db.revision + 1, 0, s, None, 0)
  <2>1. /\ Rec = None /\ UNCHANGED <<active, recovery, present, pendingLoad>>
        /\ db'.journal = db.journal \cup {e}
    BY <1>4, ReadyFields DEF OnSetReady, MutationFence, IInv, TypeOK
  <2>2. e.kind = "SetReady"
    BY EntryFields
  <2> HIDE DEF e
  <2>3. OpenAttempts(db'.journal) = OpenAttempts(db.journal)
    BY <2>1, <2>2, BenignEntry
  <2> QED BY <2>1, <2>3
<1>5. ASSUME NEW s \in Slots, NEW cp \in CheckpointIds, NEW sent \in BOOLEAN,
             OnCheckpointRequest(s, cp, sent)
      PROVE  LoadsWait'
  <2>1. /\ CurrentState = "ACTIVE" /\ UNCHANGED <<recovery, present, pendingLoad>>
    BY <1>5 DEF OnCheckpointRequest
  <2>2. present = Slots
    BY <2>1 DEF CurrentState, RuntimeState, FullRoster
  <2> QED BY <2>1, <2>2
<1>6. ASSUME NEW s \in Slots, NEW cp \in CheckpointIds, NEW art \in Artifacts,
             OnCheckpointSaveResult(s, cp, art)
      PROVE  LoadsWait'
  <2>1. /\ active = cp /\ cp # None /\ active' \in {active, None}
        /\ UNCHANGED <<recovery, present, pendingLoad>>
    BY <1>6, NoneAssumption DEF OnCheckpointSaveResult
  <2> QED BY <2>1
<1>7. ASSUME NEW s \in Slots, NEW restore \in BOOLEAN, OnResume(s, restore)
      PROVE  LoadsWait'
  <2> DEFINE pres == present \cup {s}
             state == RuntimeState(Rec, active, pres)
             wanted == LoadWanted(s, restore, state)
  <2>1. CASE OpenRecovery /\ pendingLoad' = FALSE
    BY <1>3, <2>1 DEF OpenRecovery
  <2>2. CASE /\ ~(wanted /\ state = "ACTIVE")
             /\ recovery' = PrepareRecovery(Rec, db, pres)
             /\ pendingLoad' = wanted /\ UNCHANGED <<db, active>>
    <3>1. present' = pres
      BY <1>7 DEF OnResume
    <3>2. active' # None => present' = Slots
      BY <1>1, <2>2, <3>1
    <3>3. ASSUME wanted
          PROVE  /\ recovery' = None /\ OpenAttempts(db'.journal) = {}
                 /\ active' = None /\ present' # Slots
      <4>1. /\ pendingLoad \/ s \notin present
            /\ state \notin {"RECOVERY_LOCK", "RESTORING_CHECKPOINT", "ACTIVE"}
        BY <2>2, <3>3 DEF LoadWanted
      <4>2. Rec = None
        BY <1>1, <4>1 DEF RuntimeState
      <4>3. active = None
        BY <4>1
      <4>4. present' # Slots
        BY <3>1, <4>1, <4>2, <4>3 DEF RuntimeState, FullRoster
      <4> QED BY <1>1, <2>2, <4>2, <4>3, <4>4 DEF PrepareRecovery
    <3> QED BY <2>2, <3>2, <3>3
  <2> QED BY <1>7, <2>1, <2>2 DEF OnResume
<1>8. ASSUME NEW s \in Slots, OnPlayerLeave(s) PROVE LoadsWait'
  <2>1. s \in present /\ present' = present \ {s} /\ pendingLoad' = pendingLoad
    BY <1>8 DEF OnPlayerLeave
  <2>2. CASE Rec # None /\ UNCHANGED <<db, active>>
    BY <1>1, <2>1, <2>2
  <2>3. CASE CurrentState \in {"ACTIVE", "CHECKPOINTING"} /\ OpenRecovery
    <3>1. Rec = None /\ (active # None \/ present = Slots)
      BY <1>1, <2>3 DEF CurrentState, RuntimeState, FullRoster
    <3> QED BY <2>1, <2>3, <3>1 DEF OpenRecovery
  <2>4. CASE /\ Rec = None /\ CurrentState = "WAITING_FOR_ROSTER"
             /\ UNCHANGED <<db, active, recovery>>
    <3>1. active = None
      BY <2>4 DEF CurrentState, RuntimeState
    <3> QED BY <1>1, <2>1, <2>4, <3>1
  <2> QED BY <1>8, <2>2, <2>3, <2>4 DEF OnPlayerLeave
<1>9. ASSUME Rec # None, UNCHANGED <<active, present, pendingLoad>> PROVE LoadsWait'
  BY <1>1, <1>9
<1>10. ASSUME NEW s \in Slots, OnRecoveryLoadedResult(s) PROVE LoadsWait'
  BY <1>9, <1>10 DEF OnRecoveryLoadedResult
<1>11. ASSUME NEW s \in Slots, OnRecoverySnapshotApplied(s) PROVE LoadsWait'
  BY <1>9, <1>11 DEF OnRecoverySnapshotApplied
<1>12. ASSUME NEW s \in Slots, OnCheckpointSaveFailed(s) PROVE LoadsWait'
  BY <1>2, <1>12 DEF OnCheckpointSaveFailed
<1>13. CASE ServerRestart
  BY <1>3, <1>13 DEF ServerRestart
<1>14. CASE UNCHANGED vars
  BY <1>2, <1>14 DEF vars
<1> QED BY <1>4, <1>5, <1>6, <1>7, <1>8, <1>10, <1>11, <1>12, <1>13, <1>14 DEF Next

LEMMA LoadsWaitMeans == LoadsWait => PendingLoadWaits
<1> SUFFICES ASSUME LoadsWait, pendingLoad PROVE CurrentState = "WAITING_FOR_ROSTER"
  BY DEF PendingLoadWaits
<1>1. Rec = None
  BY SMTT(60) DEF LoadsWait, Rec, Rebuild
<1>2. active = None /\ ~FullRoster(present)
  BY <1>1, ZenonT(60) DEF LoadsWait, FullRoster
<1> QED BY <1>1, <1>2 DEF LoadsWait, CurrentState, RuntimeState

\* A pending "load the committed checkpoint" never survives into play, as long
\* as no store call fails: whoever completes the roster turns it into a
\* recovery (OnResume, BeginCampaignLoadRecovery).
THEOREM PendingLoad == ASSUME ~StoreMayFail PROVE Spec => []PendingLoadWaits
<1>1. Init => LoadsWait
  BY DEF Init, LoadsWait
<1>2. IInv /\ LoadsWait /\ [Next]_vars => LoadsWait'
  BY LoadsWaitNext
<1> QED BY <1>1, <1>2, LoadsWaitMeans, Invariance, PTL DEF Spec

\* Losing a member of a campaign in play opens an attempt in the journal.
LEMMA LossOpens ==
  ASSUME ~StoreMayFail, IInv, [Next]_vars, CurrentState \in {"ACTIVE", "CHECKPOINTING"},
         present' \subseteq present, present' # present
  PROVE  ServerRestart \/ OpenAttempts(db'.journal) # {}
<1>1. Rec = None /\ IInv'
  BY RecFacts, NextOK DEF CurrentState, RuntimeState, RecoveryActivity
<1>2. ASSUME NEW s \in Slots, OnPlayerLeave(s)
      PROVE  OpenAttempts(db'.journal) # {}
  <2>1. recovery' = OpenedAttempt(db)
    BY <1>1, <1>2 DEF OnPlayerLeave
  <2>2. recovery' # None
    BY <2>1, OpenedFacts, NoRecoveryAssumption DEF IInv, TypeOK
  <2> QED BY <1>1, <2>2 DEF IInv, RecoveryIsOpen
<1>3. ASSUME NEW s \in Slots, NEW restore \in BOOLEAN, OnResume(s, restore)
      PROVE  FALSE
  BY <1>3 DEF OnResume
<1> QED BY <1>2, <1>3
        DEF Next, vars, OnSetReady, OnCheckpointRequest, OnCheckpointSaveResult,
            OnCheckpointSaveFailed, OnRecoveryLoadedResult, OnRecoverySnapshotApplied

\* A member lost in the middle of play leaves a durable open attempt behind, as
\* long as no store call fails: Disconnect does not forget to lock.
THEOREM LossLocks == ASSUME ~StoreMayFail PROVE Spec => LossLocksCampaign
<1>1. IInv /\ [Next]_vars =>
        [/\ CurrentState \in {"ACTIVE", "CHECKPOINTING"}
         /\ present' \subseteq present /\ present' # present
         => ServerRestart \/ OpenAttempts(db'.journal) # {}]_vars
  BY LossOpens
<1> QED BY <1>1, Invariance, PTL DEF Spec, LossLocksCampaign
=============================================================================
