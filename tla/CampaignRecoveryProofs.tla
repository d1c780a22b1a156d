------------------------ MODULE CampaignRecoveryProofs ------------------------
(***************************************************************************)
(* Proofs about the collective recovery end to end, for every roster, every *)
(* number of faults, and with a store that may fail.  What is in flight is  *)
(* half of the argument: the invariant relates each client to its two       *)
(* queues and to the attempts the journal says are open or completed.       *)
(***************************************************************************)
EXTENDS CampaignRecovery, CampaignHistoryProofs, FiniteSetTheorems

-----------------------------------------------------------------------------
(***************************************************************************)
(* Shapes.                                                                  *)
(***************************************************************************)
ClientState ==
  [stage: {"Idle", "RecoveryLocked", "LoadingNativeSave", "NativeSaveLoaded",
           "SnapshotApplied", "Completed", "Failed"},
   authoritative: BOOLEAN, protect: BOOLEAN, wantsRestore: BOOLEAN,
   attempt: Nat, checkpoint: CheckpointIds \cup {None}, restore: Nat]

RuntimeStates == {"RECOVERY_LOCK", "RESTORING_CHECKPOINT", "CHECKPOINTING",
                  "ACTIVE", "WAITING_FOR_ROSTER"}

\* Packets to a client.
Snapshots == [type: {"Snapshot"}, state: RuntimeStates]
Loads == [type: {"Load"}, attempt: Nat, cp: CheckpointIds \cup {None}]
Restoreds == [type: {"Restored"}, attempt: Nat, cp: CheckpointIds \cup {None},
              restore: Nat]
Completes == [type: {"Complete"}, attempt: Nat, cp: CheckpointIds \cup {None},
              restore: Nat]
ClientPackets == Snapshots \cup Loads \cup Restoreds \cup Completes

\* Packets to the server.
Resumes == [type: {"Resume"}, restore: BOOLEAN]
Loadeds == [type: {"Loaded"}, attempt: Nat, cp: CheckpointIds \cup {None},
            ok: BOOLEAN]
Applieds == [type: {"Applied"}, attempt: Nat, cp: CheckpointIds \cup {None},
             restore: Nat]
ServerPackets == Resumes \cup Loadeds \cup Applieds

NetTypeOK ==
  /\ client \in [Slots -> ClientState]
  /\ DOMAIN world = Slots
  /\ link \in [Slots -> {"up", "lost", "down"}]
  /\ toClient \in [Slots -> Seq(ClientPackets)]
  /\ toServer \in [Slots -> Seq(ServerPackets)]

-----------------------------------------------------------------------------
(***************************************************************************)
(* The invariant, slot by slot.  done is the set of completed attempts.     *)
(***************************************************************************)
Done(j) == Attempts(j, "CompleteRecovery")

Locking(m) ==
  \/ m.type = "Load"
  \/ m.type = "Snapshot" /\ m.state \in {"RECOVERY_LOCK", "RESTORING_CHECKPOINT"}
Releasing(m) == m.type = "Complete" \/ (m.type = "Snapshot" /\ m.state = "ACTIVE")

\* Behind the fence: a client that plays is about to be locked, and what could
\* release it is overtaken by a lock.
Fenced(c, q) ==
  /\ Playing(c) => \E i \in DOMAIN q : Locking(q[i])
  /\ \A i \in DOMAIN q : Releasing(q[i]) => \E k \in DOMAIN q : k > i /\ Locking(q[k])

\* The client stands in the world it says it has loaded, is released only from
\* a completed attempt, and has been through a completed attempt it names.
ClientOK(c, w, done) ==
  /\ c.stage = "Completed" => c.attempt \in done
  /\ c.attempt \in done => c.stage \in {"SnapshotApplied", "Completed"}
  /\ c.stage \in {"NativeSaveLoaded", "SnapshotApplied"} => w = c.checkpoint

\* What is on its way to the client: completions of completed attempts only,
\* and no load request for an attempt the client has left or will leave first.
InboxOK(c, q, done) ==
  \A i \in DOMAIN q :
    /\ q[i].type = "Complete" => q[i].attempt \in done
    /\ q[i].type = "Load" =>
         /\ ~(c.stage = "Completed" /\ c.attempt = q[i].attempt)
         /\ q[i].attempt \in done =>
              c.stage = "SnapshotApplied" /\ c.attempt = q[i].attempt
         /\ \A k \in DOMAIN q :
              k < i /\ q[k].type = "Complete" => q[k].attempt # q[i].attempt

\* Client c applied the snapshot of attempt a and, as long as its transport is
\* the one it said so on, still stands there.
Stands(c, l, a, cp) ==
  /\ c.attempt = a => c.stage = "SnapshotApplied"
  /\ l = "up" => c.stage = "SnapshotApplied" /\ c.attempt = a /\ c.checkpoint = cp

\* Acknowledgements on their way to the server are true.
OutboxOK(c, l, q, done) ==
  \A i \in DOMAIN q :
    q[i].type = "Applied" /\ q[i].attempt \notin done \cup {0} =>
      Stands(c, l, q[i].attempt, q[i].cp)

\* So are the ones the second barrier has counted.
CountedOK(c, l, s, rec) ==
  rec # None /\ s \in rec.applied =>
    rec.stage = "ApplyingSnapshot" /\ Stands(c, l, rec.attempt, rec.checkpoint)

\* Connections: nothing is in flight to a client the server does not serve.
LinkOK(l, here, in, out) ==
  /\ l = "down" => ~here /\ out = <<>>
  /\ ~(here /\ l = "up") => in = <<>>

SlotOK(s) ==
  LET done == Done(db.journal) IN
  /\ ClientOK(client[s], world[s], done)
  /\ InboxOK(client[s], toClient[s], done)
  /\ OutboxOK(client[s], link[s], toServer[s], done)
  /\ CountedOK(client[s], link[s], s, recovery)
  /\ LinkOK(link[s], s \in present, toClient[s], toServer[s])
  /\ s \in present /\ link[s] = "up" /\ OpenAttempts(db.journal) # {} =>
       Fenced(client[s], toClient[s])

\* The server's own invariants.
ServerOK == IInv /\ CurrentBarriers /\ CurrentMemory

NetInv ==
  /\ ServerOK
  /\ 0 \notin Done(db.journal)
  /\ NetTypeOK
  /\ \A s \in Slots : SlotOK(s)

-----------------------------------------------------------------------------
(***************************************************************************)
(* Queues.                                                                  *)
(***************************************************************************)
\* Taking the oldest packet.
LEMMA TailElems ==
  ASSUME NEW S, NEW q \in Seq(S), q # <<>>
  PROVE  /\ Tail(q) \in Seq(S)
         /\ 1 \in DOMAIN q /\ Head(q) = q[1] /\ Head(q) \in S
         /\ \A i \in DOMAIN Tail(q) :
              i \in Nat /\ i + 1 \in DOMAIN q /\ Tail(q)[i] = q[i + 1]
         /\ \A i \in DOMAIN q : i # 1 =>
              i - 1 \in DOMAIN Tail(q) /\ Tail(q)[i - 1] = q[i]
<1>1. Len(q) \in Nat /\ Len(q) > 0 /\ DOMAIN q = 1..Len(q)
  OBVIOUS
<1>2. /\ Tail(q) \in Seq(S) /\ Len(Tail(q)) = Len(q) - 1
      /\ DOMAIN Tail(q) = 1..(Len(q) - 1)
      /\ \A i \in 1..(Len(q) - 1) : Tail(q)[i] = q[i + 1]
  OBVIOUS
<1>3. Head(q) = q[1] /\ q[1] \in S
  BY <1>1
<1>4. \A i \in 1..(Len(q) - 1) : i \in Nat /\ i + 1 \in 1..Len(q)
  BY <1>1
<1>5. ASSUME NEW i \in DOMAIN q, i # 1
      PROVE  i - 1 \in DOMAIN Tail(q) /\ Tail(q)[i - 1] = q[i]
  <2>1. i - 1 \in 1..(Len(q) - 1) /\ (i - 1) + 1 = i
    BY <1>1, <1>5
  <2> QED BY <1>2, <2>1
<1> QED BY <1>1, <1>2, <1>3, <1>4, <1>5

\* Appending packets.
LEMMA ConcatElems ==
  ASSUME NEW S, NEW q \in Seq(S), NEW r \in Seq(S)
  PROVE  /\ q \o r \in Seq(S)
         /\ \A i \in DOMAIN q : i \in DOMAIN (q \o r) /\ (q \o r)[i] = q[i]
         /\ \A k \in DOMAIN r :
              Len(q) + k \in DOMAIN (q \o r) /\ (q \o r)[Len(q) + k] = r[k]
         /\ \A i \in DOMAIN (q \o r) : i \notin DOMAIN q =>
              i - Len(q) \in DOMAIN r /\ (q \o r)[i] = r[i - Len(q)]
<1>1. /\ Len(q) \in Nat /\ Len(r) \in Nat /\ DOMAIN q = 1..Len(q)
      /\ DOMAIN r = 1..Len(r)
  OBVIOUS
<1>2. /\ q \o r \in Seq(S) /\ DOMAIN (q \o r) = 1..(Len(q) + Len(r))
      /\ \A i \in 1..(Len(q) + Len(r)) :
           (q \o r)[i] = IF i <= Len(q) THEN q[i] ELSE r[i - Len(q)]
  OBVIOUS
<1> DEFINE n == q \o r
<1> HIDE DEF n
<1>3. \A i \in DOMAIN q : i \in 1..(Len(q) + Len(r)) /\ i <= Len(q)
  BY <1>1
<1>4. ASSUME NEW k \in DOMAIN r
      PROVE  Len(q) + k \in DOMAIN n /\ n[Len(q) + k] = r[k]
  <2> DEFINE x == Len(q) + k
  <2>1. x \in 1..(Len(q) + Len(r)) /\ ~(x <= Len(q)) /\ x - Len(q) = k
    BY <1>1
  <2> HIDE DEF x
  <2>2. x \in DOMAIN n /\ n[x] = r[k]
    BY <1>2, <2>1 DEF n
  <2> QED BY <2>2 DEF x
<1>5. ASSUME NEW i \in DOMAIN n, i \notin DOMAIN q
      PROVE  i - Len(q) \in DOMAIN r /\ n[i] = r[i - Len(q)]
  <2>1. i \in 1..(Len(q) + Len(r)) /\ ~(i <= Len(q)) /\ i - Len(q) \in 1..Len(r)
    BY <1>1, <1>2, <1>5 DEF n
  <2> QED BY <1>1, <1>2, <2>1 DEF n
<1> QED BY <1>2, <1>3, <1>4, <1>5 DEF n

\* What is left of a queue when its end is lost.
LEMMA PrefixElems ==
  ASSUME NEW S, NEW q \in Seq(S), NEW n \in 0..Len(q)
  PROVE  /\ SubSeq(q, 1, n) \in Seq(S)
         /\ \A i \in DOMAIN SubSeq(q, 1, n) :
              i \in DOMAIN q /\ SubSeq(q, 1, n)[i] = q[i]
<1>1. Len(q) \in Nat /\ DOMAIN q = 1..Len(q) /\ n \in Nat /\ n <= Len(q)
  OBVIOUS
<1>2. /\ DOMAIN SubSeq(q, 1, n) = 1..n
      /\ \A i \in 1..n : SubSeq(q, 1, n)[i] = q[i]
  BY <1>1
<1>3. SubSeq(q, 1, n) \in Seq(S)
  BY <1>1
<1> QED BY <1>1, <1>2, <1>3

-----------------------------------------------------------------------------
(***************************************************************************)
(* The client state machine.                                                *)
(***************************************************************************)
\* The fields a client state has.
LEMMA ClientFields ==
  ASSUME NEW c \in ClientState
  PROVE  /\ c.stage \in {"Idle", "RecoveryLocked", "LoadingNativeSave",
                         "NativeSaveLoaded", "SnapshotApplied", "Completed", "Failed"}
         /\ c.authoritative \in BOOLEAN /\ c.protect \in BOOLEAN
         /\ c.wantsRestore \in BOOLEAN /\ c.attempt \in Nat
         /\ c.checkpoint \in CheckpointIds \cup {None} /\ c.restore \in Nat
BY DEF ClientState

\* n is c but for what the flags say.
SameCorrelation(c, n) ==
  n.stage = c.stage /\ n.attempt = c.attempt /\ n.checkpoint = c.checkpoint

\* n is a fresh lock.
FreshLock(n) == n.stage = "RecoveryLocked" /\ n.attempt = 0 /\ n.checkpoint = None

\* Lock forgets a finished recovery and keeps any other.
LEMMA LockFacts ==
  ASSUME NEW c \in ClientState, NEW b \in BOOLEAN
  PROVE  /\ Lock(c, b) \in ClientState
         /\ Playing(c) => FreshLock(Lock(c, b))
         /\ ~Playing(c) => SameCorrelation(c, Lock(c, b))
<1>1. CASE Playing(c)
  <2> DEFINE n == [c EXCEPT !.stage = "RecoveryLocked", !.authoritative = b,
                            !.attempt = 0, !.checkpoint = None, !.restore = 0]
  <2>1. Lock(c, b) = n
    BY <1>1 DEF Lock, Playing
  <2>2. n \in ClientState /\ FreshLock(n)
    BY DEF ClientState, FreshLock
  <2> QED BY <1>1, <2>1, <2>2
<1>2. CASE ~Playing(c)
  <2> DEFINE x == c.authoritative \/ b
             n == [c EXCEPT !.authoritative = x]
  <2>1. Lock(c, b) = n
    BY <1>2 DEF Lock, Playing
  <2>2. x \in BOOLEAN
    OBVIOUS
  <2> HIDE DEF x
  <2>3. n \in ClientState /\ SameCorrelation(c, n)
    BY <2>2 DEF ClientState, SameCorrelation
  <2> QED BY <1>2, <2>1, <2>3
<1> QED BY <1>1, <1>2

\* Everything a packet m can do to the correlation of a client.
Moves(c, m, n) ==
  /\ n \in ClientState
  /\ Locking(m) => ~Playing(n)
  /\ Playing(n) => Playing(c) \/ Releasing(m)
  /\ c.stage = "SnapshotApplied" =>
       /\ n.attempt = c.attempt /\ n.checkpoint = c.checkpoint
       /\ \/ n.stage = "SnapshotApplied"
          \/ n.stage = "Completed" /\ m.type = "Complete" /\ m.attempt = c.attempt
  /\ c.stage = "Completed" =>
       \/ SameCorrelation(c, n)
       \/ n.attempt = 0 /\ n.stage = "RecoveryLocked"
       \/ m.type = "Load" /\ n.attempt = m.attempt /\ n.stage = "LoadingNativeSave"
  /\ n.stage \in {"NativeSaveLoaded", "SnapshotApplied"} =>
       /\ c.stage \in {"NativeSaveLoaded", "SnapshotApplied"}
       /\ n.attempt = c.attempt /\ n.checkpoint = c.checkpoint
  /\ n.stage = "Completed" =>
       /\ n.attempt = c.attempt
       /\ \/ c.stage = "Completed"
          \/ c.stage = "SnapshotApplied" /\ m.type = "Complete" /\ m.attempt = c.attempt
  /\ \/ n.attempt \in {0, c.attempt}
     \/ m.type = "Load" /\ n.attempt = m.attempt /\ c.stage # "SnapshotApplied"

\* A packet that leaves stage and correlation alone, or locks a free client.
LEMMA QuietMove ==
  ASSUME NEW c \in ClientState, NEW m, NEW n \in ClientState,
         SameCorrelation(c, n), ~Locking(m)
  PROVE  Moves(c, m, n)
BY DEF Moves, SameCorrelation, Playing

LEMMA LockMove ==
  ASSUME NEW c \in ClientState, NEW m, NEW n \in ClientState,
         IF Playing(c) THEN FreshLock(n) ELSE SameCorrelation(c, n)
  PROVE  Moves(c, m, n)
BY DEF Moves, SameCorrelation, FreshLock, Playing

\* OnCampaignSnapshot.
LEMMA SnapshotMove ==
  ASSUME NEW c \in ClientState, NEW m \in Snapshots
  PROVE  Moves(c, m, ClientSnapshot(c, m))
<1> DEFINE p == m.state # "WAITING_FOR_ROSTER"
           seen == [c EXCEPT !.protect = p]
           n == ClientSnapshot(c, m)
<1>0. m.type = "Snapshot" /\ m.state \in RuntimeStates
  BY DEF Snapshots
<1>1. p \in BOOLEAN
  OBVIOUS
<1>2. /\ n = CASE m.state = "ACTIVE" -> ObserveAuthoritativeActive(seen)
             [] m.state \in {"RECOVERY_LOCK", "RESTORING_CHECKPOINT"} ->
                  [Lock(seen, TRUE) EXCEPT !.wantsRestore = FALSE]
             [] OTHER -> seen
  BY DEF ClientSnapshot
<1> HIDE DEF p, n
<1>3. seen \in ClientState /\ SameCorrelation(c, seen)
      /\ seen.authoritative = c.authoritative
  BY <1>1 DEF ClientState, SameCorrelation
<1> HIDE DEF seen
<1>4. CASE m.state = "ACTIVE"
  <2>1. n = ObserveAuthoritativeActive(seen) /\ ~Locking(m) /\ Releasing(m)
    BY <1>0, <1>2, <1>4 DEF Locking, Releasing
  <2>2. CASE seen.stage = "RecoveryLocked" /\ seen.attempt = 0 /\ ~seen.authoritative
    <3> DEFINE a == seen.protect
               b == seen.wantsRestore
               i == [IdleClient EXCEPT !.protect = a, !.wantsRestore = b]
    <3>1. n = i
      BY <2>1, <2>2 DEF ObserveAuthoritativeActive
    <3>2. a \in BOOLEAN /\ b \in BOOLEAN
      BY <1>3, ClientFields
    <3> HIDE DEF a, b
    <3>3. i \in ClientState /\ i.stage = "Idle" /\ i.attempt = 0
      BY <3>2 DEF IdleClient, ClientState
    <3> HIDE DEF i
    <3>4. c.stage = "RecoveryLocked"
      BY <1>3, <2>2 DEF SameCorrelation
    <3>5. Moves(c, m, i)
      BY <2>1, <3>3, <3>4 DEF Moves, Playing
    <3> QED BY <3>1, <3>5 DEF n
  <2>3. CASE ~(seen.stage = "RecoveryLocked" /\ seen.attempt = 0 /\ ~seen.authoritative)
    <3>1. n = seen
      BY <2>1, <2>3 DEF ObserveAuthoritativeActive
    <3> QED BY <1>3, <2>1, <3>1, QuietMove DEF n
  <2> QED BY <2>2, <2>3
<1>5. CASE m.state \in {"RECOVERY_LOCK", "RESTORING_CHECKPOINT"}
  <2> DEFINE k == Lock(seen, TRUE)
  <2>1. n = [k EXCEPT !.wantsRestore = FALSE]
    BY <1>2, <1>5
  <2>2. /\ k \in ClientState
        /\ Playing(seen) => FreshLock(k)
        /\ ~Playing(seen) => SameCorrelation(seen, k)
    BY <1>3, LockFacts
  <2> HIDE DEF k
  <2>3. n \in ClientState /\ SameCorrelation(k, n)
    BY <2>1, <2>2 DEF ClientState, SameCorrelation
  <2>4. IF Playing(c) THEN FreshLock(n) ELSE SameCorrelation(c, n)
    BY <1>3, <2>2, <2>3 DEF SameCorrelation, FreshLock, Playing
  <2> QED BY <2>3, <2>4, LockMove DEF n
<1>6. CASE m.state \in {"CHECKPOINTING", "WAITING_FOR_ROSTER"}
  <2>1. n = seen /\ ~Locking(m)
    BY <1>0, <1>2, <1>6 DEF Locking
  <2> QED BY <1>3, <2>1, QuietMove DEF n
<1> QED BY <1>0, <1>4, <1>5, <1>6 DEF RuntimeStates

\* OnLoadRequest.
LEMMA LoadMove ==
  ASSUME NEW c \in ClientState, NEW m \in Loads
  PROVE  Moves(c, m, ObserveLoadRequest(Lock(c, TRUE), m))
<1> DEFINE k == Lock(c, TRUE)
           n == ObserveLoadRequest(k, m)
           l == [k EXCEPT !.stage = "LoadingNativeSave", !.attempt = m.attempt,
                          !.checkpoint = m.cp]
<1>0. /\ m.type = "Load" /\ m.attempt \in Nat
      /\ m.cp \in CheckpointIds \cup {None}
  BY DEF Loads
<1>1. /\ k \in ClientState
      /\ Playing(c) => FreshLock(k)
      /\ ~Playing(c) => SameCorrelation(c, k)
  BY LockFacts
<1>2. n = k \/ (n = l /\ k.stage \in {"RecoveryLocked", "Failed"})
  BY DEF ObserveLoadRequest
<1> HIDE DEF k, n
<1>3. /\ l \in ClientState /\ l.stage = "LoadingNativeSave"
      /\ l.attempt = m.attempt
  BY <1>0, <1>1 DEF ClientState
<1> HIDE DEF l
<1>4. CASE n = k
  BY <1>1, <1>4, LockMove DEF n, k
<1>5. CASE n = l /\ k.stage \in {"RecoveryLocked", "Failed"}
  <2>1. Moves(c, m, l)
    BY <1>0, <1>1, <1>3, <1>5 DEF Moves, SameCorrelation, FreshLock, Playing
  <2> QED BY <1>5, <2>1 DEF n, k
<1> QED BY <1>2, <1>4, <1>5

\* OnRecoverySnapshot.
LEMMA RestoredMove ==
  ASSUME NEW c \in ClientState, NEW m \in Restoreds
  PROVE  Moves(c, m, ObserveSnapshot(c, m))
<1> DEFINE n == [c EXCEPT !.stage = "SnapshotApplied", !.restore = m.restore]
<1>0. m.type = "Restored" /\ m.restore \in Nat /\ ~Locking(m)
  BY DEF Restoreds, Locking
<1>1. ObserveSnapshot(c, m) = c \/ (ObserveSnapshot(c, m) = n /\ c.stage = "NativeSaveLoaded")
  BY DEF ObserveSnapshot
<1>2. /\ n \in ClientState /\ n.stage = "SnapshotApplied"
      /\ n.attempt = c.attempt /\ n.checkpoint = c.checkpoint
  BY <1>0 DEF ClientState
<1> HIDE DEF n
<1>3. CASE ObserveSnapshot(c, m) = c
  BY <1>0, <1>3, QuietMove DEF SameCorrelation
<1>4. CASE ObserveSnapshot(c, m) = n /\ c.stage = "NativeSaveLoaded"
  <2>1. Moves(c, m, n)
    BY <1>0, <1>2, <1>4 DEF Moves, Playing
  <2> QED BY <1>4, <2>1
<1> QED BY <1>1, <1>3, <1>4

\* OnRecoveryComplete.
LEMMA CompleteMove ==
  ASSUME NEW c \in ClientState, NEW m \in Completes
  PROVE  Moves(c, m, ObserveComplete(c, m))
<1> DEFINE n == [c EXCEPT !.stage = "Completed", !.protect = TRUE, !.wantsRestore = FALSE]
           o == ObserveComplete(c, m)
<1>0. m.type = "Complete" /\ ~Locking(m) /\ Releasing(m)
  BY DEF Completes, Locking, Releasing
<1>1. o = c \/ (o = n /\ c.stage \in {"SnapshotApplied", "Completed"} /\ m.attempt = c.attempt)
  BY DEF ObserveComplete, MatchesBase
<1> HIDE DEF o
<1>2. /\ n \in ClientState /\ n.stage = "Completed"
      /\ n.attempt = c.attempt /\ n.checkpoint = c.checkpoint
  BY DEF ClientState
<1> HIDE DEF n
<1>3. CASE o = c
  BY <1>0, <1>3, QuietMove DEF SameCorrelation, o
<1>4. CASE o = n /\ c.stage \in {"SnapshotApplied", "Completed"} /\ m.attempt = c.attempt
  <2>1. Moves(c, m, n)
    BY <1>0, <1>2, <1>4 DEF Moves, Playing, SameCorrelation
  <2> QED BY <1>4, <2>1 DEF o
<1> QED BY <1>1, <1>3, <1>4

\* The four packets.
LEMMA PacketKinds ==
  ASSUME NEW m \in ClientPackets
  PROVE  /\ m.type = "Snapshot" <=> m \in Snapshots
         /\ m.type = "Load" <=> m \in Loads
         /\ m.type = "Restored" <=> m \in Restoreds
         /\ m.type = "Complete" <=> m \in Completes
BY DEF ClientPackets, Snapshots, Loads, Restoreds, Completes

LEMMA PacketMove ==
  ASSUME NEW c \in ClientState, NEW m \in ClientPackets
  PROVE  Moves(c, m, AfterPacket(c, m))
<1>1. CASE m \in Snapshots
  <2>1. AfterPacket(c, m) = ClientSnapshot(c, m)
    BY <1>1, PacketKinds DEF AfterPacket
  <2> QED BY <1>1, <2>1, SnapshotMove
<1>2. CASE m \in Loads
  <2>1. AfterPacket(c, m) = ObserveLoadRequest(Lock(c, TRUE), m)
    BY <1>2, PacketKinds DEF AfterPacket
  <2> QED BY <1>2, <2>1, LoadMove
<1>3. CASE m \in Restoreds
  <2>1. AfterPacket(c, m) = ObserveSnapshot(c, m)
    BY <1>3, PacketKinds DEF AfterPacket
  <2> QED BY <1>3, <2>1, RestoredMove
<1>4. CASE m \in Completes
  <2>1. AfterPacket(c, m) = ObserveComplete(c, m)
    BY <1>4, PacketKinds DEF AfterPacket
  <2> QED BY <1>4, <2>1, CompleteMove
<1> QED BY <1>1, <1>2, <1>3, <1>4 DEF ClientPackets

\* What a client sends back is true of the state it is in after the packet.
LEMMA AnswerFacts ==
  ASSUME NEW c \in ClientState, NEW m \in ClientPackets
  PROVE  LET n == AfterPacket(c, m) IN
         /\ Answer(c, m) \in Seq(ServerPackets)
         /\ \A i \in DOMAIN Answer(c, m) :
              LET a == Answer(c, m)[i] IN
              a.type = "Applied" =>
                /\ n.stage = "SnapshotApplied"
                /\ a.attempt = n.attempt /\ a.cp = n.checkpoint
<1> DEFINE n == AfterPacket(c, m)
           Truthful(q) ==
             /\ q \in Seq(ServerPackets)
             /\ \A i \in DOMAIN q :
                  q[i].type = "Applied" =>
                    /\ n.stage = "SnapshotApplied"
                    /\ q[i].attempt = n.attempt /\ q[i].cp = n.checkpoint
<1> SUFFICES Truthful(Answer(c, m))
  OBVIOUS
<1> HIDE DEF n
<1>1. Truthful(<<>>)
  OBVIOUS
<1>2. ASSUME NEW k \in ClientState PROVE Truthful(<<LoadedMsg(k, TRUE)>>)
  <2> DEFINE a == LoadedMsg(k, TRUE)
  <2>1. a \in Loadeds /\ a.type = "Loaded"
    BY ClientFields DEF LoadedMsg, Loadeds
  <2> HIDE DEF a
  <2>2. a \in ServerPackets
    BY <2>1 DEF ServerPackets
  <2>3. Truthful(<<a>>)
    BY <2>1, <2>2
  <2> QED BY <2>3 DEF a
<1>3. ASSUME NEW k \in ClientState, n.stage = "SnapshotApplied",
             k.attempt = n.attempt, k.checkpoint = n.checkpoint
      PROVE  Truthful(<<AppliedMsg(k)>>)
  <2> DEFINE a == AppliedMsg(k)
  <2>1. /\ a \in Applieds /\ a.attempt = n.attempt /\ a.cp = n.checkpoint
    BY <1>3, ClientFields DEF AppliedMsg, Applieds
  <2> HIDE DEF a
  <2>2. a \in ServerPackets
    BY <2>1 DEF ServerPackets
  <2>3. Truthful(<<a>>)
    BY <1>3, <2>1, <2>2
  <2> QED BY <2>3 DEF a
<1> HIDE DEF Truthful
<1>4. CASE m \in Snapshots
  <2>1. Answer(c, m) = SnapshotAnswer(c, m) /\ m.type = "Snapshot"
    BY <1>4, PacketKinds DEF Answer
  <2>2. CASE SnapshotAnswer(c, m) = <<>>
    BY <1>1, <2>1, <2>2
  <2>3. CASE c.stage = "SnapshotApplied" /\ SnapshotAnswer(c, m) = <<AppliedMsg(c)>>
    <3>1. /\ n.stage = "SnapshotApplied"
          /\ n.attempt = c.attempt /\ n.checkpoint = c.checkpoint
      BY <2>1, <2>3, PacketMove DEF Moves, n
    <3> QED BY <1>3, <2>1, <2>3, <3>1
  <2> QED BY <2>2, <2>3 DEF SnapshotAnswer
<1>5. CASE m \in Loads
  <2> DEFINE k == Lock(c, TRUE)
  <2>1. Answer(c, m) = LoadRequestAnswer(k, m) /\ k \in ClientState
    BY <1>5, PacketKinds, LockFacts DEF Answer
  <2> QED BY <1>1, <1>2, <2>1 DEF LoadRequestAnswer
<1>6. CASE m \in Restoreds
  <2>1. n = ObserveSnapshot(c, m) /\ n \in ClientState
    <3>1. n = ObserveSnapshot(c, m)
      BY <1>6, PacketKinds DEF AfterPacket, n
    <3> QED BY <3>1, PacketMove DEF Moves, n
  <2>2. \/ Answer(c, m) = <<>>
        \/ n.stage = "SnapshotApplied" /\ Answer(c, m) = <<AppliedMsg(n)>>
    BY <1>6, <2>1, PacketKinds DEF Answer
  <2> QED BY <1>1, <1>3, <2>1, <2>2
<1>7. CASE m \in Completes
  <2>1. Answer(c, m) = <<>>
    BY <1>7, PacketKinds DEF Answer
  <2> QED BY <1>1, <2>1
<1> QED BY <1>4, <1>5, <1>6, <1>7 DEF ClientPackets

-----------------------------------------------------------------------------
(***************************************************************************)
(* What a step does to one slot, in values.                                 *)
(***************************************************************************)
\* A released client plays on.
WorldAfter(n, w) == IF Playing(n) /\ w # "menu" THEN "played" ELSE w

\* The client takes the oldest packet.
LEMMA ReceiveOK ==
  ASSUME NEW c \in ClientState, NEW q \in Seq(ClientPackets), q # <<>>,
         NEW out \in Seq(ServerPackets), NEW done, 0 \notin done, NEW w, NEW s,
         NEW rec, rec # None => rec.attempt \notin done,
         ClientOK(c, w, done), InboxOK(c, q, done), OutboxOK(c, "up", out, done),
         CountedOK(c, "up", s, rec)
  PROVE  LET m == Head(q)
             n == AfterPacket(c, m)
         IN  /\ n \in ClientState
             /\ Tail(q) \in Seq(ClientPackets)
             /\ out \o Answer(c, m) \in Seq(ServerPackets)
             /\ ClientOK(n, WorldAfter(n, w), done)
             /\ InboxOK(n, Tail(q), done)
             /\ OutboxOK(n, "up", out \o Answer(c, m), done)
             /\ CountedOK(n, "up", s, rec)
             /\ Fenced(c, q) => Fenced(n, Tail(q))
<1> DEFINE m == Head(q)
           n == AfterPacket(c, m)
           r == Answer(c, m)
           t == Tail(q)
<1>1. /\ t \in Seq(ClientPackets)
      /\ 1 \in DOMAIN q /\ m = q[1] /\ m \in ClientPackets
      /\ \A i \in DOMAIN t : i \in Nat /\ i + 1 \in DOMAIN q /\ t[i] = q[i + 1]
      /\ \A i \in DOMAIN q : i # 1 => i - 1 \in DOMAIN t /\ t[i - 1] = q[i]
  BY TailElems
<1>2. Moves(c, m, n)
  BY <1>1, PacketMove
<1>3. /\ r \in Seq(ServerPackets)
      /\ \A i \in DOMAIN r : r[i].type = "Applied" =>
           /\ n.stage = "SnapshotApplied"
           /\ r[i].attempt = n.attempt /\ r[i].cp = n.checkpoint
  BY <1>1, AnswerFacts
<1>4. /\ m.type = "Complete" => m.attempt \in done
      /\ m.type = "Load" =>
           /\ ~(c.stage = "Completed" /\ c.attempt = m.attempt)
           /\ m.attempt \in done => c.stage = "SnapshotApplied" /\ c.attempt = m.attempt
  BY <1>1 DEF InboxOK
<1> HIDE DEF m, n, r, t
<1>5. ClientOK(n, WorldAfter(n, w), done)
  <2>1. n.stage = "Completed" => n.attempt \in done
    BY <1>2, <1>4 DEF Moves, ClientOK
  <2>2. n.attempt \in done => n.stage \in {"SnapshotApplied", "Completed"}
    <3>1. CASE n.attempt = c.attempt
      BY <1>2, <1>4, <3>1 DEF Moves, ClientOK, SameCorrelation
    <3>2. CASE n.attempt = 0
      BY <3>2
    <3>3. CASE m.type = "Load" /\ n.attempt = m.attempt /\ c.stage # "SnapshotApplied"
      BY <1>4, <3>3
    <3> QED BY <1>2, <3>1, <3>2, <3>3 DEF Moves
  <2>3. n.stage \in {"NativeSaveLoaded", "SnapshotApplied"} =>
          WorldAfter(n, w) = n.checkpoint
    BY <1>2 DEF Moves, ClientOK, WorldAfter, Playing
  <2> QED BY <2>1, <2>2, <2>3 DEF ClientOK
<1>6. ASSUME NEW a, NEW cp, a \notin done, Stands(c, "up", a, cp)
      PROVE  Stands(n, "up", a, cp)
  BY <1>2, <1>4, <1>6 DEF Moves, Stands
<1>7. CountedOK(n, "up", s, rec)
  BY <1>6 DEF CountedOK
<1>8. out \o r \in Seq(ServerPackets) /\ OutboxOK(n, "up", out \o r, done)
  <2>1. /\ out \o r \in Seq(ServerPackets)
        /\ \A i \in DOMAIN (out \o r) :
             \/ i \in DOMAIN out /\ (out \o r)[i] = out[i]
             \/ i - Len(out) \in DOMAIN r /\ (out \o r)[i] = r[i - Len(out)]
    BY <1>3, ConcatElems
  <2> DEFINE o == out \o r
  <2> HIDE DEF o
  <2>2. ASSUME NEW i \in DOMAIN o, o[i].type = "Applied", o[i].attempt \notin done \cup {0}
        PROVE  Stands(n, "up", o[i].attempt, o[i].cp)
    <3>1. CASE i \in DOMAIN out /\ o[i] = out[i]
      BY <1>6, <2>2, <3>1 DEF OutboxOK
    <3>2. CASE i - Len(out) \in DOMAIN r /\ o[i] = r[i - Len(out)]
      BY <1>3, <2>2, <3>2 DEF Stands
    <3> QED BY <2>1, <3>1, <3>2 DEF o
  <2>3. OutboxOK(n, "up", o, done)
    BY <2>2 DEF OutboxOK
  <2> QED BY <2>1, <2>3 DEF o
<1>9. InboxOK(n, t, done)
  <2> SUFFICES ASSUME NEW i \in DOMAIN t
               PROVE  /\ t[i].type = "Complete" => t[i].attempt \in done
                      /\ t[i].type = "Load" =>
                           /\ ~(n.stage = "Completed" /\ n.attempt = t[i].attempt)
                           /\ t[i].attempt \in done =>
                                n.stage = "SnapshotApplied" /\ n.attempt = t[i].attempt
                           /\ \A k \in DOMAIN t :
                                k < i /\ t[k].type = "Complete" => t[k].attempt # t[i].attempt
    BY DEF InboxOK
  <2>1. i \in Nat /\ i + 1 \in DOMAIN q /\ t[i] = q[i + 1] /\ 1 < i + 1
    <3>1. i \in Nat /\ i + 1 \in DOMAIN q /\ t[i] = q[i + 1] /\ i \in DOMAIN t
      BY <1>1
    <3>2. i > 0
      BY <1>1
    <3> QED BY <3>1, <3>2
  <2> DEFINE x == t[i]
  <2>2. /\ x.type = "Complete" => x.attempt \in done
        /\ x.type = "Load" =>
             /\ ~(c.stage = "Completed" /\ c.attempt = x.attempt)
             /\ x.attempt \in done => c.stage = "SnapshotApplied" /\ c.attempt = x.attempt
             /\ m.type = "Complete" => m.attempt # x.attempt
             /\ \A k \in DOMAIN q :
                  k < i + 1 /\ q[k].type = "Complete" => q[k].attempt # x.attempt
    BY <1>1, <2>1 DEF InboxOK
  <2>3. ASSUME NEW k \in DOMAIN t, k < i, t[k].type = "Complete", x.type = "Load"
        PROVE  t[k].attempt # x.attempt
    <3> DEFINE y == k + 1
    <3>1. y \in DOMAIN q /\ t[k] = q[y] /\ y < i + 1
      BY <1>1, <2>1, <2>3
    <3> HIDE DEF y, x
    <3> QED BY <2>2, <2>3, <3>1
  <2>4. x.type = "Load" =>
          /\ ~(n.stage = "Completed" /\ n.attempt = x.attempt)
          /\ x.attempt \in done => n.stage = "SnapshotApplied" /\ n.attempt = x.attempt
    <3> HIDE DEF x
    <3> QED BY <1>2, <2>2 DEF Moves
  <2> QED BY <2>2, <2>3, <2>4
<1>10. ASSUME Fenced(c, q) PROVE Fenced(n, t)
  <2>1. ASSUME NEW i \in DOMAIN q, i # 1, Locking(q[i])
        PROVE  \E k \in DOMAIN t : Locking(t[k])
    BY <1>1, <2>1
  <2>2. ASSUME Playing(n) PROVE \E k \in DOMAIN t : Locking(t[k])
    <3>1. ~Locking(m) /\ (Playing(c) \/ Releasing(m))
      BY <1>2, <2>2 DEF Moves
    <3>2. CASE Playing(c)
      BY <1>1, <1>10, <2>1, <3>1, <3>2 DEF Fenced
    <3>3. CASE Releasing(m)
      <4>1. PICK k \in DOMAIN q : k > 1 /\ Locking(q[k])
        BY <1>1, <1>10, <3>3 DEF Fenced
      <4> QED BY <2>1, <4>1
    <3> QED BY <3>1, <3>2, <3>3
  <2>3. ASSUME NEW i \in DOMAIN t, Releasing(t[i])
        PROVE  \E k \in DOMAIN t : k > i /\ Locking(t[k])
    <3> DEFINE x == i + 1
    <3>1. i \in Nat /\ x \in DOMAIN q /\ t[i] = q[x]
      BY <1>1
    <3>2. PICK k \in DOMAIN q : k > x /\ Locking(q[k])
      <4> HIDE DEF x
      <4> QED BY <1>10, <2>3, <3>1 DEF Fenced
    <3>3. k \in Nat
      OBVIOUS
    <3> DEFINE y == k - 1
    <3>4. k # 1 /\ y > i
      BY <3>1, <3>2, <3>3
    <3>5. y \in DOMAIN t /\ t[y] = q[k]
      BY <1>1, <3>4
    <3> HIDE DEF y
    <3> QED BY <3>2, <3>4, <3>5
  <2> QED BY <2>2, <2>3 DEF Fenced
<1> QED BY <1>1, <1>2, <1>5, <1>7, <1>8, <1>9, <1>10 DEF m, n, r, t, Moves

\* The server sends packets r while the completed attempts grow to more: load
\* requests for open attempts only, completions of completed ones only.
LEMMA InboxGrow ==
  ASSUME NEW c, NEW q \in Seq(ClientPackets), NEW r \in Seq(ClientPackets),
         NEW done, NEW more, done \subseteq more,
         InboxOK(c, q, done), c.stage = "Completed" => c.attempt \in done,
         \A i \in DOMAIN q :
           q[i].type = "Load" /\ q[i].attempt \in more \ done =>
             c.stage = "SnapshotApplied" /\ c.attempt = q[i].attempt,
         \A k \in DOMAIN r :
           /\ r[k].type = "Complete" => r[k].attempt \in more
           /\ r[k].type = "Load" => r[k].attempt \notin more
  PROVE  InboxOK(c, q \o r, more)
<1> DEFINE o == q \o r
<1>1. \A i \in DOMAIN o :
         \/ i \in DOMAIN q /\ o[i] = q[i]
         \/ i \notin DOMAIN q /\ i - Len(q) \in DOMAIN r /\ o[i] = r[i - Len(q)]
  BY ConcatElems
<1>2. DOMAIN q = 1..Len(q) /\ Len(q) \in Nat /\ DOMAIN o \subseteq Nat
  BY ConcatElems
<1> HIDE DEF o
<1>3. \A i \in DOMAIN o : o[i].type = "Complete" => o[i].attempt \in more
  BY <1>1 DEF InboxOK
<1>4. ASSUME NEW i \in DOMAIN o, o[i].type = "Load"
      PROVE  /\ ~(c.stage = "Completed" /\ c.attempt = o[i].attempt)
             /\ o[i].attempt \in more =>
                  c.stage = "SnapshotApplied" /\ c.attempt = o[i].attempt
             /\ \A k \in DOMAIN o :
                  k < i /\ o[k].type = "Complete" => o[k].attempt # o[i].attempt
  <2>1. CASE i \in DOMAIN q /\ o[i] = q[i]
    <3>1. \A k \in DOMAIN o : k < i => k \in DOMAIN q /\ o[k] = q[k]
      <4> SUFFICES ASSUME NEW k \in DOMAIN o, k < i PROVE k \in DOMAIN q /\ o[k] = q[k]
        OBVIOUS
      <4>1. k \in DOMAIN q \/ k - Len(q) \in DOMAIN r
        BY <1>1
      <4>2. k \in Nat /\ i <= Len(q) /\ k <= Len(q)
        BY <1>2, <2>1
      <4>3. k - Len(q) \notin DOMAIN r
        BY <1>2, <4>2
      <4> QED BY <1>1, <4>3
    <3> QED BY <1>4, <2>1, <3>1 DEF InboxOK
  <2>2. CASE i - Len(q) \in DOMAIN r /\ o[i] = r[i - Len(q)]
    <3>1. o[i].attempt \notin more
      BY <1>4, <2>2
    <3> QED BY <1>3, <3>1
  <2> QED BY <1>1, <2>1, <2>2
<1>5. InboxOK(c, o, more)
  BY <1>3, <1>4 DEF InboxOK
<1> QED BY <1>5 DEF o

\* Packets that release nobody leave the fence closed.
LEMMA FenceGrow ==
  ASSUME NEW c, NEW q \in Seq(ClientPackets), NEW r \in Seq(ClientPackets),
         Fenced(c, q), \A k \in DOMAIN r : ~Releasing(r[k])
  PROVE  Fenced(c, q \o r)
<1> DEFINE o == q \o r
<1>1. /\ \A i \in DOMAIN q : i \in DOMAIN o /\ o[i] = q[i]
      /\ \A i \in DOMAIN o : i \notin DOMAIN q => o[i] \in {r[k] : k \in DOMAIN r}
  BY ConcatElems
<1> HIDE DEF o
<1>2. Fenced(c, o)
  BY <1>1 DEF Fenced
<1> QED BY <1>2 DEF o

\* A lock closes the fence, whatever was in flight before it.
LEMMA FenceLock ==
  ASSUME NEW c, NEW q \in Seq(ClientPackets), NEW r \in Seq(ClientPackets),
         1 \in DOMAIN r, Locking(r[1]), \A k \in DOMAIN r : ~Releasing(r[k])
  PROVE  Fenced(c, q \o r)
<1> DEFINE o == q \o r
           x == Len(q) + 1
<1>1. /\ x \in DOMAIN o /\ o[x] = r[1]
      /\ \A i \in DOMAIN o : i \notin DOMAIN q => o[i] \in {r[k] : k \in DOMAIN r}
      /\ \A i \in DOMAIN q : x > i
  BY ConcatElems
<1> HIDE DEF o, x
<1>2. \A i \in DOMAIN o : Releasing(o[i]) => i \in DOMAIN q
  BY <1>1
<1>3. Fenced(c, o)
  BY <1>1, <1>2 DEF Fenced
<1> QED BY <1>3 DEF o

\* Handling, or losing, packets keeps what is left true.
LEMMA OutboxShrinks ==
  ASSUME NEW c, NEW l, NEW q \in Seq(ServerPackets), NEW done, NEW more,
         done \subseteq more, OutboxOK(c, l, q, done)
  PROVE  /\ OutboxOK(c, l, q, more)
         /\ q # <<>> => OutboxOK(c, l, Tail(q), more)
         /\ \A n \in 0..Len(q) : OutboxOK(c, l, SubSeq(q, 1, n), more)
<1>1. OutboxOK(c, l, q, more)
  BY DEF OutboxOK
<1>2. ASSUME q # <<>> PROVE OutboxOK(c, l, Tail(q), more)
  <2> DEFINE t == Tail(q)
  <2>1. \A i \in DOMAIN t : i + 1 \in DOMAIN q /\ t[i] = q[i + 1]
    BY <1>2, TailElems
  <2> HIDE DEF t
  <2>2. ASSUME NEW i \in DOMAIN t, t[i].type = "Applied", t[i].attempt \notin more \cup {0}
        PROVE  Stands(c, l, t[i].attempt, t[i].cp)
    <3> DEFINE x == i + 1
    <3>1. x \in DOMAIN q /\ t[i] = q[x]
      BY <2>1
    <3> HIDE DEF x
    <3> QED BY <1>1, <2>2, <3>1 DEF OutboxOK
  <2>3. OutboxOK(c, l, t, more)
    BY <2>2 DEF OutboxOK
  <2> QED BY <2>3 DEF t
<1>3. ASSUME NEW n \in 0..Len(q) PROVE OutboxOK(c, l, SubSeq(q, 1, n), more)
  <2> DEFINE t == SubSeq(q, 1, n)
  <2>1. \A i \in DOMAIN t : i \in DOMAIN q /\ t[i] = q[i]
    BY PrefixElems
  <2> HIDE DEF t
  <2>2. OutboxOK(c, l, t, more)
    BY <1>1, <2>1 DEF OutboxOK
  <2> QED BY <2>2 DEF t
<1> QED BY <1>1, <1>2, <1>3

\* OnDisconnected.
LEMMA DisconnectedFacts ==
  ASSUME NEW c \in ClientState
  PROVE  /\ Disconnected(c) \in ClientState
         /\ \/ SameCorrelation(c, Disconnected(c))
            \/ Disconnected(c).attempt = 0 /\ Disconnected(c).stage = "RecoveryLocked"
<1>1. /\ Lock(c, FALSE) \in ClientState
      /\ FreshLock(Lock(c, FALSE)) \/ SameCorrelation(c, Lock(c, FALSE))
  BY LockFacts
<1> QED BY <1>1 DEF Disconnected, FreshLock, SameCorrelation

\* A native load ends, in stage "NativeSaveLoaded" or "Failed".
LEMMA LoadEndOK ==
  ASSUME NEW c \in ClientState, c.stage = "LoadingNativeSave", NEW n, NEW l, NEW w, NEW v,
         NEW done, NEW q, NEW in, NEW s, NEW rec,
         n.attempt = c.attempt,
         \/ n.stage = "NativeSaveLoaded" /\ v = n.checkpoint
         \/ n.stage = "Failed",
         ClientOK(c, w, done), InboxOK(c, in, done), OutboxOK(c, l, q, done),
         CountedOK(c, l, s, rec)
  PROVE  /\ ClientOK(n, v, done)
         /\ InboxOK(n, in, done)
         /\ OutboxOK(n, l, q, done)
         /\ CountedOK(n, l, s, rec)
         /\ Fenced(c, in) => Fenced(n, in)
<1>1. ClientOK(n, v, done)
  BY DEF ClientOK
<1>2. InboxOK(n, in, done)
  BY DEF InboxOK
<1>3. ASSUME NEW a, NEW cp, Stands(c, l, a, cp) PROVE Stands(n, l, a, cp)
  BY <1>3 DEF Stands
<1>4. OutboxOK(n, l, q, done)
  BY <1>3 DEF OutboxOK
<1>5. CountedOK(n, l, s, rec)
  BY <1>3 DEF CountedOK
<1>6. Fenced(c, in) => Fenced(n, in)
  BY DEF Fenced, Playing
<1> QED BY <1>1, <1>2, <1>4, <1>5, <1>6

-----------------------------------------------------------------------------
(***************************************************************************)
(* What a handler of the server does to the attempts and the barriers.      *)
(***************************************************************************)
\* No row of the step completes an attempt.
NoCompletion(j, n) == j \subseteq n /\ \A e \in n \ j : e.kind # "CompleteRecovery"

\* Whoever the new attempt in memory counts, the old one counted; an attempt
\* past its restore keeps its identity.
KeepsCount(old, new) ==
  new # None => \A t \in new.applied :
    /\ old # None /\ t \in old.applied
    /\ old.stage = "ApplyingSnapshot" =>
         /\ new.stage = "ApplyingSnapshot"
         /\ new.attempt = old.attempt /\ new.checkpoint = old.checkpoint

LEMMA NoCompletionDone ==
  ASSUME NEW j, NEW n, NoCompletion(j, n)
  PROVE  Done(n) = Done(j)
<1>1. OfKind(n, "CompleteRecovery") = OfKind(j, "CompleteRecovery")
  BY DEF NoCompletion, OfKind
<1> QED BY <1>1 DEF Done, Attempts

LEMMA OneRow ==
  ASSUME NEW j, NEW e, e.kind # "CompleteRecovery"
  PROVE  NoCompletion(j, j \cup {e})
BY DEF NoCompletion

\* An open attempt is not completed, and none is number 0.
LEMMA OpenNotDone ==
  ASSUME ServerOK
  PROVE  /\ OpenAttempts(db.journal) \cap (Done(db.journal) \cup {0}) = {}
         /\ recovery # None => recovery.attempt \notin Done(db.journal) \cup {0}
         /\ Rec # None => Rec.attempt \notin Done(db.journal) \cup {0}
<1>1. ASSUME NEW b \in OfKind(db.journal, "BeginRecovery") PROVE b.attempt # 0
  <2>1. b \in JournalRecord
    BY DEF ServerOK, IInv, TypeOK, Database, OfKind
  <2>2. b.expected \in Nat
    BY <2>1 DEF JournalRecord
  <2>3. b.attempt = b.expected + 1
    BY DEF ServerOK, CurrentMemory, Scannable, BeginsOrdered
  <2> QED BY <2>2, <2>3
<1>2. OpenAttempts(db.journal) \cap (Done(db.journal) \cup {0}) = {}
  BY <1>1 DEF OpenAttempts, Attempts, Done
<1>3. /\ recovery # None => recovery.attempt \in OpenAttempts(db.journal)
      /\ Rec # None => Rec.attempt \in OpenAttempts(db.journal)
  BY RecFacts DEF ServerOK, IInv, RecoveryIsOpen
<1> QED BY <1>2, <1>3

\* The packets that tell a client where the campaign stands.
StatusPackets(rec, act, pres) == <<SnapshotMsg(RuntimeState(rec, act, pres))>> \o Dispatch(rec)

\* What the server sends closes the fence while an attempt is open, completes
\* nothing, and asks to load for an open attempt only.
SafeToSend(r, open) ==
  /\ r \in Seq(ClientPackets)
  /\ \A k \in DOMAIN r :
       /\ r[k].type # "Complete"
       /\ r[k].type = "Load" => r[k].attempt \in open
       /\ open # {} => ~Releasing(r[k])

LEMMA SnapshotSafe ==
  ASSUME NEW rec, NEW act, NEW pres, NEW open, rec # None => rec \in RecoveryActivity,
         rec = None => open = {}
  PROVE  LET r == <<SnapshotMsg(RuntimeState(rec, act, pres))>> IN
         /\ SafeToSend(r, open)
         /\ 1 \in DOMAIN r
         /\ open # {} => Locking(r[1])
<1> DEFINE state == RuntimeState(rec, act, pres)
           m == SnapshotMsg(state)
<1>1. /\ state \in RuntimeStates
      /\ rec # None => state \in {"RECOVERY_LOCK", "RESTORING_CHECKPOINT"}
  BY DEF RuntimeState, RuntimeStates
<1> HIDE DEF state
<1>2. m \in Snapshots /\ m.type = "Snapshot" /\ m.state = state
  BY <1>1 DEF SnapshotMsg, Snapshots
<1> HIDE DEF m
<1>3. m \in ClientPackets
  BY <1>2 DEF ClientPackets
<1>4. open # {} => Locking(m) /\ ~Releasing(m)
  BY <1>1, <1>2 DEF Locking, Releasing
<1>5. SafeToSend(<<m>>, open) /\ 1 \in DOMAIN <<m>> /\ <<m>>[1] = m
  BY <1>2, <1>3, <1>4 DEF SafeToSend
<1> QED BY <1>4, <1>5 DEF m, state

LEMMA StatusSafe ==
  ASSUME NEW rec, NEW act, NEW pres, NEW open, rec # None => rec \in RecoveryActivity,
         rec = None => open = {}, rec # None => rec.attempt \in open
  PROVE  LET r == StatusPackets(rec, act, pres) IN
         /\ SafeToSend(r, open)
         /\ 1 \in DOMAIN r
         /\ open # {} => Locking(r[1])
<1> DEFINE a == <<SnapshotMsg(RuntimeState(rec, act, pres))>>
           b == Dispatch(rec)
           o == a \o b
<1>1. SafeToSend(a, open) /\ 1 \in DOMAIN a /\ (open # {} => Locking(a[1]))
  BY SnapshotSafe
<1>2. SafeToSend(b, open)
  <2>1. CASE b = <<>>
    BY <2>1 DEF SafeToSend
  <2>2. CASE rec # None /\ rec.stage = "LoadingNativeSaves"
    <3> DEFINE m == [type |-> "Load", attempt |-> rec.attempt, cp |-> rec.checkpoint]
    <3>1. b = <<m>>
      BY <2>2 DEF Dispatch
    <3>2. m \in Loads /\ m.type = "Load" /\ m.attempt = rec.attempt
      BY <2>2 DEF Loads, RecoveryActivity
    <3> HIDE DEF m
    <3>3. m \in ClientPackets /\ ~Releasing(m)
      BY <3>2 DEF ClientPackets, Releasing
    <3> QED BY <2>2, <3>1, <3>2, <3>3 DEF SafeToSend
  <2>3. CASE rec # None /\ rec.stage = "ApplyingSnapshot"
    <3> DEFINE m == [type |-> "Restored", attempt |-> rec.attempt, cp |-> rec.checkpoint,
                     restore |-> rec.restore]
    <3>1. b = <<m>>
      BY <2>3 DEF Dispatch
    <3>2. m \in Restoreds /\ m.type = "Restored"
      BY <2>3 DEF Restoreds, RecoveryActivity
    <3> HIDE DEF m
    <3>3. m \in ClientPackets /\ ~Releasing(m)
      BY <3>2 DEF ClientPackets, Releasing
    <3> QED BY <3>1, <3>2, <3>3 DEF SafeToSend
  <2> QED BY <2>1, <2>2, <2>3 DEF Dispatch
<1> HIDE DEF a, b
<1>3. /\ o \in Seq(ClientPackets)
      /\ \A i \in DOMAIN a : i \in DOMAIN o /\ o[i] = a[i]
      /\ \A i \in DOMAIN o : i \notin DOMAIN a => o[i] \in {b[k] : k \in DOMAIN b}
  BY <1>1, <1>2, ConcatElems DEF SafeToSend
<1> HIDE DEF o
<1>4. SafeToSend(o, open)
  BY <1>1, <1>2, <1>3 DEF SafeToSend
<1>5. 1 \in DOMAIN o /\ (open # {} => Locking(o[1]))
  BY <1>1, <1>3
<1>6. StatusPackets(rec, act, pres) = o
  BY DEF StatusPackets, o, a, b
<1> QED BY <1>4, <1>5, <1>6

\* PrepareRecovery counts nobody new.
LEMMA PrepareCount ==
  ASSUME NEW rec \in RecoveryActivity, NEW d \in Database, NEW pres
  PROVE  KeepsCount(rec, PrepareRecovery(rec, d, pres))
<1>1. CASE PrepareRecovery(rec, d, pres) = rec
  BY <1>1, NoRecoveryAssumption DEF KeepsCount
<1>2. CASE CanPrepare(rec, d, pres) /\ rec # None
  <2> DEFINE cp == RollbackPoint(rec, d)
             l == IF rec.stage = "RecoveryLock" THEN {} ELSE rec.loaded
             m == IF rec.stage = "RecoveryLock" THEN {} ELSE rec.applied
             p == [rec EXCEPT !.stage = "LoadingNativeSaves",
                              !.checkpoint = cp, !.loaded = l, !.applied = m]
  <2>1. rec.stage # "ApplyingSnapshot" /\ m \subseteq rec.applied
    BY <1>2 DEF CanPrepare
  <2>2. PrepareRecovery(rec, d, pres) = p
    BY <1>2 DEF PrepareRecovery
  <2> HIDE DEF cp, l, m
  <2>3. p.applied = m
    BY DEF RecoveryActivity
  <2> HIDE DEF p
  <2> QED BY <1>2, <2>1, <2>2, <2>3 DEF KeepsCount
<1> QED BY <1>1, <1>2 DEF PrepareRecovery

\* The attempt a handler works with counts nobody the one in memory does not.
LEMMA RecCount ==
  ASSUME ServerOK, NEW new, Rec # None => KeepsCount(Rec, new), Rec = None => new = None
  PROVE  KeepsCount(recovery, new)
<1>1. CASE recovery # None
  BY <1>1 DEF Rec
<1>2. CASE recovery = None /\ Rec # None
  <2>1. Rec.applied = {}
    <3>1. OpenAttempts(db.journal) = {Rec.attempt} /\ Rec = Rebuild(db)
      BY <1>2, OpenIsRec DEF ServerOK, Rec
    <3> QED BY <3>1, RebuildFields
  <2> QED BY <1>2, <2>1 DEF KeepsCount
<1>3. CASE Rec = None
  BY <1>3 DEF KeepsCount
<1> QED BY <1>1, <1>2, <1>3

\* An attempt past its lock is the one in memory.
LEMMA RecInMemory ==
  ASSUME ServerOK, Rec # None, Rec.stage # "RecoveryLock"
  PROVE  recovery = Rec
<1> SUFFICES ASSUME recovery = None PROVE FALSE
  BY DEF Rec
<1>1. OpenAttempts(db.journal) = {Rec.attempt} /\ Rec = Rebuild(db)
  BY OpenIsRec DEF ServerOK, Rec
<1> QED BY <1>1, RebuildFields

\* BeginRecovery completes nothing and counts nobody.
LEMMA OpenEffect ==
  ASSUME db \in Database, OpenRecovery
  PROVE  /\ NoCompletion(db.journal, db'.journal)
         /\ db' \in Database
         /\ OpenedAttempt(db) \in RecoveryActivity
         /\ OpenedAttempt(db).applied = {}
<1> DEFINE e == Entry("BeginRecovery", db.revision, db.revision + 1,
                      db.revision + 1, None, None, 0)
<1>1. db' \in Database /\ db'.journal = db.journal \cup {e}
  BY BeginFields DEF OpenRecovery
<1>2. e.kind # "CompleteRecovery"
  BY EntryFields
<1> HIDE DEF e
<1>3. OpenedAttempt(db).applied = {}
  BY DEF OpenedAttempt
<1> QED BY <1>1, <1>2, <1>3, OneRow, OpenedFacts

LEMMA ResumeEffect ==
  ASSUME ServerOK, NEW s \in Slots, NEW restore \in BOOLEAN, OnResume(s, restore)
  PROVE  /\ NoCompletion(db.journal, db'.journal)
         /\ KeepsCount(recovery, recovery')
         /\ present' = present \cup {s}
<1> DEFINE pres == present \cup {s}
<1>1. db \in Database /\ (Rec # None => Rec \in RecoveryActivity)
  BY RecFacts DEF ServerOK, IInv, TypeOK
<1>2. present' = pres
  BY DEF OnResume
<1>3. CASE OpenRecovery /\ recovery' = PrepareRecovery(OpenedAttempt(db), db', pres)
  <2>1. /\ NoCompletion(db.journal, db'.journal) /\ db' \in Database
        /\ OpenedAttempt(db) \in RecoveryActivity /\ OpenedAttempt(db).applied = {}
    BY <1>1, <1>3, OpenEffect
  <2>2. KeepsCount(OpenedAttempt(db), recovery')
    BY <1>3, <2>1, PrepareCount
  <2> QED BY <1>2, <2>1, <2>2 DEF KeepsCount
<1>4. CASE db' = db /\ recovery' = PrepareRecovery(Rec, db, pres)
  <2>1. Rec # None => KeepsCount(Rec, recovery')
    BY <1>1, <1>4, PrepareCount
  <2>2. Rec = None => recovery' = None
    BY <1>4 DEF PrepareRecovery
  <2>3. KeepsCount(recovery, recovery')
    BY <2>1, <2>2, RecCount
  <2> QED BY <1>2, <1>4, <2>3 DEF NoCompletion
<1> QED BY <1>3, <1>4 DEF OnResume

LEMMA LeaveEffect ==
  ASSUME ServerOK, NEW s \in Slots, OnPlayerLeave(s)
  PROVE  /\ NoCompletion(db.journal, db'.journal)
         /\ recovery' # None => recovery'.applied = {}
         /\ present' = present \ {s}
<1>1. db \in Database /\ (Rec # None => Rec \in RecoveryActivity) /\ BarriersOpen(Rec)
  BY RecFacts, RecBarriers DEF ServerOK, IInv, TypeOK
<1>2. present' = present \ {s}
  BY DEF OnPlayerLeave
<1>3. CASE Rec # None /\ db' = db /\ recovery' = Relocked(Rec)
  <2>1. recovery'.applied = {}
    BY <1>1, <1>3, RelockedFields DEF BarriersOpen
  <2> QED BY <1>2, <1>3, <2>1 DEF NoCompletion
<1>4. CASE OpenRecovery /\ recovery' = OpenedAttempt(db)
  BY <1>1, <1>2, <1>4, OpenEffect
<1>5. CASE Rec = None /\ UNCHANGED <<db, recovery>>
  BY <1>2, <1>5 DEF NoCompletion, Rec
<1>6. CurrentState \in {"ACTIVE", "CHECKPOINTING"} => Rec = None
  BY <1>1 DEF CurrentState, RuntimeState, RecoveryActivity
<1> QED BY <1>3, <1>4, <1>5, <1>6 DEF OnPlayerLeave

LEMMA LoadedEffect ==
  ASSUME ServerOK, NEW s \in Slots, OnRecoveryLoadedResult(s)
  PROVE  /\ NoCompletion(db.journal, db'.journal)
         /\ KeepsCount(recovery, recovery')
         /\ recovery' # None
         /\ present' = present /\ present = Slots
         /\ OpenAttempts(db.journal) # {}
<1> DEFINE rec == [Rec EXCEPT !.durableLoaded = @ \cup {s}]
           acked == [rec EXCEPT !.loaded = @ \cup {s}]
           d == LoadedReceipt(Rec, s)
<1>1. /\ Rec # None /\ Rec.checkpoint # None
      /\ present' = present /\ present = Slots
      /\ \/ Rec.stage = "ApplyingSnapshot" /\ db' = d /\ recovery' = rec
         \/ Rec.stage = "LoadingNativeSaves" /\ db' = d /\ recovery' = acked
         \/ \E e \in Restores(d.journal, rec.attempt) :
              db' = d /\ recovery' = Restored(acked, e.resulting)
         \/ /\ db' = RestoreCheckpointSnapshot(d, rec.attempt, rec.checkpoint)
            /\ recovery' = Restored(acked, d.revision + 1)
  BY DEF OnRecoveryLoadedResult, FullRoster
<1>2. /\ Rec \in RecoveryActivity /\ db \in Database
      /\ Rec.attempt \in OpenAttempts(db.journal)
      /\ Rec.attempt \in Nat /\ Rec.checkpoint \in CheckpointIds
  <2>1. Rec \in RecoveryActivity /\ db \in Database /\ Rec.attempt \in OpenAttempts(db.journal)
    BY <1>1, RecFacts DEF ServerOK, IInv, TypeOK
  <2> QED BY <1>1, <2>1 DEF RecoveryActivity
<1>3. d \in Database /\ NoCompletion(db.journal, d.journal)
  <2>1. CASE d = db
    BY <1>2, <2>1 DEF NoCompletion
  <2>2. CASE d = AcceptedNoOp(db, "RecoveryLoaded", Rec.attempt, s, Rec.checkpoint)
    <3> DEFINE e == Entry("RecoveryLoaded", db.revision, db.revision, Rec.attempt, s,
                          Rec.checkpoint, 0)
    <3>0. /\ "RecoveryLoaded" \in Kinds /\ s \in Slots \cup {None}
          /\ Rec.checkpoint \in CheckpointIds \cup {None}
      BY <1>2 DEF Kinds
    <3>1. d \in Database /\ d.journal = db.journal \cup {e}
      BY <1>2, <2>2, <3>0, NoOpFields
    <3>2. e.kind # "CompleteRecovery"
      BY EntryFields
    <3> HIDE DEF e, d
    <3> QED BY <3>1, <3>2, OneRow
  <2> QED BY <2>1, <2>2 DEF LoadedReceipt
<1>4. /\ rec \in RecoveryActivity /\ rec.attempt = Rec.attempt
      /\ rec.checkpoint = Rec.checkpoint
      /\ rec.stage = Rec.stage /\ rec.applied = Rec.applied
  BY <1>2 DEF RecoveryActivity
<1> HIDE DEF rec, d
<1>5. /\ acked \in RecoveryActivity /\ acked.attempt = Rec.attempt
      /\ acked.checkpoint = Rec.checkpoint
      /\ acked.stage = Rec.stage /\ acked.applied = Rec.applied
  BY <1>4 DEF RecoveryActivity
<1> HIDE DEF acked
<1>6. \A r \in Nat : /\ Restored(acked, r) \in RecoveryActivity
                     /\ Restored(acked, r).applied = {}
  BY <1>5 DEF RecoveryActivity, Restored
<1>7. ASSUME NEW new, new \in {rec, acked}
      PROVE  KeepsCount(Rec, new) /\ new # None
  BY <1>1, <1>4, <1>5, <1>7, NoRecoveryAssumption DEF KeepsCount
<1>8. ASSUME NEW r \in Nat, recovery' = Restored(acked, r)
      PROVE  KeepsCount(Rec, recovery') /\ recovery' # None
  BY <1>6, <1>8, NoRecoveryAssumption DEF KeepsCount
<1>9. CASE db' = d /\ recovery' \in {rec, acked}
  BY <1>1, <1>2, <1>3, <1>7, <1>9, RecCount
<1>10. CASE \E e \in Restores(d.journal, rec.attempt) :
               db' = d /\ recovery' = Restored(acked, e.resulting)
  <2>1. PICK e \in Restores(d.journal, rec.attempt) :
               db' = d /\ recovery' = Restored(acked, e.resulting)
    BY <1>10
  <2>2. e.resulting \in Nat
    BY <1>3 DEF Database, Restores, Receipts, OfKind, JournalRecord
  <2> QED BY <1>1, <1>2, <1>3, <1>8, <2>1, <2>2, RecCount
<1>11. CASE /\ db' = RestoreCheckpointSnapshot(d, rec.attempt, rec.checkpoint)
            /\ recovery' = Restored(acked, d.revision + 1)
  <2> DEFINE e == Entry("RestoreCheckpoint", d.revision, d.revision + 1, rec.attempt,
                        None, rec.checkpoint, d.cps[rec.checkpoint].source)
  <2>1. d.revision + 1 \in Nat
    BY <1>3 DEF Database
  <2>2. db'.journal = d.journal \cup {e}
    BY <1>2, <1>3, <1>4, <1>11, RestoreFields
  <2>3. e.kind # "CompleteRecovery"
    BY EntryFields
  <2> HIDE DEF e
  <2>4. NoCompletion(db.journal, db'.journal)
    BY <1>3, <2>2, <2>3 DEF NoCompletion
  <2> QED BY <1>1, <1>2, <1>8, <1>11, <2>1, <2>4, RecCount
<1> QED BY <1>1, <1>9, <1>10, <1>11

LEMMA AppliedEffect ==
  ASSUME ServerOK, NEW s \in Slots, OnRecoverySnapshotApplied(s)
  PROVE  /\ recovery # None /\ recovery = Rec /\ recovery.stage = "ApplyingSnapshot"
         /\ present' = present /\ present = Slots
         /\ \/ /\ NoCompletion(db.journal, db'.journal)
               /\ OpenAttempts(db'.journal) = OpenAttempts(db.journal)
               /\ recovery' # None
               /\ recovery'.applied = recovery.applied \cup {s}
               /\ recovery'.stage = "ApplyingSnapshot"
               /\ recovery'.attempt = recovery.attempt
               /\ recovery'.checkpoint = recovery.checkpoint
            \/ /\ recovery' = None
               /\ recovery.applied \cup {s} = Slots
               /\ Done(db'.journal) = Done(db.journal) \cup {recovery.attempt}
               /\ OpenAttempts(db'.journal) = {}
               /\ \A e \in OfKind(db'.journal \ db.journal, "CompleteRecovery") :
                    e.attempt = recovery.attempt /\ e.cp = recovery.checkpoint
<1> DEFINE acked == [Rec EXCEPT !.durableApplied = @ \cup {s}, !.applied = @ \cup {s}]
           d == AppliedReceipt(Rec, s)
           a == Rec.attempt
           cp == Rec.checkpoint
           f == AcceptedNoOp(d, "CompleteRecovery", a, None, cp)
<1>1. /\ Rec # None /\ Rec.stage = "ApplyingSnapshot"
      /\ present' = present /\ present = Slots
      /\ \/ db' = d /\ recovery' = acked
         \/ AllApplied(acked) /\ db' = f /\ recovery' = None
  BY DEF OnRecoverySnapshotApplied, FullRoster
<1>2. /\ Rec \in RecoveryActivity /\ db \in Database
      /\ OpenAttempts(db.journal) = {a}
  BY <1>1, RecFacts, OpenIsRec DEF ServerOK, IInv, TypeOK
<1>3. a \in Nat /\ cp \in CheckpointIds \cup {None}
  BY <1>2 DEF RecoveryActivity
<1>4. recovery = Rec
  BY <1>1, RecInMemory
<1>5. /\ d \in Database /\ NoCompletion(db.journal, d.journal)
      /\ OpenAttempts(d.journal) = {a}
  <2>1. CASE d = db
    BY <1>2, <2>1 DEF NoCompletion
  <2>2. CASE d = AcceptedNoOp(db, "RecoverySnapshotApplied", a, s, cp)
    <3> DEFINE e == Entry("RecoverySnapshotApplied", db.revision, db.revision, a, s, cp, 0)
    <3>0. /\ "RecoverySnapshotApplied" \in Kinds /\ s \in Slots \cup {None}
      BY DEF Kinds
    <3>1. d \in Database /\ d.journal = db.journal \cup {e}
      BY <1>2, <1>3, <2>2, <3>0, NoOpFields
    <3>2. e.kind = "RecoverySnapshotApplied"
      BY EntryFields
    <3> HIDE DEF e, d
    <3>3. OpenAttempts(db.journal \cup {e}) = OpenAttempts(db.journal)
      BY <3>2, BenignEntry
    <3> QED BY <1>2, <3>1, <3>2, <3>3, OneRow
  <2> QED BY <2>1, <2>2 DEF AppliedReceipt
<1>6. /\ acked \in RecoveryActivity
      /\ acked.applied = Rec.applied \cup {s} /\ acked.stage = Rec.stage
      /\ acked.attempt = a /\ acked.checkpoint = cp
  BY <1>2 DEF RecoveryActivity
<1> HIDE DEF acked, d, f
<1>7. CASE db' = d /\ recovery' = acked
  BY <1>1, <1>2, <1>4, <1>5, <1>6, <1>7, NoRecoveryAssumption
<1>8. CASE AllApplied(acked) /\ db' = f /\ recovery' = None
  <2> DEFINE e == Entry("CompleteRecovery", d.revision, d.revision, a, None, cp, 0)
  <2>0. "CompleteRecovery" \in Kinds /\ None \in Slots \cup {None}
    BY DEF Kinds
  <2>1. f.journal = d.journal \cup {e}
    <3> HIDE DEF a, cp
    <3>1. /\ d \in Database /\ a \in Nat /\ cp \in CheckpointIds \cup {None}
          /\ "CompleteRecovery" \in Kinds /\ None \in Slots \cup {None}
      BY <1>3, <1>5, <2>0
    <3>2. AcceptedNoOp(d, "CompleteRecovery", a, None, cp).journal = d.journal \cup {e}
      BY <3>1, NoOpFields, SMTT(60)
    <3> QED BY <3>2 DEF f
  <2>2. e.kind = "CompleteRecovery" /\ e.attempt = a /\ e.cp = cp
    BY EntryFields
  <2> HIDE DEF e
  <2>3. OpenAttempts(f.journal) = {}
    <3>1. OpenAttempts(d.journal \cup {e}) = OpenAttempts(d.journal) \ {e.attempt}
      BY <2>2, CompleteEntry
    <3> QED BY <1>5, <2>1, <2>2, <3>1
  <2>4. Done(f.journal) = Done(db.journal) \cup {a}
    <3>1. Done(d.journal) = Done(db.journal)
      BY <1>5, NoCompletionDone
    <3>2. Done(d.journal \cup {e}) = Done(d.journal) \cup {e.attempt}
      BY <2>2 DEF Done, Attempts, OfKind
    <3> QED BY <2>1, <2>2, <3>1, <3>2
  <2>5. \A x \in OfKind(f.journal \ db.journal, "CompleteRecovery") : x = e
    BY <1>5, <2>1 DEF NoCompletion, OfKind
  <2> QED BY <1>1, <1>4, <1>6, <1>8, <2>2, <2>3, <2>4, <2>5 DEF AllApplied
<1> QED BY <1>1, <1>7, <1>8

\* What RecFacts says of the attempt a handler works with, here and after a step.
RecOK ==
  /\ Rec = None => OpenAttempts(db.journal) = {}
  /\ Rec # None => Rec \in RecoveryActivity /\ Rec.attempt \in OpenAttempts(db.journal)

LEMMA RecSound == IInv => RecOK
BY RecFacts DEF RecOK

LEMMA RecSoundAfter == IInv' => RecOK'
BY RecSound, PTL

-----------------------------------------------------------------------------
(***************************************************************************)
(* A step of the server, seen from one slot: the client does not move, the  *)
(* server may take one of its packets and sends it the packets r.           *)
(***************************************************************************)
Served(s, r) ==
  /\ client'[s] = client[s] /\ world'[s] = world[s] /\ link'[s] = link[s]
  /\ \/ toServer'[s] = toServer[s]
     \/ toServer[s] # <<>> /\ toServer'[s] = Tail(toServer[s])
  /\ toClient'[s] = IF s \in present' /\ link[s] = "up" THEN toClient[s] \o r
                                                        ELSE toClient[s]

\* The packets are sound for the attempts the journal completed and left open,
\* and close the fence if the step opened it.
SoundPackets(s, r) ==
  /\ r \in Seq(ClientPackets)
  /\ \A k \in DOMAIN r :
       /\ r[k].type = "Complete" => r[k].attempt \in Done(db'.journal)
       /\ r[k].type = "Load" => r[k].attempt \notin Done(db'.journal)
       /\ OpenAttempts(db'.journal) # {} => ~Releasing(r[k])
  /\ OpenAttempts(db'.journal) # {} =>
       \/ 1 \in DOMAIN r /\ Locking(r[1])
       \/ OpenAttempts(db.journal) # {} /\ (s \in present' => s \in present)

\* The slot agrees with what the step completed and counted.
SoundCount(s) ==
  /\ Done(db.journal) \subseteq Done(db'.journal)
  /\ \A x \in Done(db'.journal) \ Done(db.journal) :
       \E cp : Stands(client[s], link[s], x, cp)
  /\ CountedOK(client[s], link[s], s, recovery')
  /\ link[s] = "down" => s \notin present'
  /\ link[s] = "up" /\ s \in present => s \in present'

LEMMA ServedOK ==
  ASSUME NetTypeOK, NEW s \in Slots, SlotOK(s), NEW r,
         Served(s, r), SoundPackets(s, r), SoundCount(s)
  PROVE  SlotOK(s)'
<1> DEFINE c == client[s]
           l == link[s]
           q == toClient[s]
           n == toClient'[s]
           out == toServer[s]
           done == Done(db.journal)
           more == Done(db'.journal)
<1>1. /\ q \in Seq(ClientPackets) /\ out \in Seq(ServerPackets)
      /\ r \in Seq(ClientPackets) /\ done \subseteq more
  BY DEF NetTypeOK, SoundPackets, SoundCount
<1>2. ClientOK(c, world[s], more)
  <2>1. ASSUME c.attempt \in more \ done PROVE c.stage = "SnapshotApplied"
    BY <2>1 DEF SoundCount, Stands
  <2> QED BY <1>1, <2>1 DEF SlotOK, ClientOK
<1>3. OutboxOK(c, l, toServer'[s], more)
  <2>1. OutboxOK(c, l, out, more) /\ (out # <<>> => OutboxOK(c, l, Tail(out), more))
    BY <1>1, OutboxShrinks DEF SlotOK
  <2> QED BY <2>1 DEF Served
<1>4. LinkOK(l, s \in present', n, toServer'[s])
  BY DEF SlotOK, LinkOK, Served, SoundCount
<1>5. InboxOK(c, n, more)
  <2>1. \A i \in DOMAIN q : q[i].type = "Load" /\ q[i].attempt \in more \ done =>
          c.stage = "SnapshotApplied" /\ c.attempt = q[i].attempt
    <3> SUFFICES ASSUME NEW i \in DOMAIN q, q[i].attempt \in more \ done
                 PROVE  c.stage = "SnapshotApplied" /\ c.attempt = q[i].attempt
      OBVIOUS
    <3>1. l = "up"
      BY DEF SlotOK, LinkOK
    <3>2. PICK cp : Stands(c, l, q[i].attempt, cp)
      BY DEF SoundCount
    <3> QED BY <3>1, <3>2 DEF Stands
  <2>2. InboxOK(c, q, done) /\ (c.stage = "Completed" => c.attempt \in done)
    BY DEF SlotOK, ClientOK
  <2>3. InboxOK(c, q \o r, more)
    <3>1. \A k \in DOMAIN r : /\ r[k].type = "Complete" => r[k].attempt \in more
                              /\ r[k].type = "Load" => r[k].attempt \notin more
      BY DEF SoundPackets
    <3> HIDE DEF c, q, done, more
    <3> QED BY <1>1, <2>1, <2>2, <3>1, InboxGrow
  <2>4. ASSUME ~(s \in present' /\ l = "up") PROVE n = <<>>
    BY <1>4, <2>4 DEF LinkOK
  <2>5. InboxOK(c, <<>>, more)
    BY DEF InboxOK
  <2> QED BY <2>3, <2>4, <2>5 DEF Served
<1>6. ASSUME s \in present', l = "up", OpenAttempts(db'.journal) # {}
      PROVE  Fenced(c, n)
  <2>1. n = q \o r /\ \A k \in DOMAIN r : ~Releasing(r[k])
    BY <1>6 DEF Served, SoundPackets
  <2>2. CASE 1 \in DOMAIN r /\ Locking(r[1])
    BY <1>1, <2>1, <2>2, FenceLock
  <2>3. CASE OpenAttempts(db.journal) # {} /\ (s \in present' => s \in present)
    <3>1. Fenced(c, q)
      BY <1>6, <2>3 DEF SlotOK
    <3> QED BY <1>1, <2>1, <3>1, FenceGrow
  <2> QED BY <1>6, <2>2, <2>3 DEF SoundPackets
<1>7. CountedOK(c, l, s, recovery')
  BY DEF SoundCount
<1> QED BY <1>2, <1>3, <1>4, <1>5, <1>6, <1>7 DEF SlotOK, Served

-----------------------------------------------------------------------------
(***************************************************************************)
(* The actions.                                                             *)
(***************************************************************************)
\* Nothing of the slot moves.
LEMMA SlotSame ==
  ASSUME NEW t, SlotOK(t), client'[t] = client[t], world'[t] = world[t],
         link'[t] = link[t], toServer'[t] = toServer[t], toClient'[t] = toClient[t],
         db' = db, recovery' = recovery, present' = present
  PROVE  SlotOK(t)'
BY DEF SlotOK

\* Seen from the server, a step of the whole is one of its handlers.
LEMMA NetIsNext ==
  ASSUME NetTypeOK, [NetNext]_allVars
  PROVE  [Next]_vars
<1>1. ASSUME NEW s \in Slots, ServerResume(s) PROVE Next
  <2>1. toServer[s] \in Seq(ServerPackets) /\ toServer[s] # <<>>
        /\ Head(toServer[s]).type = "Resume"
    BY <1>1 DEF NetTypeOK, ServerResume, ServerTakes
  <2>2. Head(toServer[s]) \in ServerPackets
    BY <2>1, TailElems
  <2>3. Head(toServer[s]).restore \in BOOLEAN
    BY <2>1, <2>2 DEF ServerPackets, Resumes, Loadeds, Applieds
  <2>4. OnResume(s, Head(toServer[s]).restore)
    BY <1>1 DEF ServerResume
  <2> QED BY <2>3, <2>4 DEF Next
<1>2. ASSUME NEW s \in Slots, ServerLoaded(s) PROVE [Next]_vars
  BY <1>2 DEF ServerLoaded, Next
<1>3. ASSUME NEW s \in Slots, ServerApplied(s) PROVE [Next]_vars
  BY <1>3 DEF ServerApplied, Next
<1>4. ASSUME NEW s \in Slots, ServerLeave(s) PROVE [Next]_vars
  BY <1>4 DEF ServerLeave, Next
<1>5. CASE ServerCrash
  BY <1>5 DEF ServerCrash, Next
<1>6. ASSUME NEW s \in Slots,
             ClientReceive(s) \/ FinishNativeLoad(s) \/ Reconnect(s) \/ Drop(s)
               \/ ClientRestart(s)
      PROVE  UNCHANGED vars
  BY <1>6 DEF ClientReceive, FinishNativeLoad, Reconnect, Drop, ClientRestart
<1>7. CASE UNCHANGED allVars
  BY <1>7 DEF allVars
<1> QED BY <1>1, <1>2, <1>3, <1>4, <1>5, <1>6, <1>7 DEF NetNext

LEMMA ServerNext ==
  ASSUME ServerOK, [Next]_vars
  PROVE  ServerOK'
BY NextOK, BarriersNext, MemoryNext DEF ServerOK

\* What a step has to keep besides.
NetPart == 0 \notin Done(db.journal) /\ NetTypeOK /\ \A s \in Slots : SlotOK(s)

LEMMA ReceiveStep ==
  ASSUME NetInv, NEW s \in Slots, ClientReceive(s)
  PROVE  NetPart'
<1> DEFINE q == toClient[s]
           m == Head(q)
           n == AfterPacket(client[s], m)
           w == WorldAfter(n, world[s])
           out == toServer[s] \o Answer(client[s], m)
<1>1. /\ link[s] = "up" /\ q # <<>>
      /\ client' = [client EXCEPT ![s] = n]
      /\ toClient' = [toClient EXCEPT ![s] = Tail(q)]
      /\ toServer' = [toServer EXCEPT ![s] = out]
      /\ world' = [world EXCEPT ![s] = w]
      /\ db' = db /\ recovery' = recovery /\ present' = present /\ link' = link
  BY DEF ClientReceive, vars, WorldAfter
<1>2. /\ client[s] \in ClientState /\ q \in Seq(ClientPackets)
      /\ toServer[s] \in Seq(ServerPackets) /\ NetTypeOK /\ SlotOK(s)
      /\ 0 \notin Done(db.journal)
      /\ recovery # None => recovery.attempt \notin Done(db.journal)
  BY OpenNotDone DEF NetInv, NetTypeOK
<1>3. /\ n \in ClientState /\ Tail(q) \in Seq(ClientPackets)
      /\ out \in Seq(ServerPackets)
      /\ ClientOK(n, w, Done(db.journal))
      /\ InboxOK(n, Tail(q), Done(db.journal))
      /\ OutboxOK(n, "up", out, Done(db.journal))
      /\ CountedOK(n, "up", s, recovery)
      /\ Fenced(client[s], q) => Fenced(n, Tail(q))
  <2>1. /\ ClientOK(client[s], world[s], Done(db.journal))
        /\ InboxOK(client[s], q, Done(db.journal))
        /\ OutboxOK(client[s], "up", toServer[s], Done(db.journal))
        /\ CountedOK(client[s], "up", s, recovery)
    BY <1>1, <1>2 DEF SlotOK
  <2> QED BY <1>1, <1>2, <2>1, ReceiveOK
<1> HIDE DEF n, w, out
<1>4. /\ client'[s] = n /\ world'[s] = w /\ toServer'[s] = out
      /\ toClient'[s] = Tail(q) /\ link'[s] = "up"
  BY <1>1, <1>2 DEF NetTypeOK
<1>5. s \in present /\ q # <<>>
  BY <1>1, <1>2 DEF SlotOK, LinkOK
<1>6. SlotOK(s)'
  BY <1>1, <1>2, <1>3, <1>4, <1>5 DEF SlotOK, LinkOK
<1>7. ASSUME NEW t \in Slots, t # s PROVE SlotOK(t)'
  <2>1. SlotOK(t)
    BY DEF NetInv
  <2> QED BY <1>1, <1>2, <1>7, <2>1, SlotSame DEF NetTypeOK
<1>8. NetTypeOK'
  BY <1>1, <1>2, <1>3 DEF NetTypeOK
<1> QED BY <1>1, <1>2, <1>6, <1>7, <1>8 DEF NetPart

LEMMA LoadEndStep ==
  ASSUME NetInv, NEW s \in Slots, FinishNativeLoad(s)
  PROVE  NetPart'
<1> DEFINE c == client[s]
           done == Done(db.journal)
           n == client'[s]
           v == world'[s]
           m == LoadedMsg(c, n.stage = "NativeSaveLoaded")
           out == toServer[s] \o <<m>>
<1>1. /\ c.stage = "LoadingNativeSave" /\ toClient' = toClient
      /\ db' = db /\ recovery' = recovery /\ present' = present /\ link' = link
  BY DEF FinishNativeLoad, vars
<1>2. /\ c \in ClientState /\ toServer[s] \in Seq(ServerPackets)
      /\ NetTypeOK /\ SlotOK(s) /\ 0 \notin done
  BY DEF NetInv, NetTypeOK
<1>3. /\ ClientOK(c, world[s], done) /\ InboxOK(c, toClient[s], done)
      /\ OutboxOK(c, link[s], toServer[s], done)
      /\ CountedOK(c, link[s], s, recovery)
      /\ LinkOK(link[s], s \in present, toClient[s], toServer[s])
  BY <1>2 DEF SlotOK
<1>4. ASSUME NEW t \in Slots, t # s PROVE SlotOK(t)'
  <2>1. SlotOK(t)
    BY DEF NetInv
  <2>2. /\ client'[t] = client[t] /\ world'[t] = world[t]
        /\ toServer'[t] = toServer[t]
    BY <1>2, <1>4 DEF FinishNativeLoad, NetTypeOK
  <2> QED BY <1>1, <2>1, <2>2, SlotSame
<1>5. /\ n \in ClientState /\ n.attempt = c.attempt
      /\ client' = [client EXCEPT ![s] = n] /\ DOMAIN world' = Slots
      /\ \/ n.stage = "NativeSaveLoaded" /\ v = n.checkpoint
         \/ n.stage = "Failed"
  <2>1. PICK k \in {"NativeSaveLoaded", "Failed"} :
          /\ client' = [client EXCEPT ![s] = [c EXCEPT !.stage = k]]
          /\ k = "NativeSaveLoaded" => world' = [world EXCEPT ![s] = c.checkpoint]
          /\ world' \in {world, [world EXCEPT ![s] = c.checkpoint]}
    BY <1>2 DEF FinishNativeLoad, NetTypeOK
  <2>2. n = [c EXCEPT !.stage = k] /\ client' = [client EXCEPT ![s] = n]
    BY <1>2, <2>1 DEF NetTypeOK
  <2>3. /\ n \in ClientState /\ n.attempt = c.attempt /\ n.stage = k
        /\ n.checkpoint = c.checkpoint
    BY <1>2, <2>2 DEF ClientState
  <2>4. DOMAIN world' = Slots /\ (k = "NativeSaveLoaded" => v = c.checkpoint)
    BY <1>2, <2>1 DEF NetTypeOK
  <2> QED BY <2>2, <2>3, <2>4
<1>6. m \in Loadeds /\ m.type = "Loaded"
  BY <1>2, ClientFields DEF LoadedMsg, Loadeds
<1>7. /\ link[s] = "up" => toServer' = [toServer EXCEPT ![s] = Append(toServer[s], m)]
      /\ link[s] # "up" => toServer' = [toServer EXCEPT ![s] = toServer[s]]
  BY DEF FinishNativeLoad
<1>8. /\ ClientOK(n, v, done) /\ InboxOK(n, toClient[s], done)
      /\ OutboxOK(n, link[s], toServer[s], done)
      /\ CountedOK(n, link[s], s, recovery)
      /\ Fenced(c, toClient[s]) => Fenced(n, toClient[s])
  <2> DEFINE l == link[s]
             q == toServer[s]
             in == toClient[s]
             w == world[s]
  <2>1. /\ c \in ClientState /\ c.stage = "LoadingNativeSave" /\ n.attempt = c.attempt
        /\ ClientOK(c, w, done) /\ InboxOK(c, in, done) /\ OutboxOK(c, l, q, done)
        /\ CountedOK(c, l, s, recovery)
        /\ \/ n.stage = "NativeSaveLoaded" /\ v = n.checkpoint
           \/ n.stage = "Failed"
    BY <1>1, <1>2, <1>3, <1>5
  <2> HIDE DEF c, done, v, l, q, in, w, n
  <2>2. /\ ClientOK(n, v, done) /\ InboxOK(n, in, done)
        /\ OutboxOK(n, l, q, done) /\ CountedOK(n, l, s, recovery)
        /\ Fenced(c, in) => Fenced(n, in)
    BY <2>1, LoadEndOK
  <2> QED BY <2>2 DEF l, q, in
<1> HIDE DEF m
<1>9. m \in ServerPackets /\ <<m>> \in Seq(ServerPackets)
      /\ \A k \in DOMAIN <<m>> : <<m>>[k] = m
  BY <1>6 DEF ServerPackets
<1>10. /\ out \in Seq(ServerPackets)
       /\ \A i \in DOMAIN out :
            out[i] = m \/ (i \in DOMAIN toServer[s] /\ out[i] = toServer[s][i])
  BY <1>2, <1>9, ConcatElems
<1>11. Append(toServer[s], m) = out
  BY <1>2, <1>9
<1> HIDE DEF out
<1>12. OutboxOK(n, link[s], out, done)
  BY <1>6, <1>8, <1>10 DEF OutboxOK
<1>13. /\ toServer' \in [Slots -> Seq(ServerPackets)]
       /\ OutboxOK(n, link[s], toServer'[s], done)
       /\ link[s] = "down" => toServer'[s] = toServer[s]
  <2>1. toServer \in [Slots -> Seq(ServerPackets)]
    BY <1>2 DEF NetTypeOK
  <2> HIDE DEF n, done
  <2>2. CASE link[s] = "up"
    BY <1>7, <1>10, <1>11, <1>12, <2>1, <2>2
  <2>3. CASE link[s] # "up"
    BY <1>7, <1>8, <2>1, <2>3
  <2> QED BY <2>2, <2>3
<1>14. SlotOK(s)'
  BY <1>1, <1>2, <1>3, <1>8, <1>13 DEF SlotOK, LinkOK
<1>15. NetTypeOK'
  BY <1>1, <1>2, <1>5, <1>13 DEF NetTypeOK
<1> QED BY <1>1, <1>2, <1>4, <1>14, <1>15 DEF NetPart

LEMMA ReconnectStep ==
  ASSUME NetInv, NEW s \in Slots, Reconnect(s)
  PROVE  NetPart'
<1> DEFINE b == client[s].wantsRestore
           m == [type |-> "Resume", restore |-> b]
           done == Done(db.journal)
<1>1. /\ link[s] = "down" /\ link' = [link EXCEPT ![s] = "up"]
      /\ toServer' = [toServer EXCEPT ![s] = <<m>>]
      /\ client' = client /\ world' = world /\ toClient' = toClient
      /\ db' = db /\ recovery' = recovery /\ present' = present
  BY DEF Reconnect, vars
<1>2. /\ NetTypeOK /\ SlotOK(s) /\ 0 \notin done /\ CurrentBarriers
      /\ client[s] \in ClientState /\ TypeOK
  BY DEF NetInv, NetTypeOK, ServerOK, IInv
<1>3. b \in BOOLEAN
  BY <1>2, ClientFields
<1> HIDE DEF b
<1>4. m \in Resumes /\ m.type = "Resume"
  BY <1>3 DEF Resumes
<1> HIDE DEF m
<1>5. <<m>> \in Seq(ServerPackets) /\ \A k \in DOMAIN <<m>> : <<m>>[k] = m
  BY <1>4 DEF ServerPackets
<1>6. OutboxOK(client[s], "up", <<m>>, done)
  BY <1>4, <1>5 DEF OutboxOK
<1>7. s \notin present /\ toClient[s] = <<>>
  BY <1>1, <1>2 DEF SlotOK, LinkOK
<1>8. CountedOK(client[s], "up", s, recovery)
  BY <1>2, <1>7 DEF CountedOK, CurrentBarriers, BarriersOpen
<1>9. link'[s] = "up" /\ toServer'[s] = <<m>>
  BY <1>1, <1>2 DEF NetTypeOK
<1>10. SlotOK(s)'
  BY <1>1, <1>2, <1>6, <1>7, <1>8, <1>9 DEF SlotOK, LinkOK
<1>11. ASSUME NEW t \in Slots, t # s PROVE SlotOK(t)'
  <2>1. SlotOK(t)
    BY DEF NetInv
  <2> QED BY <1>1, <1>2, <1>11, <2>1, SlotSame DEF NetTypeOK
<1>12. NetTypeOK'
  BY <1>1, <1>2, <1>5 DEF NetTypeOK
<1> QED BY <1>1, <1>2, <1>10, <1>11, <1>12 DEF NetPart

\* A slot after its transport went away: the client is the same, or freshly
\* locked, or a new process.
LEMMA LostSlot ==
  ASSUME NetInv, NEW s \in Slots, NEW n, NEW v, NEW k, k # "up", NEW q,
         \/ SameCorrelation(client[s], n) /\ v = world[s]
         \/ n.attempt = 0 /\ n.stage \in {"RecoveryLocked", "Idle"},
         OutboxOK(client[s], link[s], q, Done(db.journal)),
         k = "down" => s \notin present /\ q = <<>>,
         client'[s] = n, world'[s] = v, link'[s] = k, toServer'[s] = q,
         toClient'[s] = <<>>, db' = db, recovery' = recovery, present' = present
  PROVE  SlotOK(s)'
<1> DEFINE c == client[s]
           l == link[s]
           w == world[s]
           done == Done(db.journal)
<1>1. /\ c \in ClientState /\ ClientOK(c, w, done) /\ OutboxOK(c, l, q, done)
      /\ CountedOK(c, l, s, recovery) /\ 0 \notin done
      /\ recovery # None => recovery.attempt # 0
      /\ \/ SameCorrelation(c, n) /\ v = w
         \/ n.attempt = 0 /\ n.stage \in {"RecoveryLocked", "Idle"}
  BY OpenNotDone DEF NetInv, NetTypeOK, SlotOK
<1>2. /\ ClientOK(n, v, done) /\ InboxOK(n, <<>>, done)
      /\ OutboxOK(n, k, q, done) /\ CountedOK(n, k, s, recovery)
  <2> HIDE DEF c, l, w, done
  <2>1. ClientOK(n, v, done)
    BY <1>1 DEF ClientOK, SameCorrelation
  <2>2. InboxOK(n, <<>>, done)
    BY DEF InboxOK
  <2>3. ASSUME NEW a, NEW cp, a # 0, Stands(c, l, a, cp) PROVE Stands(n, k, a, cp)
    BY <1>1, <2>3 DEF Stands, SameCorrelation
  <2>4. OutboxOK(n, k, q, done)
    BY <1>1, <2>3 DEF OutboxOK
  <2>5. CountedOK(n, k, s, recovery)
    BY <1>1, <2>3 DEF CountedOK
  <2> QED BY <2>1, <2>2, <2>4, <2>5
<1> QED BY <1>2 DEF SlotOK, LinkOK

LEMMA DropStep ==
  ASSUME NetInv, NEW s \in Slots, Drop(s)
  PROVE  NetPart'
<1> DEFINE n == Disconnected(client[s])
<1>1. PICK i \in 0..Len(toServer[s]) :
        toServer' = [toServer EXCEPT ![s] = SubSeq(toServer[s], 1, i)]
  BY DEF Drop
<1>2. /\ link[s] = "up" /\ link' = [link EXCEPT ![s] = "lost"]
      /\ toClient' = [toClient EXCEPT ![s] = <<>>]
      /\ client' = [client EXCEPT ![s] = n] /\ world' = world
      /\ db' = db /\ recovery' = recovery /\ present' = present
  BY DEF Drop, vars
<1>3. /\ NetTypeOK /\ 0 \notin Done(db.journal) /\ client[s] \in ClientState
      /\ toServer[s] \in Seq(ServerPackets)
      /\ OutboxOK(client[s], link[s], toServer[s], Done(db.journal))
  BY DEF NetInv, NetTypeOK, SlotOK
<1> DEFINE q == SubSeq(toServer[s], 1, i)
<1>4. q \in Seq(ServerPackets)
  BY <1>3, PrefixElems
<1>5. OutboxOK(client[s], link[s], q, Done(db.journal))
  BY <1>3, OutboxShrinks
<1>6. n \in ClientState /\ (\/ SameCorrelation(client[s], n)
                            \/ n.attempt = 0 /\ n.stage = "RecoveryLocked")
  BY <1>3, DisconnectedFacts
<1> HIDE DEF n, q
<1>7. /\ client'[s] = n /\ world'[s] = world[s] /\ link'[s] = "lost"
      /\ toServer'[s] = q /\ toClient'[s] = <<>>
  BY <1>1, <1>2, <1>3 DEF NetTypeOK, q
<1>8. SlotOK(s)'
  BY <1>2, <1>5, <1>6, <1>7, LostSlot
<1>9. ASSUME NEW t \in Slots, t # s PROVE SlotOK(t)'
  <2>1. SlotOK(t)
    BY DEF NetInv
  <2> QED BY <1>1, <1>2, <1>3, <1>9, <2>1, SlotSame DEF NetTypeOK
<1>10. NetTypeOK'
  <2>1. <<>> \in Seq(ClientPackets)
    OBVIOUS
  <2>2. toServer' = [toServer EXCEPT ![s] = q]
    BY <1>1 DEF q
  <2> QED BY <1>2, <1>3, <1>4, <1>6, <2>1, <2>2 DEF NetTypeOK
<1> QED BY <1>2, <1>3, <1>8, <1>9, <1>10 DEF NetPart

LEMMA RestartedStep ==
  ASSUME NetInv, NEW s \in Slots, ClientRestart(s)
  PROVE  NetPart'
<1> DEFINE n == [IdleClient EXCEPT !.wantsRestore = TRUE]
           k == IF link[s] = "up" THEN "lost" ELSE link[s]
<1>1. /\ link' = [link EXCEPT ![s] = k] /\ toClient' = [toClient EXCEPT ![s] = <<>>]
      /\ client' = [client EXCEPT ![s] = n] /\ world' = [world EXCEPT ![s] = "menu"]
      /\ db' = db /\ recovery' = recovery /\ present' = present /\ toServer' = toServer
  BY DEF ClientRestart, vars
<1>2. n \in ClientState /\ n.attempt = 0 /\ n.stage \in {"RecoveryLocked", "Idle"}
  BY DEF IdleClient, ClientState
<1>3. /\ NetTypeOK /\ 0 \notin Done(db.journal)
      /\ OutboxOK(client[s], link[s], toServer[s], Done(db.journal))
      /\ LinkOK(link[s], s \in present, toClient[s], toServer[s])
  BY DEF NetInv, SlotOK
<1>4. k \in {"lost", "down"} /\ (k = "down" => link[s] = "down")
  BY <1>3 DEF NetTypeOK
<1> HIDE DEF n, k
<1>5. /\ client'[s] = n /\ world'[s] = "menu" /\ link'[s] = k
      /\ toServer'[s] = toServer[s] /\ toClient'[s] = <<>>
  BY <1>1, <1>3 DEF NetTypeOK
<1>6. k # "up" /\ (k = "down" => s \notin present /\ toServer[s] = <<>>)
  BY <1>3, <1>4 DEF LinkOK
<1>7. SlotOK(s)'
  BY <1>1, <1>2, <1>3, <1>5, <1>6, LostSlot
<1>8. ASSUME NEW t \in Slots, t # s PROVE SlotOK(t)'
  <2>1. SlotOK(t)
    BY DEF NetInv
  <2> QED BY <1>1, <1>3, <1>8, <2>1, SlotSame DEF NetTypeOK
<1>9. NetTypeOK'
  <2>1. <<>> \in Seq(ClientPackets)
    OBVIOUS
  <2> QED BY <1>1, <1>2, <1>3, <1>4, <2>1 DEF NetTypeOK
<1> QED BY <1>1, <1>3, <1>7, <1>8, <1>9 DEF NetPart

LEMMA CrashStep ==
  ASSUME NetInv, ServerCrash
  PROVE  NetPart'
<1>1. /\ db' = db /\ recovery' = None /\ present' = {} /\ world' = world
      /\ link' = [s \in Slots |-> "down"]
      /\ toServer' = [s \in Slots |-> <<>>] /\ toClient' = [s \in Slots |-> <<>>]
      /\ client' = [s \in Slots |-> IF link[s] = "up" THEN Disconnected(client[s])
                                    ELSE client[s]]
  BY DEF ServerCrash, ServerRestart
<1>2. NetTypeOK /\ 0 \notin Done(db.journal)
  BY DEF NetInv
<1>3. ASSUME NEW s \in Slots
      PROVE  /\ client'[s] \in ClientState
             /\ \/ SameCorrelation(client[s], client'[s])
                \/ client'[s].attempt = 0 /\ client'[s].stage = "RecoveryLocked"
  <2>1. client[s] \in ClientState /\ SameCorrelation(client[s], client[s])
    BY <1>2 DEF NetTypeOK, SameCorrelation
  <2> DEFINE n == Disconnected(client[s])
  <2>2. n \in ClientState /\ (\/ SameCorrelation(client[s], n)
                              \/ n.attempt = 0 /\ n.stage = "RecoveryLocked")
    BY <2>1, DisconnectedFacts
  <2>3. client'[s] \in {client[s], n}
    BY <1>1
  <2> HIDE DEF n
  <2> QED BY <2>1, <2>2, <2>3
<1>4. ASSUME NEW s \in Slots PROVE SlotOK(s)'
  <2> DEFINE n == client'[s]
  <2>1. ClientOK(client[s], world[s], Done(db.journal))
    BY DEF NetInv, SlotOK
  <2>2. ClientOK(n, world[s], Done(db.journal))
    BY <1>2, <1>3, <2>1 DEF ClientOK, SameCorrelation
  <2>3. InboxOK(n, <<>>, Done(db.journal)) /\ OutboxOK(n, "down", <<>>, Done(db.journal))
    BY DEF InboxOK, OutboxOK
  <2>4. CountedOK(n, "down", s, None)
    BY DEF CountedOK
  <2>5. LinkOK("down", s \in {}, <<>>, <<>>)
    BY DEF LinkOK
  <2>6. /\ link'[s] = "down" /\ toServer'[s] = <<>> /\ toClient'[s] = <<>>
        /\ world'[s] = world[s]
    BY <1>1
  <2> QED BY <1>1, <2>2, <2>3, <2>4, <2>5, <2>6 DEF SlotOK
<1>5. NetTypeOK'
  <2>1. <<>> \in Seq(ClientPackets) /\ <<>> \in Seq(ServerPackets)
    OBVIOUS
  <2>2. client' \in [Slots -> ClientState]
    BY <1>1, <1>3
  <2> QED BY <1>1, <1>2, <2>1, <2>2 DEF NetTypeOK
<1> QED BY <1>1, <1>2, <1>4, <1>5 DEF NetPart

\* The server takes the oldest packet of s.
LEMMA TakesFacts ==
  ASSUME NetInv, NEW s \in Slots, NEW type, ServerTakes(s, type)
  PROVE  LET m == Head(toServer[s]) IN
         /\ m \in ServerPackets /\ m.type = type
         /\ client' = client /\ world' = world /\ link' = link
         /\ toServer' \in [Slots -> Seq(ServerPackets)]
         /\ \A t \in Slots :
              \/ toServer'[t] = toServer[t]
              \/ toServer[t] # <<>> /\ toServer'[t] = Tail(toServer[t])
         /\ link[s] # "down"
         /\ type = "Applied" /\ m.attempt \notin Done(db.journal) \cup {0} =>
              Stands(client[s], link[s], m.attempt, m.cp)
<1> DEFINE q == toServer[s]
<1>1. /\ q # <<>> /\ Head(q).type = type
      /\ toServer' = [toServer EXCEPT ![s] = Tail(q)]
      /\ client' = client /\ world' = world /\ link' = link
  BY DEF ServerTakes
<1>2. /\ q \in Seq(ServerPackets) /\ toServer \in [Slots -> Seq(ServerPackets)]
      /\ SlotOK(s)
  BY DEF NetInv, NetTypeOK
<1>3. /\ Tail(q) \in Seq(ServerPackets) /\ Head(q) \in ServerPackets
      /\ 1 \in DOMAIN q /\ Head(q) = q[1]
  BY <1>1, <1>2, TailElems
<1>4. link[s] # "down"
  BY <1>1, <1>2 DEF SlotOK, LinkOK
<1>5. type = "Applied" /\ q[1].attempt \notin Done(db.journal) \cup {0} =>
        Stands(client[s], link[s], q[1].attempt, q[1].cp)
  BY <1>1, <1>2, <1>3 DEF SlotOK, OutboxOK
<1>6. toServer' \in [Slots -> Seq(ServerPackets)]
  BY <1>1, <1>2, <1>3
<1>7. \A t \in Slots : \/ toServer'[t] = toServer[t]
                       \/ toServer[t] # <<>> /\ toServer'[t] = Tail(toServer[t])
  BY <1>1, <1>2
<1> QED BY <1>1, <1>3, <1>4, <1>5, <1>6, <1>7

\* Packets r[t] for every connected member t.
LEMMA SendStep ==
  ASSUME NetInv, NEW s \in Slots, NEW type, ServerTakes(s, type), NEW r,
         toClient' = [t \in Slots |-> IF t \in present' /\ link[t] = "up"
                                      THEN toClient[t] \o r[t] ELSE toClient[t]],
         0 \notin Done(db'.journal),
         \A t \in Slots : SoundPackets(t, r[t]) /\ SoundCount(t)
  PROVE  NetPart'
<1>1. /\ client' = client /\ world' = world /\ link' = link
      /\ toServer' \in [Slots -> Seq(ServerPackets)]
      /\ \A t \in Slots :
           \/ toServer'[t] = toServer[t]
           \/ toServer[t] # <<>> /\ toServer'[t] = Tail(toServer[t])
  BY TakesFacts
<1>2. NetTypeOK
  BY DEF NetInv
<1>3. ASSUME NEW t \in Slots PROVE SlotOK(t)'
  <2>1. SlotOK(t) /\ Served(t, r[t])
    BY <1>1 DEF NetInv, Served
  <2> QED BY <1>2, <2>1, ServedOK
<1>4. toClient' \in [Slots -> Seq(ClientPackets)]
  <2> SUFFICES ASSUME NEW t \in Slots PROVE toClient'[t] \in Seq(ClientPackets)
    OBVIOUS
  <2>1. toClient[t] \in Seq(ClientPackets) /\ r[t] \in Seq(ClientPackets)
    BY <1>2 DEF NetTypeOK, SoundPackets
  <2>2. toClient[t] \o r[t] \in Seq(ClientPackets)
    BY <2>1, ConcatElems
  <2> QED BY <2>1, <2>2
<1>5. NetTypeOK'
  BY <1>1, <1>2, <1>4 DEF NetTypeOK
<1> QED BY <1>3, <1>5 DEF NetPart

\* Status packets, or none, are sound.
LEMMA SafeIsSound ==
  ASSUME NEW s, NEW r, SafeToSend(r, OpenAttempts(db'.journal)),
         OpenAttempts(db'.journal) # {} =>
           \/ 1 \in DOMAIN r /\ Locking(r[1])
           \/ OpenAttempts(db.journal) # {} /\ (s \in present' => s \in present)
  PROVE  SoundPackets(s, r)
BY DEF SafeToSend, SoundPackets, OpenAttempts, Done

LEMMA NothingIsSafe ==
  ASSUME NEW open
  PROVE  SafeToSend(<<>>, open)
BY DEF SafeToSend

\* A step that completes nothing and counts nobody new.
LEMMA KeptCount ==
  ASSUME NetInv, NEW t \in Slots, NoCompletion(db.journal, db'.journal),
         KeepsCount(recovery, recovery'),
         link[t] = "down" => t \notin present',
         link[t] = "up" /\ t \in present => t \in present'
  PROVE  SoundCount(t)
<1>1. Done(db'.journal) = Done(db.journal)
  BY NoCompletionDone
<1>2. CountedOK(client[t], link[t], t, recovery)
  BY DEF NetInv, SlotOK
<1>3. CountedOK(client[t], link[t], t, recovery')
  BY <1>2 DEF CountedOK, KeepsCount
<1> QED BY <1>1, <1>3 DEF SoundCount

LEMMA ResumedStep ==
  ASSUME NetInv, ServerOK', NEW s \in Slots, ServerResume(s)
  PROVE  NetPart'
<1> DEFINE p == StatusPackets(Rec', active', present')
           r == [t \in Slots |-> p]
           open == OpenAttempts(db'.journal)
<1>1. /\ ServerTakes(s, "Resume") /\ OnResume(s, Head(toServer[s]).restore)
      /\ toClient' = [t \in Slots |-> IF t \in present' /\ link[t] = "up"
                                      THEN toClient[t] \o p ELSE toClient[t]]
  BY DEF ServerResume, Broadcast, StatusPackets, CurrentState
<1>2. Head(toServer[s]).restore \in BOOLEAN /\ link[s] # "down"
  BY <1>1, TakesFacts DEF ServerPackets, Resumes, Loadeds, Applieds
<1>3. /\ NoCompletion(db.journal, db'.journal) /\ KeepsCount(recovery, recovery')
      /\ present' = present \cup {s}
  BY <1>1, <1>2, ResumeEffect DEF NetInv
<1>4. /\ Rec' = None => open = {}
      /\ Rec' # None => Rec' \in RecoveryActivity /\ Rec'.attempt \in open
  BY RecSoundAfter DEF ServerOK, RecOK
<1>5. SafeToSend(p, open) /\ 1 \in DOMAIN p /\ (open # {} => Locking(p[1]))
  BY <1>4, StatusSafe
<1> HIDE DEF p
<1>6. ASSUME NEW t \in Slots PROVE SoundPackets(t, r[t]) /\ SoundCount(t)
  <2>1. SoundPackets(t, r[t])
    BY <1>5, SafeIsSound
  <2>2. link[t] = "down" => t \notin present'
    BY <1>2, <1>3 DEF NetInv, SlotOK, LinkOK
  <2>3. SoundCount(t)
    BY <1>3, <2>2, KeptCount
  <2> QED BY <2>1, <2>3
<1>7. 0 \notin Done(db'.journal)
  BY <1>3, NoCompletionDone DEF NetInv
<1>8. toClient' = [t \in Slots |-> IF t \in present' /\ link[t] = "up"
                                   THEN toClient[t] \o r[t] ELSE toClient[t]]
  BY <1>1
<1> HIDE DEF r
<1> QED BY <1>1, <1>6, <1>7, <1>8, SendStep

\* A report that changes nothing.
LEMMA IgnoredStep ==
  ASSUME NetInv, NEW s \in Slots, NEW type, ServerTakes(s, type),
         UNCHANGED <<vars, toClient>>
  PROVE  NetPart'
<1> DEFINE r == [t \in Slots |-> <<>>]
<1>1. /\ db' = db /\ recovery' = recovery /\ present' = present /\ toClient' = toClient
      /\ NetTypeOK /\ 0 \notin Done(db.journal)
  BY DEF vars, NetInv
<1>2. toClient' = [t \in Slots |-> IF t \in present' /\ link[t] = "up"
                                   THEN toClient[t] \o r[t] ELSE toClient[t]]
  <2>1. toClient = [t \in Slots |-> toClient[t]]
    BY <1>1 DEF NetTypeOK
  <2>2. \A t \in Slots : toClient[t] \o <<>> = toClient[t]
    BY <1>1 DEF NetTypeOK
  <2> QED BY <1>1, <2>1, <2>2
<1>3. ASSUME NEW t \in Slots PROVE SoundPackets(t, r[t]) /\ SoundCount(t)
  <2>1. SlotOK(t)
    BY DEF NetInv
  <2>2. SoundCount(t)
    BY <1>1, <2>1 DEF SoundCount, SlotOK, LinkOK
  <2>3. SafeToSend(<<>>, OpenAttempts(db'.journal))
    BY NothingIsSafe
  <2>4. SoundPackets(t, r[t])
    BY <1>1, <2>3, SafeIsSound
  <2> QED BY <2>2, <2>4
<1> HIDE DEF r
<1> QED BY <1>1, <1>2, <1>3, SendStep

LEMMA LoadReportStep ==
  ASSUME NetInv, ServerOK', NEW s \in Slots, ServerLoaded(s)
  PROVE  NetPart'
<1> DEFINE open == OpenAttempts(db'.journal)
           status == StatusPackets(recovery', active', present')
           p == IF recovery'.stage = "ApplyingSnapshot" THEN status ELSE <<>>
           r == [t \in Slots |-> p]
<1>1. ServerTakes(s, "Loaded")
  BY DEF ServerLoaded
<1>2. CASE UNCHANGED <<vars, toClient>>
  BY <1>1, <1>2, IgnoredStep
<1>3. CASE ~UNCHANGED <<vars, toClient>>
  <2>1. OnRecoveryLoadedResult(s)
    BY <1>3 DEF ServerLoaded
  <2>2. /\ NoCompletion(db.journal, db'.journal) /\ KeepsCount(recovery, recovery')
        /\ recovery' # None /\ present' = present /\ present = Slots
        /\ OpenAttempts(db.journal) # {}
    BY <2>1, LoadedEffect DEF NetInv
  <2>3. Rec' = recovery'
    BY <2>2 DEF Rec
  <2>4. recovery' \in RecoveryActivity /\ recovery'.attempt \in open
    BY <2>2, <2>3, RecSoundAfter DEF ServerOK, RecOK
  <2>5. toClient' = [t \in Slots |-> IF t \in present /\ link[t] = "up"
                                     THEN toClient[t] \o p ELSE toClient[t]]
    BY <1>3, <2>3 DEF ServerLoaded, Broadcast, StatusPackets, CurrentState
  <2>6. SafeToSend(status, open)
    BY <2>2, <2>4, StatusSafe
  <2> HIDE DEF status
  <2>7. SafeToSend(p, open)
    BY <2>6, NothingIsSafe
  <2> HIDE DEF p
  <2>8. ASSUME NEW t \in Slots PROVE SoundPackets(t, r[t]) /\ SoundCount(t)
    <3>1. SoundPackets(t, r[t])
      BY <2>2, <2>7, SafeIsSound
    <3>2. link[t] = "down" => t \notin present'
      BY <2>2 DEF NetInv, SlotOK, LinkOK
    <3>3. SoundCount(t)
      BY <2>2, <3>2, KeptCount
    <3> QED BY <3>1, <3>3
  <2>9. 0 \notin Done(db'.journal)
    BY <2>2, NoCompletionDone DEF NetInv
  <2>10. toClient' = [t \in Slots |-> IF t \in present' /\ link[t] = "up"
                                      THEN toClient[t] \o r[t] ELSE toClient[t]]
    BY <2>2, <2>5
  <2> HIDE DEF r
  <2> QED BY <1>1, <2>8, <2>9, <2>10, SendStep
<1> QED BY <1>2, <1>3

\* Everybody the second barrier counts, the sender included, stands in the
\* world of the attempt.
LEMMA CountedStand ==
  ASSUME NetInv, NEW s \in Slots, ServerTakes(s, "Applied"),
         MatchesAttempt(Head(toServer[s])), recovery = Rec
  PROVE  \A t \in recovery.applied \cup {s} :
           t \in Slots => Stands(client[t], link[t], recovery.attempt, recovery.checkpoint)
<1> DEFINE m == Head(toServer[s])
<1>1. /\ recovery # None /\ recovery.attempt = m.attempt /\ recovery.checkpoint = m.cp
  BY DEF MatchesAttempt
<1>2. m.attempt \notin Done(db.journal) \cup {0}
  BY <1>1, OpenNotDone DEF NetInv
<1>3. Stands(client[s], link[s], m.attempt, m.cp)
  BY <1>2, TakesFacts
<1>4. ASSUME NEW t \in recovery.applied, t \in Slots
      PROVE  Stands(client[t], link[t], recovery.attempt, recovery.checkpoint)
  <2>1. CountedOK(client[t], link[t], t, recovery)
    BY <1>4 DEF NetInv, SlotOK
  <2> QED BY <1>1, <1>4, <2>1 DEF CountedOK
<1> QED BY <1>1, <1>3, <1>4

\* A completion is a packet to a client.
LEMMA CompleteSafe ==
  ASSUME NEW m \in Applieds, NEW act, NEW pres
  PROVE  LET c == CompleteMsg(m)
             d == SnapshotMsg(RuntimeState(None, act, pres))
         IN  /\ <<c, d>> \in Seq(ClientPackets) /\ <<d>> \in Seq(ClientPackets)
             /\ c.type = "Complete" /\ c.attempt = m.attempt /\ d.type = "Snapshot"
<1> DEFINE c == CompleteMsg(m)
           d == SnapshotMsg(RuntimeState(None, act, pres))
<1>1. c \in Completes /\ c.type = "Complete" /\ c.attempt = m.attempt
  BY DEF CompleteMsg, Completes, Applieds
<1>2. RuntimeState(None, act, pres) \in RuntimeStates
  BY DEF RuntimeState, RuntimeStates
<1>3. d \in Snapshots /\ d.type = "Snapshot"
  BY <1>2 DEF SnapshotMsg, Snapshots
<1> HIDE DEF c, d
<1>4. c \in ClientPackets /\ d \in ClientPackets
  BY <1>1, <1>3 DEF ClientPackets
<1>5. <<c, d>> \in Seq(ClientPackets) /\ <<d>> \in Seq(ClientPackets)
  BY <1>4
<1> QED BY <1>1, <1>3, <1>5 DEF c, d

LEMMA AckReportStep ==
  ASSUME NetInv, ServerOK', NEW s \in Slots, ServerApplied(s)
  PROVE  NetPart'
<1> DEFINE m == Head(toServer[s])
           c == CompleteMsg(m)
           d == SnapshotMsg(RuntimeState(None, active', present'))
<1>1. ServerTakes(s, "Applied")
  BY DEF ServerApplied
<1>2. m \in ServerPackets /\ m.type = "Applied"
  BY <1>1, TakesFacts
<1>3. m \in Applieds
  BY <1>2 DEF ServerPackets, Resumes, Loadeds, Applieds
<1>4. /\ <<c, d>> \in Seq(ClientPackets) /\ <<d>> \in Seq(ClientPackets)
      /\ c.type = "Complete" /\ c.attempt = m.attempt /\ d.type = "Snapshot"
  BY <1>3, CompleteSafe
<1>5. ASSUME NEW t, NEW p \in {<<c, d>>, <<d>>}, m.attempt \in Done(db'.journal),
             OpenAttempts(db'.journal) = {}
      PROVE  SoundPackets(t, p)
  <2> HIDE DEF c, d
  <2>1. p \in Seq(ClientPackets) /\ \A k \in DOMAIN p : p[k] \in {c, d}
    <3>1. \A k \in DOMAIN <<c, d>> : <<c, d>>[k] \in {c, d}
      OBVIOUS
    <3>2. \A k \in DOMAIN <<d>> : <<d>>[k] \in {c, d}
      OBVIOUS
    <3>3. CASE p = <<c, d>>
      BY <1>4, <3>1, <3>3
    <3>4. CASE p = <<d>>
      BY <1>4, <3>2, <3>4
    <3> QED BY <3>3, <3>4
  <2> QED BY <1>4, <1>5, <2>1 DEF SoundPackets
<1>6. CASE UNCHANGED <<vars, toClient>>
  BY <1>1, <1>6, IgnoredStep
<1>7. CASE /\ MatchesAttempt(m) /\ OnRecoverySnapshotApplied(s)
           /\ Broadcast(present, IF recovery' = None
                THEN <<c, SnapshotMsg(CurrentState')>> ELSE <<>>)
  <2>1. /\ recovery # None /\ recovery = Rec /\ recovery.stage = "ApplyingSnapshot"
        /\ present' = present /\ present = Slots
    BY <1>7, AppliedEffect DEF NetInv
  <2>2. \A t \in recovery.applied \cup {s} :
          t \in Slots => Stands(client[t], link[t], recovery.attempt, recovery.checkpoint)
    BY <1>1, <1>7, <2>1, CountedStand
  <2>3. \A t \in Slots : link[t] # "down"
    BY <2>1 DEF NetInv, SlotOK, LinkOK
  <2>4. CASE /\ NoCompletion(db.journal, db'.journal)
             /\ OpenAttempts(db'.journal) = OpenAttempts(db.journal)
             /\ recovery' # None
             /\ recovery'.applied = recovery.applied \cup {s}
             /\ recovery'.stage = "ApplyingSnapshot"
             /\ recovery'.attempt = recovery.attempt
             /\ recovery'.checkpoint = recovery.checkpoint
    <3> DEFINE r == [t \in Slots |-> <<>>]
    <3>1. toClient' = [t \in Slots |-> IF t \in present' /\ link[t] = "up"
                                       THEN toClient[t] \o r[t] ELSE toClient[t]]
      BY <1>7, <2>1, <2>4 DEF Broadcast
    <3>2. Done(db'.journal) = Done(db.journal)
      BY <2>4, NoCompletionDone
    <3>3. ASSUME NEW t \in Slots PROVE SoundPackets(t, r[t]) /\ SoundCount(t)
      <4>1. SafeToSend(<<>>, OpenAttempts(db'.journal))
        BY NothingIsSafe
      <4>2. SoundPackets(t, r[t])
        BY <2>1, <2>4, <4>1, SafeIsSound
      <4>3. CountedOK(client[t], link[t], t, recovery')
        BY <2>2, <2>4 DEF CountedOK
      <4> QED BY <2>1, <2>3, <3>2, <4>2, <4>3 DEF SoundCount
    <3>4. 0 \notin Done(db'.journal)
      BY <3>2 DEF NetInv
    <3> HIDE DEF r
    <3> QED BY <1>1, <3>1, <3>3, <3>4, SendStep
  <2>5. CASE /\ recovery' = None
             /\ recovery.applied \cup {s} = Slots
             /\ Done(db'.journal) = Done(db.journal) \cup {recovery.attempt}
             /\ OpenAttempts(db'.journal) = {}
    <3> DEFINE r == [t \in Slots |-> <<c, d>>]
    <3>1. Rec' = None
      BY <2>5, RecSoundAfter DEF ServerOK, RecOK
    <3>2. SnapshotMsg(CurrentState') = d
      BY <3>1 DEF CurrentState
    <3>3. toClient' = [t \in Slots |-> IF t \in present' /\ link[t] = "up"
                                       THEN toClient[t] \o r[t] ELSE toClient[t]]
      <4> HIDE DEF c, d
      <4> QED BY <1>7, <2>1, <2>5, <3>2 DEF Broadcast
    <3>4. m.attempt = recovery.attempt /\ recovery.attempt # 0
      BY <1>7, <2>1, OpenNotDone DEF MatchesAttempt, NetInv
    <3>5. ASSUME NEW t \in Slots PROVE SoundPackets(t, r[t]) /\ SoundCount(t)
      <4>1. SoundPackets(t, r[t])
        <5> HIDE DEF c, d
        <5> QED BY <1>5, <2>5, <3>4
      <4>2. CountedOK(client[t], link[t], t, recovery')
        BY <2>5 DEF CountedOK
      <4>3. Stands(client[t], link[t], recovery.attempt, recovery.checkpoint)
        BY <2>2, <2>5
      <4>4. SoundCount(t)
        BY <2>1, <2>3, <2>5, <4>2, <4>3 DEF SoundCount
      <4> QED BY <4>1, <4>4
    <3>6. 0 \notin Done(db'.journal)
      BY <2>5, <3>4 DEF NetInv
    <3> HIDE DEF r
    <3> QED BY <1>1, <3>3, <3>5, <3>6, SendStep
  <2> QED BY <1>7, <2>4, <2>5, AppliedEffect DEF NetInv
<1>8. CASE /\ Rec = None /\ UNCHANGED vars
           /\ \E e \in Receipts(db.journal, "CompleteRecovery", m.attempt) :
                 e.cp = m.cp /\ e.resulting = m.restore
           /\ toClient' = [x \in Slots |->
                IF x \notin present \/ link[x] # "up" THEN toClient[x]
                ELSE toClient[x] \o
                       IF x = s THEN <<c, SnapshotMsg(CurrentState)>>
                                ELSE <<SnapshotMsg(CurrentState)>>]
  <2> DEFINE r == [t \in Slots |-> IF t = s THEN <<c, d>> ELSE <<d>>]
  <2>1. /\ db' = db /\ recovery' = recovery /\ present' = present /\ active' = active
    BY <1>8 DEF vars
  <2>2. SnapshotMsg(CurrentState) = d
    BY <1>8, <2>1 DEF CurrentState
  <2>3. toClient' = [t \in Slots |-> IF t \in present' /\ link[t] = "up"
                                     THEN toClient[t] \o r[t] ELSE toClient[t]]
    <3> HIDE DEF c, d
    <3> QED BY <1>8, <2>1, <2>2
  <2>4. m.attempt \in Done(db'.journal)
    BY <1>8, <2>1 DEF Receipts, Done, Attempts
  <2>5. OpenAttempts(db'.journal) = {}
    BY <1>8, <2>1, RecSound DEF RecOK, NetInv, ServerOK
  <2>6. ASSUME NEW t \in Slots PROVE SoundPackets(t, r[t]) /\ SoundCount(t)
    <3>1. SoundPackets(t, r[t])
      <4> HIDE DEF c, d
      <4>1. r[t] \in {<<c, d>>, <<d>>}
        OBVIOUS
      <4> QED BY <1>5, <2>4, <2>5, <4>1
    <3>2. SoundCount(t)
      BY <2>1 DEF SoundCount, NetInv, SlotOK, LinkOK
    <3> QED BY <3>1, <3>2
  <2>7. 0 \notin Done(db'.journal)
    BY <2>1 DEF NetInv
  <2> HIDE DEF r
  <2> QED BY <1>1, <2>3, <2>6, <2>7, SendStep
<1> QED BY <1>6, <1>7, <1>8 DEF ServerApplied

LEMMA LossStep ==
  ASSUME NetInv, ServerOK', NEW s \in Slots, ServerLeave(s)
  PROVE  NetPart'
<1> DEFINE open == OpenAttempts(db'.journal)
           p == <<SnapshotMsg(RuntimeState(Rec', active', present'))>>
<1>1. /\ link[s] = "lost" /\ toServer[s] = <<>> /\ link' = [link EXCEPT ![s] = "down"]
      /\ client' = client /\ world' = world /\ toServer' = toServer
  BY DEF ServerLeave
<1>2. NetTypeOK /\ SlotOK(s) /\ 0 \notin Done(db.journal)
  BY DEF NetInv
<1>3. /\ link'[s] = "down" /\ toClient[s] = <<>>
      /\ \A t \in Slots : t # s => link'[t] = link[t]
  BY <1>1, <1>2 DEF NetTypeOK, SlotOK, LinkOK
<1>4. CASE s \in present
  <2>1. /\ OnPlayerLeave(s)
        /\ toClient' = [t \in Slots |-> IF t \in present' /\ link[t] = "up"
                                        THEN toClient[t] \o p ELSE toClient[t]]
    BY <1>4 DEF ServerLeave, Broadcast, CurrentState
  <2>2. /\ NoCompletion(db.journal, db'.journal)
        /\ recovery' # None => recovery'.applied = {}
        /\ present' = present \ {s}
    BY <2>1, LeaveEffect DEF NetInv
  <2>3. Done(db'.journal) = Done(db.journal)
    BY <2>2, NoCompletionDone
  <2>4. /\ Rec' = None => open = {}
        /\ Rec' # None => Rec' \in RecoveryActivity
    BY RecSoundAfter DEF ServerOK, RecOK
  <2>5. SafeToSend(p, open) /\ 1 \in DOMAIN p /\ (open # {} => Locking(p[1]))
    BY <2>4, SnapshotSafe
  <2> HIDE DEF p
  <2>6. p \in Seq(ClientPackets)
    BY <2>5 DEF SafeToSend
  <2>7. ASSUME NEW t \in Slots PROVE CountedOK(client[t], link'[t], t, recovery')
    BY <2>2 DEF CountedOK
  <2>8. SlotOK(s)'
    <3>1. ClientOK(client[s], world[s], Done(db.journal))
      BY <1>2 DEF SlotOK
    <3>2. /\ InboxOK(client[s], <<>>, Done(db.journal))
          /\ OutboxOK(client[s], "down", <<>>, Done(db.journal))
      BY DEF InboxOK, OutboxOK
    <3>3. toClient'[s] = <<>> /\ s \notin present'
      BY <1>3, <2>1, <2>2
    <3> QED BY <1>1, <1>3, <2>3, <2>7, <3>1, <3>2, <3>3 DEF SlotOK, LinkOK
  <2>9. ASSUME NEW t \in Slots, t # s PROVE SlotOK(t)'
    <3>1. SlotOK(t) /\ link'[t] = link[t]
      BY <1>3, <2>9 DEF NetInv
    <3>2. Served(t, p)
      BY <1>1, <2>1, <3>1 DEF Served
    <3>3. SoundPackets(t, p)
      BY <2>5, SafeIsSound
    <3>4. SoundCount(t)
      BY <2>2, <2>3, <2>7, <2>9, <3>1 DEF SoundCount, SlotOK, LinkOK
    <3> QED BY <1>2, <3>1, <3>2, <3>3, <3>4, ServedOK
  <2>10. toClient' \in [Slots -> Seq(ClientPackets)]
    <3> SUFFICES ASSUME NEW t \in Slots PROVE toClient'[t] \in Seq(ClientPackets)
      BY <2>1
    <3>1. toClient[t] \in Seq(ClientPackets)
      BY <1>2 DEF NetTypeOK
    <3>2. toClient[t] \o p \in Seq(ClientPackets)
      BY <2>6, <3>1, ConcatElems
    <3> QED BY <2>1, <3>1, <3>2
  <2>11. NetTypeOK'
    BY <1>1, <1>2, <2>10 DEF NetTypeOK
  <2> QED BY <1>2, <2>3, <2>8, <2>9, <2>11 DEF NetPart
<1>5. CASE s \notin present
  <2>1. /\ db' = db /\ recovery' = recovery /\ present' = present /\ toClient' = toClient
    BY <1>5 DEF ServerLeave, vars
  <2>2. CountedOK(client[s], "down", s, recovery)
    BY <1>1, <1>2 DEF SlotOK, CountedOK, Stands
  <2>3. /\ InboxOK(client[s], <<>>, Done(db.journal))
        /\ OutboxOK(client[s], "down", <<>>, Done(db.journal))
    BY DEF InboxOK, OutboxOK
  <2>4. SlotOK(s)'
    BY <1>1, <1>2, <1>3, <1>5, <2>1, <2>2, <2>3 DEF SlotOK, LinkOK
  <2>5. ASSUME NEW t \in Slots, t # s PROVE SlotOK(t)'
    <3>1. SlotOK(t)
      BY DEF NetInv
    <3> QED BY <1>1, <1>3, <2>1, <2>5, <3>1, SlotSame
  <2>6. NetTypeOK'
    BY <1>1, <1>2, <2>1 DEF NetTypeOK
  <2> QED BY <1>2, <2>1, <2>4, <2>5, <2>6 DEF NetPart
<1> QED BY <1>4, <1>5

LEMMA StandStillStep ==
  ASSUME NetInv, UNCHANGED allVars
  PROVE  NetPart'
<1>1. /\ db' = db /\ recovery' = recovery /\ present' = present /\ client' = client
      /\ world' = world /\ link' = link /\ toServer' = toServer /\ toClient' = toClient
  BY DEF allVars, vars, netVars
<1>2. ASSUME NEW s \in Slots PROVE SlotOK(s)'
  <2>1. SlotOK(s)
    BY DEF NetInv
  <2> QED BY <1>1, <2>1, SlotSame
<1> QED BY <1>1, <1>2 DEF NetPart, NetInv, NetTypeOK

\* Every step keeps the invariant.
LEMMA NetNextOK ==
  ASSUME NetInv, [NetNext]_allVars
  PROVE  NetInv'
<1>1. ServerOK'
  BY NetIsNext, ServerNext DEF NetInv
<1>2. NetPart'
  <2>1. ASSUME NEW s \in Slots, ClientReceive(s) PROVE NetPart'
    BY <2>1, ReceiveStep
  <2>2. ASSUME NEW s \in Slots, FinishNativeLoad(s) PROVE NetPart'
    BY <2>2, LoadEndStep
  <2>3. ASSUME NEW s \in Slots, Reconnect(s) PROVE NetPart'
    BY <2>3, ReconnectStep
  <2>4. ASSUME NEW s \in Slots, ServerResume(s) PROVE NetPart'
    BY <1>1, <2>4, ResumedStep
  <2>5. ASSUME NEW s \in Slots, ServerLoaded(s) PROVE NetPart'
    BY <1>1, <2>5, LoadReportStep
  <2>6. ASSUME NEW s \in Slots, ServerApplied(s) PROVE NetPart'
    BY <1>1, <2>6, AckReportStep
  <2>7. ASSUME NEW s \in Slots, ServerLeave(s) PROVE NetPart'
    BY <1>1, <2>7, LossStep
  <2>8. ASSUME NEW s \in Slots, Drop(s) PROVE NetPart'
    BY <2>8, DropStep
  <2>9. ASSUME NEW s \in Slots, ClientRestart(s) PROVE NetPart'
    BY <2>9, RestartedStep
  <2>10. CASE ServerCrash
    BY <2>10, CrashStep
  <2>11. CASE UNCHANGED allVars
    BY <2>11, StandStillStep
  <2> QED BY <2>1, <2>2, <2>3, <2>4, <2>5, <2>6, <2>7, <2>8, <2>9, <2>10, <2>11
          DEF NetNext
<1> QED BY <1>1, <1>2 DEF NetInv, NetPart

-----------------------------------------------------------------------------
(***************************************************************************)
(* The initial states: a campaign in play after one committed checkpoint.   *)
(***************************************************************************)
LEMMA StartedFields ==
  /\ StartedCampaign \in Database
  /\ StartedCampaign.last = None
  /\ \A e \in StartedCampaign.journal :
       e.kind \notin RecoveryKinds /\ e.attempt = 0
         /\ e.resulting <= StartedCampaign.revision
<1> DEFINE c == Entry("CreateCampaign", 0, 1, 0, None, None, 0)
           t == Entry("CommitCampaignStart", 1, 2, 0, None, None, 0)
           d == StartedCampaign
<1>1. /\ 0 \in Nat /\ 1 \in Nat /\ 2 \in Nat
      /\ "CreateCampaign" \in Kinds /\ "CommitCampaignStart" \in Kinds
      /\ None \in Slots \cup {None} /\ None \in CheckpointIds \cup {None}
  BY DEF Kinds
<1>2. c \in JournalRecord /\ t \in JournalRecord
  BY <1>1, EntryType
<1>3. /\ c.kind = "CreateCampaign" /\ c.attempt = 0 /\ c.resulting = 1
      /\ t.kind = "CommitCampaignStart" /\ t.attempt = 0 /\ t.resulting = 2
  BY EntryFields
<1>4. /\ d.revision = 2 /\ d.core = [ready |-> {}, version |-> 2]
      /\ d.cps = [x \in CheckpointIds |-> AbsentCheckpoint]
      /\ d.last = None /\ d.journal = {c, t} /\ d.outbox = {1, 2}
      /\ d = [revision |-> d.revision, core |-> d.core, cps |-> d.cps,
              last |-> d.last, journal |-> d.journal, outbox |-> d.outbox]
  BY DEF StartedCampaign
<1> HIDE DEF c, t, d
<1>5. AbsentCheckpoint \in CheckpointRecord
  BY DEF AbsentCheckpoint, CheckpointRecord, Core, NoSaves
<1>6. d \in Database
  <2>1. d.core \in Core
    BY <1>4 DEF Core
  <2>2. d.cps \in [CheckpointIds -> CheckpointRecord]
    BY <1>4, <1>5
  <2> QED BY <1>2, <1>4, <2>1, <2>2 DEF Database
<1>7. \A e \in d.journal : e.kind \notin RecoveryKinds /\ e.attempt = 0
                             /\ e.resulting <= d.revision
  BY <1>3, <1>4 DEF RecoveryKinds
<1> QED BY <1>4, <1>6, <1>7 DEF d

\* A finite roster can be enumerated.
LEMMA SaveOrderType ==
  /\ Cardinality(Slots) \in Nat
  /\ SaveOrder \in [1..Cardinality(Slots) -> Slots]
<1>1. Cardinality(Slots) \in Nat /\ ExistsBijection(1..Cardinality(Slots), Slots)
  BY FiniteRosterAssumption, FS_CardinalityType
<1>2. PICK q \in [1..Cardinality(Slots) -> Slots] :
        \A s \in Slots : \E i \in 1..Cardinality(Slots) : q[i] = s
  BY <1>1 DEF ExistsBijection, Bijection, Surjection
<1>3. \A s \in Slots : \E i \in DOMAIN q : q[i] = s
  BY <1>2
<1>4. SaveOrder \in [1..Cardinality(Slots) -> Slots]
  BY <1>3 DEF SaveOrder
<1> QED BY <1>1, <1>4

\* The saves of the roster are written at revisions of their own.
LEMMA SlotSavesFields ==
  ASSUME NEW d \in Database, NEW cp \in CheckpointIds, NEW saves \in [Slots -> Artifacts]
  PROVE  LET n == RecordSlotSaves(d, cp, saves) IN
         /\ n \in Database
         /\ n.revision \in Nat /\ n.revision >= d.revision
         /\ \A e \in n.journal \ d.journal :
              e.kind \notin RecoveryKinds /\ e.attempt = 0 /\ e.resulting <= n.revision
<1> DEFINE size == Cardinality(Slots)
           R(i) == Entry("RecordCheckpointSlotSave", d.revision + (i - 1), d.revision + i,
                         0, SaveOrder[i], cp, 0)
           rows == {R(i) : i \in 1..size}
           c == [d.cps[cp] EXCEPT !.saves = saves]
           n == RecordSlotSaves(d, cp, saves)
<1>1. size \in Nat /\ SaveOrder \in [1..size -> Slots] /\ d.revision \in Nat
  BY SaveOrderType DEF Database
<1>2. n = [d EXCEPT !.revision = d.revision + size, !.cps = [d.cps EXCEPT ![cp] = c],
                    !.journal = d.journal \cup rows]
  BY DEF RecordSlotSaves, Database
<1>3. ASSUME NEW i \in 1..size
      PROVE  /\ R(i) \in JournalRecord /\ R(i).kind = "RecordCheckpointSlotSave"
             /\ R(i).attempt = 0 /\ R(i).resulting <= d.revision + size
  <2> DEFINE x == d.revision + (i - 1)
             y == d.revision + i
             w == SaveOrder[i]
  <2>1. x \in Nat /\ y \in Nat /\ y <= d.revision + size /\ w \in Slots
    <3> HIDE DEF size
    <3> QED BY <1>1
  <2> HIDE DEF x, y, w
  <2>2. /\ "RecordCheckpointSlotSave" \in Kinds /\ 0 \in Nat /\ w \in Slots \cup {None}
        /\ cp \in CheckpointIds \cup {None}
    BY <2>1 DEF Kinds
  <2>3. Entry("RecordCheckpointSlotSave", x, y, 0, w, cp, 0) \in JournalRecord
    BY <2>1, <2>2, EntryType
  <2>4. R(i) = Entry("RecordCheckpointSlotSave", x, y, 0, w, cp, 0)
    BY DEF x, y, w
  <2> HIDE DEF R
  <2> QED BY <2>1, <2>3, <2>4, EntryFields
<1> HIDE DEF R
<1>4. rows \subseteq JournalRecord
  BY <1>3
<1>5. \A e \in rows : e.kind \notin RecoveryKinds /\ e.attempt = 0
                        /\ e.resulting <= d.revision + size
  BY <1>3 DEF RecoveryKinds
<1>6. c \in CheckpointRecord
  <2>1. d.cps[cp] \in CheckpointRecord /\ saves \in [Slots -> Artifacts \cup {None}]
    BY DEF Database
  <2> QED BY <2>1 DEF CheckpointRecord
<1> HIDE DEF rows, c
<1> DEFINE cs == [d.cps EXCEPT ![cp] = c]
           rev == d.revision + size
           j == d.journal \cup rows
<1>7. cs \in [CheckpointIds -> CheckpointRecord] /\ j \in SUBSET JournalRecord
  BY <1>4, <1>6 DEF Database
<1>8. rev \in Nat /\ rev >= d.revision
  <2> HIDE DEF size
  <2> QED BY <1>1
<1>9. n = [d EXCEPT !.revision = rev, !.cps = cs, !.journal = j]
  BY <1>2
<1>10. \A e \in j \ d.journal : e.kind \notin RecoveryKinds /\ e.attempt = 0
                                  /\ e.resulting <= rev
  BY <1>5
<1> HIDE DEF n, cs, rev, j
<1>11. n \in Database /\ n.revision = rev /\ n.journal = j
  BY <1>7, <1>8, <1>9 DEF Database
<1> QED BY <1>8, <1>10, <1>11 DEF n

LEMMA CheckpointedFields ==
  ASSUME NEW cp \in CheckpointIds, NEW saves \in [Slots -> Artifacts]
  PROVE  LET n == CheckpointedCampaign(cp, saves) IN
         /\ n \in Database
         /\ n.last = cp /\ n.cps[cp].state = "Committed"
         /\ \A e \in n.journal :
              e.kind \notin RecoveryKinds /\ e.attempt = 0 /\ e.resulting <= n.revision
<1> DEFINE Plain(d) ==
             /\ d \in Database
             /\ \A e \in d.journal :
                  e.kind \notin RecoveryKinds /\ e.attempt = 0 /\ e.resulting <= d.revision
           a == StartedCampaign
           b == CreateCheckpointCandidate(a, cp)
           c == RecordSlotSaves(b, cp, saves)
           n == CommitCheckpoint(c, cp)
<1>1. ASSUME NEW d, NEW k, NEW x, Plain(d), k \in Database, k.revision = d.revision + 1,
             NEW kind, kind \notin RecoveryKinds,
             k.journal = d.journal \cup {Entry(kind, d.revision, d.revision + 1, 0, None, x, 0)}
      PROVE  Plain(k)
  <2> DEFINE e == Entry(kind, d.revision, d.revision + 1, 0, None, x, 0)
  <2>1. e.kind = kind /\ e.attempt = 0 /\ e.resulting = d.revision + 1
    BY EntryFields
  <2> HIDE DEF e
  <2>2. d.revision \in Nat /\ \A y \in d.journal : y.resulting \in Nat
    BY <1>1 DEF Database, JournalRecord
  <2> QED BY <1>1, <2>1, <2>2 DEF e
<1>2. Plain(a)
  BY StartedFields
<1> HIDE DEF a
<1>3. Plain(b)
  <2>1. "CreateCheckpointCandidate" \notin RecoveryKinds
    BY DEF RecoveryKinds
  <2>2. /\ b \in Database /\ b.revision = a.revision + 1
        /\ b.journal = a.journal \cup
             {Entry("CreateCheckpointCandidate", a.revision, a.revision + 1, 0, None, cp, 0)}
    BY <1>2, CandidateFields
  <2> HIDE DEF Plain, b
  <2> QED BY <1>1, <1>2, <2>1, <2>2
<1> HIDE DEF b
<1>4. Plain(c)
  <2>1. /\ c \in Database /\ c.revision \in Nat /\ c.revision >= b.revision
        /\ \A e \in c.journal \ b.journal :
             e.kind \notin RecoveryKinds /\ e.attempt = 0 /\ e.resulting <= c.revision
    BY <1>3, SlotSavesFields
  <2>2. b.revision \in Nat /\ \A y \in b.journal : y.resulting \in Nat
    BY <1>3 DEF Database, JournalRecord
  <2> HIDE DEF c
  <2> QED BY <1>3, <2>1, <2>2
<1> HIDE DEF c
<1>5. Plain(n) /\ n.last = cp /\ n.cps[cp].state = "Committed"
  <2>1. "CommitCheckpoint" \notin RecoveryKinds
    BY DEF RecoveryKinds
  <2>2. /\ n \in Database /\ n.revision = c.revision + 1
        /\ n.last = cp /\ n.cps[cp].state = "Committed"
        /\ n.journal = c.journal \cup
             {Entry("CommitCheckpoint", c.revision, c.revision + 1, 0, None, cp, 0)}
    BY <1>4, CommitFields
  <2> HIDE DEF Plain, n
  <2> QED BY <1>1, <1>4, <2>1, <2>2
<1>6. CheckpointedCampaign(cp, saves) = n
  BY DEF CheckpointedCampaign, n, c, b, a
<1> QED BY <1>5, <1>6

LEMMA NetInitOK ==
  ASSUME NetInit
  PROVE  NetInv
<1>1. PICK cp \in CheckpointIds : \E saves \in [Slots -> Artifacts] :
        db = CheckpointedCampaign(cp, saves)
  BY DEF NetInit
<1>2. /\ db \in Database /\ db.last = cp /\ db.cps[cp].state = "Committed"
      /\ \A e \in db.journal :
           e.kind \notin RecoveryKinds /\ e.attempt = 0 /\ e.resulting <= db.revision
  BY <1>1, CheckpointedFields
<1>3. /\ active = None /\ recovery = None /\ present = Slots /\ pendingLoad = FALSE
      /\ world = [s \in Slots |-> "played"] /\ link = [s \in Slots |-> "up"]
      /\ client = [s \in Slots |-> [IdleClient EXCEPT !.protect = TRUE]]
      /\ toServer = [s \in Slots |-> <<>>] /\ toClient = [s \in Slots |-> <<>>]
  BY DEF NetInit
<1>4. \A k \in RecoveryKinds : OfKind(db.journal, k) = {}
  BY <1>2 DEF OfKind
<1>5. OpenAttempts(db.journal) = {} /\ Done(db.journal) = {}
  BY <1>4 DEF OpenAttempts, Attempts, Done, RecoveryKinds
<1>6. IInv
  <2>1. TypeOK
    BY <1>2, <1>3 DEF TypeOK
  <2>2. RevisionBounds
    BY <1>2 DEF RevisionBounds, Database
  <2>3. ReceiptsNameSlots
    BY <1>2 DEF ReceiptsNameSlots, RecoveryKinds
  <2>4. OneAttempt /\ RolledBackExactly
    BY <1>5 DEF OneAttempt, RolledBackExactly
  <2>5. RecoveryIsOpen /\ CheckpointInProgress /\ LastIsCommitted
    BY <1>2, <1>3 DEF RecoveryIsOpen, CheckpointInProgress, LastIsCommitted
  <2> QED BY <2>1, <2>2, <2>3, <2>4, <2>5 DEF IInv
<1>7. CurrentBarriers
  BY <1>3 DEF CurrentBarriers, BarriersOpen
<1>8. CurrentMemory
  <2>1. BeginsOrdered(db) /\ RestoresMatch(db)
    BY <1>4 DEF BeginsOrdered, RestoresMatch, RecoveryKinds
  <2> QED BY <1>3, <1>5, <2>1, ScannableClosed DEF CurrentMemory, MemoryMatches
<1>9. NetTypeOK
  <2>1. [IdleClient EXCEPT !.protect = TRUE] \in ClientState
    BY DEF IdleClient, ClientState
  <2>2. <<>> \in Seq(ClientPackets) /\ <<>> \in Seq(ServerPackets)
    OBVIOUS
  <2> QED BY <1>3, <2>1, <2>2 DEF NetTypeOK
<1>10. ASSUME NEW s \in Slots PROVE SlotOK(s)
  <2> DEFINE c == [IdleClient EXCEPT !.protect = TRUE]
  <2>1. c.stage = "Idle" /\ c.attempt = 0
    BY DEF IdleClient
  <2>2. /\ client[s] = c /\ link[s] = "up" /\ toClient[s] = <<>> /\ toServer[s] = <<>>
    BY <1>3
  <2> HIDE DEF c
  <2>3. /\ ClientOK(c, world[s], {}) /\ InboxOK(c, <<>>, {}) /\ OutboxOK(c, "up", <<>>, {})
        /\ CountedOK(c, "up", s, None) /\ LinkOK("up", s \in present, <<>>, <<>>)
    BY <2>1 DEF ClientOK, InboxOK, OutboxOK, CountedOK, LinkOK
  <2> QED BY <1>3, <1>5, <2>2, <2>3 DEF SlotOK
<1> QED BY <1>5, <1>6, <1>7, <1>8, <1>9, <1>10 DEF NetInv, ServerOK

-----------------------------------------------------------------------------
(***************************************************************************)
(* The theorems.                                                            *)
(***************************************************************************)
\* The two queues of every member agree with its client and with the journal,
\* across losses, restarts, late packets and failing stores.
THEOREM EndToEnd == NetSpec => []NetInv
<1>1. NetInit => NetInv
  BY NetInitOK
<1>2. NetInv /\ [NetNext]_allVars => NetInv'
  BY NetNextOK
<1> QED BY <1>1, <1>2, PTL DEF NetSpec

\* A connected, admitted member that plays while an attempt is open is about to
\* be told: the packet that locks it (OnCampaignSnapshot, OnLoadRequest) is in
\* flight.
THEOREM FenceReaches == NetSpec => []NobodyPlaysBehindTheFence
<1>1. NetInv => NobodyPlaysBehindTheFence
  <2> SUFFICES ASSUME NetInv, NEW s \in present, link[s] = "up", Playing(client[s]),
                      OpenAttempts(db.journal) # {}
               PROVE  \E i \in DOMAIN toClient[s] : Locking(toClient[s][i])
    BY DEF NobodyPlaysBehindTheFence, Locking
  <2>1. s \in Slots
    BY DEF NetInv, ServerOK, IInv, TypeOK
  <2> QED BY <2>1 DEF NetInv, SlotOK, Fenced
<1> QED BY <1>1, EndToEnd, PTL

\* The gate of the first member opens after the last one applied the snapshot:
\* a completion in flight (OnRecoveryComplete) names an attempt everybody has
\* been through, however the queues are delayed or lost.
THEOREM ReleaseTogether == NetSpec => []ReleasedTogether
<1>1. NetInv => ReleasedTogether
  <2> SUFFICES ASSUME NetInv, NEW s \in Slots, NEW t \in Slots,
                      client[s].stage = "Completed",
                      client[t].attempt = client[s].attempt
               PROVE  client[t].stage \in {"SnapshotApplied", "Completed"}
    BY DEF ReleasedTogether
  <2>1. /\ ClientOK(client[s], world[s], Done(db.journal))
        /\ ClientOK(client[t], world[t], Done(db.journal))
    BY DEF NetInv, SlotOK
  <2> QED BY <2>1 DEF ClientOK
<1> QED BY <1>1, EndToEnd, PTL

\* The step that completes an attempt finds every connected member in its world.
LEMMA CompletionStands ==
  ASSUME NetInv, [NetNext]_allVars,
         NEW e \in OfKind(db'.journal \ db.journal, "CompleteRecovery"),
         NEW t \in Slots, link[t] = "up"
  PROVE  /\ world[t] = e.cp
         /\ client[t].stage = "SnapshotApplied"
         /\ client[t].attempt = e.attempt
<1>1. ~NoCompletion(db.journal, db'.journal)
  BY DEF NoCompletion, OfKind
<1>2. PICK s \in Slots : ServerApplied(s) /\ db' # db
  <2>1. db' # db
    BY DEF OfKind
  <2>2. ASSUME NEW s \in Slots, ServerResume(s) PROVE FALSE
    <3>1. ServerTakes(s, "Resume") /\ OnResume(s, Head(toServer[s]).restore)
      BY <2>2 DEF ServerResume
    <3>2. Head(toServer[s]).restore \in BOOLEAN
      BY <3>1, TakesFacts DEF ServerPackets, Resumes, Loadeds, Applieds
    <3> QED BY <1>1, <3>1, <3>2, ResumeEffect DEF NetInv
  <2>3. ASSUME NEW s \in Slots, ServerLoaded(s) PROVE FALSE
    <3>1. OnRecoveryLoadedResult(s)
      BY <2>1, <2>3 DEF ServerLoaded, vars
    <3> QED BY <1>1, <3>1, LoadedEffect DEF NetInv
  <2>4. ASSUME NEW s \in Slots, ServerLeave(s) PROVE FALSE
    <3>1. OnPlayerLeave(s)
      BY <2>1, <2>4 DEF ServerLeave, vars
    <3> QED BY <1>1, <3>1, LeaveEffect DEF NetInv
  <2>5. ASSUME NEW s \in Slots,
               ClientReceive(s) \/ FinishNativeLoad(s) \/ Reconnect(s) \/ Drop(s)
                 \/ ClientRestart(s)
        PROVE  FALSE
    BY <2>1, <2>5
       DEF ClientReceive, FinishNativeLoad, Reconnect, Drop, ClientRestart, vars
  <2>6. ~ServerCrash /\ ~UNCHANGED allVars
    BY <2>1 DEF ServerCrash, ServerRestart, allVars, vars
  <2> QED BY <2>1, <2>2, <2>3, <2>4, <2>5, <2>6 DEF NetNext
<1>3. /\ ServerTakes(s, "Applied") /\ OnRecoverySnapshotApplied(s)
      /\ MatchesAttempt(Head(toServer[s]))
  BY <1>2 DEF ServerApplied, vars
<1>4. /\ recovery = Rec /\ recovery.applied \cup {s} = Slots
      /\ e.attempt = recovery.attempt /\ e.cp = recovery.checkpoint
  BY <1>1, <1>3, AppliedEffect DEF NetInv
<1>5. Stands(client[t], "up", e.attempt, e.cp)
  BY <1>3, <1>4, CountedStand
<1>6. ClientOK(client[t], world[t], Done(db.journal))
  BY DEF NetInv, SlotOK
<1> QED BY <1>5, <1>6 DEF Stands, ClientOK

\* When the server completes an attempt (OnRecoverySnapshotApplied), every
\* connected member stands gated in the native world of that very checkpoint,
\* snapshot applied: no acknowledgement of an older attempt, an older session or
\* a lost process was counted.
THEOREM CompletedTogether == NetSpec => CompletionMeansRolledBack
<1>1. NetInv /\ [NetNext]_allVars =>
        [\A e \in OfKind(db'.journal \ db.journal, "CompleteRecovery"), s \in Slots :
           link[s] = "up" =>
             /\ world[s] = e.cp
             /\ client[s].stage = "SnapshotApplied"
             /\ client[s].attempt = e.attempt]_allVars
  BY CompletionStands
<1> QED BY <1>1, EndToEnd, PTL DEF NetSpec, CompletionMeansRolledBack

\* With real packets, too, a pending "load the committed checkpoint" never
\* survives into play, as long as no store call fails.
THEOREM PendingLoadEndToEnd == ASSUME ~StoreMayFail PROVE NetSpec => []PendingLoadWaits
<1>1. NetInit => LoadsWait
  BY DEF NetInit, LoadsWait
<1>2. NetInv /\ LoadsWait /\ [NetNext]_allVars => LoadsWait'
  BY NetIsNext, LoadsWaitNext DEF NetInv, ServerOK
<1> QED BY <1>1, <1>2, LoadsWaitMeans, EndToEnd, PTL DEF NetSpec

\* A member whose connection is lost in the middle of play leaves a durable open
\* attempt behind, as long as no store call fails (PlayerLeave, Disconnect).
THEOREM LossLocksEndToEnd == ASSUME ~StoreMayFail PROVE NetSpec => LossLocksCampaign
<1>1. NetInv /\ [NetNext]_allVars =>
        [/\ CurrentState \in {"ACTIVE", "CHECKPOINTING"}
         /\ present' \subseteq present /\ present' # present
         => ServerRestart \/ OpenAttempts(db'.journal) # {}]_vars
  BY NetIsNext, LossOpens DEF NetInv, ServerOK
<1> QED BY <1>1, EndToEnd, PTL DEF NetSpec, LossLocksCampaign
=============================================================================
