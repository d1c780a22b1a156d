------------------------ MODULE CharacterStartProofs ------------------------
(***************************************************************************)
(* The collective start and the sealed builds, for any roster, any builds   *)
(* and any number of submissions, timeouts, failures and losses.            *)
(*                                                                          *)
(* The invariant is about one member at a time: its process k, the build K  *)
(* the server holds for it, and the packets u to and d from the server.     *)
(***************************************************************************)
EXTENDS CharacterStart, TLAPS

-----------------------------------------------------------------------------
(* Sequences of packets.                                                    *)

\* What Append does to the positions of a sequence.
LEMMA AppendItems ==
  ASSUME NEW S, NEW u \in Seq(S), NEW p \in S
  PROVE  LET a == Append(u, p)
         IN  /\ a \in Seq(S) /\ a # <<>>
             /\ DOMAIN u \subseteq Nat
             /\ \A i \in DOMAIN a : \/ i \in DOMAIN u /\ a[i] = u[i]
                                    \/ i = Len(u) + 1 /\ a[i] = p
             /\ \A i \in DOMAIN u : i < Len(u) + 1
             /\ Len(u) + 1 \notin DOMAIN u
             /\ \A i \in DOMAIN u : i \in DOMAIN a /\ a[i] = u[i]
  OBVIOUS

\* What taking the oldest packet does.
LEMMA TailItems ==
  ASSUME NEW S, NEW u \in Seq(S), u # <<>>
  PROVE  /\ Tail(u) \in Seq(S) /\ Head(u) \in S
         /\ 1 \in DOMAIN u /\ Head(u) = u[1]
         /\ DOMAIN Tail(u) \subseteq Nat
         /\ \A i \in DOMAIN Tail(u) : /\ i + 1 \in DOMAIN u /\ 1 < i + 1
                                      /\ Tail(u)[i] = u[i + 1]
  OBVIOUS

-----------------------------------------------------------------------------
(* The invariant of a member.                                               *)

Fields ==
  {"phase", "seal", "pick", "rev", "accepted", "worn", "online", "active",
   "locked", "auth", "required", "proj", "quest"}
IsRecord(k) == k = [f \in Fields |-> k[f]]
Chosen(phase, pick, seal, rev, accepted) ==
  /\ rev \in Nat
  /\ phase = "Summary" => pick \in Builds
  /\ seal \in {"applying", "finalizing"} => accepted \in Builds
IsProcess(k) ==
  IsRecord(k) /\ Chosen(k.phase, k.pick, k.seal, k.rev, k.accepted)

\* A process applies what the server accepted, or waits for it to be sealed.
Held(k) == k.seal \in {"applying", "finalizing"}
Offers(d) == {i \in DOMAIN d : d[i].type = "Accepted"}
Acks(u) == {i \in DOMAIN u : u[i].type = "Applied"}

\* Revision r, of build b, is not newer than the server's.
Fits(K, r, b) == K # None /\ r <= K.rev /\ (r = K.rev => b = K.build)

\* A process without a link has nothing under way, and the server holds
\* nothing for it; a process that does not require a campaign has ended.
Linked(k, K, here, u, d) ==
  /\ here <=> k.online
  /\ ~k.online => u = <<>> /\ d = <<>> /\ K = None /\ ~Held(k)
                  /\ k.seal # "requested"
  /\ ~k.required => k.phase = "Left" /\ k.quest = "none" /\ ~k.online
                    /\ ~k.proj.finalized

\* Nobody is authorized, and no investigation begins, before the latch.
Awaits(k, st, cp, d) ==
  /\ k.auth => st
  /\ \A i \in DOMAIN d : d[i].type = "Helgen" /\ d[i].started => st
  /\ k.quest = "begun" /\ ~cp => st

\* Revisions grow from what is acknowledged to what is held to what is offered,
\* and an acknowledgement under way is true of the character.
Suits(k, K) == k.worn = K.build \/ (k.worn = "partial" /\ k.phase # "Done")
Revisions(k, K, nx, u, d) ==
  /\ K # None => K \in Component /\ K.rev < nx
  /\ \A i \in Offers(d) : Fits(K, d[i].rev, d[i].build)
  /\ Held(k) => Fits(K, k.rev, k.accepted)
  /\ \A i \in Acks(u) : Fits(K, u[i].rev, u[i].build)
Ordered(k, K, u, d) ==
  /\ Held(k) => \A i \in Offers(d) : k.rev <= d[i].rev
  /\ \A i, j \in Offers(d) : i < j => d[i].rev <= d[j].rev
  /\ \A i \in Acks(u) : /\ Held(k) => u[i].rev <= k.rev
                        /\ \A j \in Offers(d) : u[i].rev <= d[j].rev
  /\ K # None /\ K.applied => /\ Held(k) => K.rev <= k.rev
                              /\ \A j \in Offers(d) : K.rev <= d[j].rev
Truthful(k, K, u) ==
  /\ k.seal = "local" => K = None /\ \A i \in DOMAIN u :
                           u[i].type # "Request" /\ u[i].type # "Applied"
  /\ k.seal = "finalizing" => k.worn = k.accepted
  /\ K # None /\ K.applied => Suits(k, K)
  /\ K # None => \A i \in Acks(u) : u[i].rev = K.rev => Suits(k, K)

\* What travels to the server, and what travels back.
Upward == {p \in Packets : p.type \in {"Request", "Applied", "Ready"}}
Downward ==
  {p \in Packets : p.type \in {"Accepted", "Rejected", "Finalized", "Snapshot",
                               "Helgen"}}

Member(k, K, nx, st, cp, here, u, d) ==
  /\ IsProcess(k) /\ u \in Seq(Upward) /\ d \in Seq(Downward) /\ nx \in Nat
  /\ Linked(k, K, here, u, d)
  /\ Awaits(k, st, cp, d)
  /\ Revisions(k, K, nx, u, d)
  /\ Ordered(k, K, u, d)
  /\ Truthful(k, K, u)

\* The fields of the packets that carry a revision.
LEMMA PacketFields ==
  ASSUME NEW p \in Packets
  PROVE  /\ p.type = "Request" => p.build \in Builds
         /\ p.type \in {"Applied", "Accepted"} => p.rev \in Nat /\ p.build \in Builds
         /\ p.type = "Finalized" => p.rev \in Nat
         /\ p.type \in {"Request", "Applied", "Ready", "Accepted", "Rejected",
                        "Finalized", "Snapshot", "Helgen"}
  BY DEF Packets, Ready, Rejected

\* A step of the creation changes six fields of the process and leaves the
\* rest alone.
LEMMA CreationFields ==
  ASSUME NEW k, IsRecord(k), NEW f1, NEW f2, NEW f3, NEW f4, NEW f5, NEW f6
  PROVE  LET n == [k EXCEPT !.phase = f1, !.seal = f2, !.pick = f3,
                            !.rev = f4, !.accepted = f5, !.worn = f6]
         IN  /\ IsRecord(n)
             /\ n.phase = f1 /\ n.seal = f2 /\ n.pick = f3
             /\ n.rev = f4 /\ n.accepted = f5 /\ n.worn = f6
             /\ n.online = k.online /\ n.active = k.active
             /\ n.locked = k.locked /\ n.auth = k.auth
             /\ n.required = k.required /\ n.proj = k.proj
             /\ n.quest = k.quest
  BY DEF IsRecord, Fields

-----------------------------------------------------------------------------
(* Steps of the process that send nothing.                                  *)

\* The link, the authorization and the campaign of the process are untouched;
\* what it wears changes when an application ends or breaks off.
Moves(k, n) ==
  /\ IsProcess(n)
  /\ n.online = k.online /\ n.required = k.required /\ n.auth = k.auth
  /\ k.required
  /\ n.quest = "begun" => k.quest = "begun" \/ k.auth
  /\ \/ n.seal = "idle" /\ n.worn = k.worn /\ (n.phase = "Done" => k.phase = "Done")
     \/ n.seal = "idle" /\ n.worn = "partial" /\ n.phase # "Done"
     \/ /\ n.seal = k.seal /\ n.rev = k.rev /\ n.accepted = k.accepted
        /\ n.worn = k.worn /\ (n.phase = "Done" => k.phase = "Done")
     \/ n.seal = "idle" /\ k.seal = "local"
     \/ n.seal = "idle" /\ k.seal = "finalizing" /\ n.worn = k.worn
     \/ n.seal = "local" /\ ~k.online /\ n.worn = k.worn /\ n.phase # "Done"

\* A step that only moves the process keeps its member in order.
LEMMA MovesMember ==
  ASSUME NEW k, NEW K, NEW nx, NEW st, NEW cp, NEW here, NEW u, NEW d,
         Member(k, K, nx, st, cp, here, u, d), NEW n, Moves(k, n)
  PROVE  Member(n, K, nx, st, cp, here, u, d)
  <1>1. IsProcess(n) /\ u \in Seq(Upward) /\ d \in Seq(Downward) /\ nx \in Nat
    BY DEF Member, Moves
  <1>2. Linked(n, K, here, u, d)
    BY DEF Member, Moves, Linked, Held
  <1>3. Awaits(n, st, cp, d)
    BY DEF Member, Moves, Awaits
  <1>4. Held(n) => Held(k) /\ n.rev = k.rev /\ n.accepted = k.accepted
    BY DEF Moves, Held
  <1>5. Revisions(n, K, nx, u, d)
    BY <1>4 DEF Member, Revisions
  <1>6. Ordered(n, K, u, d)
    BY <1>4 DEF Member, Ordered
  <1>7. /\ n.seal = "local" => K = None /\ \A i \in DOMAIN u :
                                 u[i].type # "Request" /\ u[i].type # "Applied"
        /\ n.seal = "finalizing" => n.worn = n.accepted
    BY DEF Member, Moves, Truthful, Linked
  <1>8. ASSUME K # None, Suits(k, K),
               K.applied \/ \E i \in Acks(u) : u[i].rev = K.rev
        PROVE  Suits(n, K)
    <2>1. k.seal # "local"
      BY <1>8 DEF Member, Truthful
    <2>2. k.seal = "finalizing" => k.worn = K.build
      <3>1. ASSUME k.seal = "finalizing"
            PROVE  Fits(K, k.rev, k.accepted) /\ K.rev <= k.rev /\ k.worn = k.accepted
                     /\ K.rev \in Nat /\ k.rev \in Nat
        BY <1>8, <3>1 DEF Member, Truthful, Revisions, Ordered, Held, IsProcess, Chosen, Component
      <3> QED  BY <3>1 DEF Fits
    <2>3. k.online
      BY <1>8 DEF Member, Linked
    <2> QED  BY <1>8, <2>1, <2>2, <2>3 DEF Moves, Suits
  <1>9. Truthful(n, K, u)
    BY <1>7, <1>8 DEF Member, Truthful
  <1> QED  BY <1>1, <1>2, <1>3, <1>5, <1>6, <1>9 DEF Member

-----------------------------------------------------------------------------
(* Steps of the process that send or receive.                               *)

\* ConfirmBuild, in contact with the server.
LEMMA RequestMember ==
  ASSUME NEW k, NEW K, NEW nx, NEW st, NEW cp, NEW here, NEW u, NEW d,
         Member(k, K, nx, st, cp, here, u, d),
         k.online, k.seal = "idle", k.phase = "Summary"
  PROVE  Member([k EXCEPT !.seal = "requested"], K, nx, st, cp, here,
                Append(u, Request(k.pick)), d)
  <1> DEFINE n == [k EXCEPT !.seal = "requested"]
             p == Request(k.pick)
             a == Append(u, p)
  <1>1. /\ IsRecord(n) /\ n.seal = "requested" /\ n.phase = k.phase
        /\ n.rev = k.rev /\ n.worn = k.worn /\ n.online = k.online
        /\ n.auth = k.auth /\ n.required = k.required /\ n.quest = k.quest
        /\ n.proj = k.proj /\ n.pick = k.pick
    BY DEF Member, IsProcess, IsRecord, Fields
  <1>2. p \in Upward /\ p.type = "Request"
    BY DEF Member, IsProcess, Chosen, Request, Packets, Upward
  <1> HIDE DEF n, p
  <1>11. IsProcess(n)
    BY <1>1 DEF Member, IsProcess, Chosen
  <1>3. u \in Seq(Upward)
    BY DEF Member
  <1>4. /\ a \in Seq(Upward)
        /\ \A i \in Acks(a) : i \in Acks(u) /\ a[i] = u[i]
    BY <1>2, <1>3, AppendItems DEF Acks
  <1> HIDE DEF a
  <1>5. ~Held(n)
    BY <1>1 DEF Held
  <1>6. Linked(n, K, here, a, d)
    BY <1>1, <1>5 DEF Member, Linked
  <1>7. Awaits(n, st, cp, d)
    BY <1>1 DEF Member, Awaits
  <1>8. Revisions(n, K, nx, a, d)
    BY <1>4, <1>5 DEF Member, Revisions
  <1>9. Ordered(n, K, a, d)
    BY <1>4, <1>5 DEF Member, Ordered
  <1>10. Truthful(n, K, a)
    BY <1>1, <1>4 DEF Member, Truthful, Suits
  <1> QED  BY <1>4, <1>6, <1>7, <1>8, <1>9, <1>10, <1>11 DEF Member, n, a, p

\* AdvanceBuildApplication: everything is on and the server is told.
LEMMA AckMember ==
  ASSUME NEW k, NEW K, NEW nx, NEW st, NEW cp, NEW here, NEW u, NEW d,
         Member(k, K, nx, st, cp, here, u, d),
         k.seal = "applying", k.phase = "Summary"
  PROVE  Member([k EXCEPT !.seal = "finalizing", !.worn = k.accepted],
                K, nx, st, cp, here, Append(u, Applied(k.rev, k.accepted)), d)
  <1> DEFINE n == [k EXCEPT !.seal = "finalizing", !.worn = k.accepted]
             p == Applied(k.rev, k.accepted)
             a == Append(u, p)
  <1>0. Held(k) /\ k.online /\ k.required /\ Fits(K, k.rev, k.accepted)
          /\ k.rev \in Nat
    BY DEF Member, Held, Linked, Revisions, IsProcess, Chosen
  <1>1. /\ IsRecord(n) /\ n.seal = "finalizing" /\ n.phase = k.phase
        /\ n.rev = k.rev /\ n.worn = k.accepted /\ n.online = k.online
        /\ n.auth = k.auth /\ n.required = k.required /\ n.quest = k.quest
        /\ n.proj = k.proj /\ n.accepted = k.accepted /\ n.pick = k.pick
    BY DEF Member, IsProcess, IsRecord, Fields
  <1>2. p \in Upward /\ p.type = "Applied" /\ p.rev = k.rev
          /\ p.build = k.accepted
    BY <1>0 DEF Member, IsProcess, Chosen, Applied, Packets, Upward
  <1> HIDE DEF n, p
  <1>12. IsProcess(n)
    BY <1>1 DEF Member, IsProcess, Chosen
  <1>3. u \in Seq(Upward)
    BY DEF Member
  <1>4. /\ a \in Seq(Upward) /\ a # <<>>
        /\ \A i \in Acks(a) : \/ i \in Acks(u) /\ a[i] = u[i]
                              \/ a[i] = p
    BY <1>2, <1>3, AppendItems DEF Acks
  <1> HIDE DEF a
  <1>5. Held(n)
    BY <1>1 DEF Held
  <1>6. Linked(n, K, here, a, d)
    BY <1>0, <1>1 DEF Member, Linked
  <1>7. Awaits(n, st, cp, d)
    BY <1>1 DEF Member, Awaits
  <1>8. Revisions(n, K, nx, a, d)
    BY <1>0, <1>1, <1>2, <1>4 DEF Member, Revisions
  <1>9. Ordered(n, K, a, d)
    <2>1. \A i \in Acks(a) : a[i].rev <= k.rev
      BY <1>0, <1>2, <1>4 DEF Member, Ordered
    <2>2. \A i \in Acks(a), j \in Offers(d) : a[i].rev <= d[j].rev
      BY <1>0, <1>2, <1>4 DEF Member, Ordered
    <2>3. /\ \A i \in Offers(d) : k.rev <= d[i].rev
          /\ \A i, j \in Offers(d) : i < j => d[i].rev <= d[j].rev
          /\ K # None /\ K.applied => /\ K.rev <= k.rev
                                      /\ \A j \in Offers(d) : K.rev <= d[j].rev
      BY <1>0 DEF Member, Ordered
    <2> HIDE DEF a
    <2> QED  BY <1>1, <2>1, <2>2, <2>3 DEF Ordered
  <1>10. ASSUME K # None, K.applied \/ \E i \in Acks(a) : a[i].rev = K.rev
         PROVE  Suits(n, K)
    <2>1. K.rev \in Nat
      BY <1>10 DEF Member, Revisions, Component
    <2>2. K.rev <= k.rev
      <3>1. CASE K.applied
        BY <1>0, <1>10, <3>1 DEF Member, Ordered
      <3>2. CASE \E i \in Acks(a) : a[i].rev = K.rev
        BY <1>0, <1>2, <1>4, <2>1, <3>2 DEF Member, Ordered
      <3> QED  BY <1>10, <3>1, <3>2
    <2> QED  BY <1>0, <1>1, <2>1, <2>2 DEF Fits, Suits
  <1>11. Truthful(n, K, a)
    BY <1>1, <1>10 DEF Truthful
  <1> QED  BY <1>4, <1>6, <1>7, <1>8, <1>9, <1>11, <1>12 DEF Member, n, a, p

\* The oldest packet of the server is taken.
LEMMA TakenDown ==
  ASSUME NEW k, NEW K, NEW nx, NEW st, NEW cp, NEW here, NEW u, NEW d,
         Member(k, K, nx, st, cp, here, u, d), d # <<>>
  PROVE  Member(k, K, nx, st, cp, here, u, Tail(d))
  <1> DEFINE t == Tail(d)
  <1>1. /\ t \in Seq(Downward) /\ DOMAIN t \subseteq Nat
        /\ \A i \in DOMAIN t : i + 1 \in DOMAIN d /\ t[i] = d[i + 1]
    BY TailItems DEF Member
  <1> HIDE DEF t
  <1>2. \A i \in Offers(t) : i \in Nat /\ i + 1 \in Offers(d) /\ t[i] = d[i + 1]
    BY <1>1 DEF Offers
  <1>3. k.online
    BY DEF Member, Linked
  <1>4. Linked(k, K, here, u, t)
    BY <1>3 DEF Member, Linked
  <1>5. Awaits(k, st, cp, t)
    BY <1>1 DEF Member, Awaits
  <1>6. Revisions(k, K, nx, u, t)
    BY <1>2 DEF Member, Revisions
  <1>7. Ordered(k, K, u, t)
    <2>1. \A i, j \in Nat : i < j => i + 1 < j + 1
      OBVIOUS
    <2> QED  BY <1>2, <2>1 DEF Member, Ordered
  <1> QED  BY <1>1, <1>4, <1>5, <1>6, <1>7 DEF Member, t

\* OnCharacterBuildResponse: what the server accepted is what was asked for.
LEMMA OfferMember ==
  ASSUME NEW k, NEW K, NEW nx, NEW st, NEW cp, NEW here, NEW u, NEW d,
         Member(k, K, nx, st, cp, here, u, d), d # <<>>,
         d[1].type = "Accepted", k.seal = "requested"
  PROVE  Member([k EXCEPT !.seal = "applying", !.rev = d[1].rev,
                          !.accepted = d[1].build],
                K, nx, st, cp, here, u, Tail(d))
  <1> DEFINE p == d[1]
             t == Tail(d)
             n == [k EXCEPT !.seal = "applying", !.rev = p.rev,
                            !.accepted = p.build]
  <1>1. /\ t \in Seq(Downward) /\ DOMAIN t \subseteq Nat /\ p \in Downward
        /\ 1 \in DOMAIN d
        /\ \A i \in DOMAIN t : i + 1 \in DOMAIN d /\ 1 < i + 1 /\ t[i] = d[i + 1]
    BY TailItems DEF Member
  <1>2. p.rev \in Nat /\ p.build \in Builds /\ 1 \in Offers(d)
    BY <1>1, PacketFields DEF Offers, Downward
  <1>3. Member(k, K, nx, st, cp, here, u, t)
    BY TakenDown
  <1>4. \A i \in Offers(t) : i + 1 \in Offers(d) /\ 1 < i + 1 /\ t[i] = d[i + 1]
    BY <1>1 DEF Offers
  <1> HIDE DEF t
  <1>5. /\ Fits(K, p.rev, p.build)
        /\ \A i \in Offers(t) : p.rev <= t[i].rev
        /\ \A i \in Acks(u) : u[i].rev <= p.rev
        /\ K # None /\ K.applied => K.rev <= p.rev
    BY <1>2, <1>4 DEF Member, Revisions, Ordered
  <1> HIDE DEF p
  <1>6. /\ IsRecord(n) /\ n.seal = "applying" /\ n.phase = k.phase
        /\ n.rev = p.rev /\ n.worn = k.worn /\ n.online = k.online
        /\ n.auth = k.auth /\ n.required = k.required /\ n.quest = k.quest
        /\ n.proj = k.proj /\ n.accepted = p.build /\ n.pick = k.pick
    <2> DEFINE r == p.rev
               b == p.build
    <2> HIDE DEF r, b
    <2>1. n = [k EXCEPT !.seal = "applying", !.rev = r, !.accepted = b]
      BY DEF r, b
    <2> HIDE DEF n
    <2> QED  BY <2>1 DEF Member, IsProcess, IsRecord, Fields, r, b
  <1>7. n = [k EXCEPT !.seal = "applying", !.rev = d[1].rev,
                      !.accepted = d[1].build]
    BY DEF p
  <1> HIDE DEF n
  <1>14. IsProcess(n)
    BY <1>2, <1>6 DEF Member, IsProcess, Chosen
  <1>8. k.online
    BY DEF Member, Linked
  <1>9. Linked(n, K, here, u, t)
    BY <1>3, <1>6, <1>8 DEF Member, Linked
  <1>10. Awaits(n, st, cp, t)
    BY <1>3, <1>6 DEF Member, Awaits
  <1>11. Revisions(n, K, nx, u, t)
    BY <1>3, <1>5, <1>6 DEF Member, Revisions
  <1>12. Ordered(n, K, u, t)
    BY <1>3, <1>5, <1>6 DEF Member, Ordered
  <1>13. Truthful(n, K, u)
    BY <1>6 DEF Member, Truthful, Suits
  <1> QED  BY <1>1, <1>3, <1>7, <1>9, <1>10, <1>11, <1>12, <1>13, <1>14 DEF Member, t

\* OnHelgenState: an authorization comes from a server that latched.
LEMMA AuthorizedMember ==
  ASSUME NEW k, NEW K, NEW nx, NEW st, NEW cp, NEW here, NEW u, NEW d,
         Member(k, K, nx, st, cp, here, u, d), st, k.required,
         NEW n, IsProcess(n), n.seal = k.seal, n.phase = k.phase,
         n.rev = k.rev, n.accepted = k.accepted, n.worn = k.worn,
         n.online = k.online, n.required = k.required, n.quest = k.quest
  PROVE  Member(n, K, nx, st, cp, here, u, d)
  <1>1. Held(n) <=> Held(k)
    BY DEF Held
  <1>2. Linked(n, K, here, u, d)
    BY <1>1 DEF Member, Linked
  <1>3. Awaits(n, st, cp, d)
    BY DEF Member, Awaits
  <1>4. Revisions(n, K, nx, u, d)
    BY <1>1 DEF Member, Revisions
  <1>5. Ordered(n, K, u, d)
    BY <1>1 DEF Member, Ordered
  <1>6. Truthful(n, K, u)
    BY DEF Member, Truthful, Suits
  <1> QED  BY <1>2, <1>3, <1>4, <1>5, <1>6 DEF Member

-----------------------------------------------------------------------------
(* Steps of the server, for one member.                                     *)

\* A packet that offers no build and authorizes nobody too early.
Plain(p, st) ==
  /\ p \in Downward /\ p.type # "Accepted"
  /\ p.type = "Helgen" /\ p.started => st

\* Telling a connected member something plain.
LEMMA ToldMember ==
  ASSUME NEW k, NEW K, NEW nx, NEW st, NEW cp, NEW here, NEW u, NEW d,
         Member(k, K, nx, st, cp, here, u, d), here,
         NEW p, Plain(p, st)
  PROVE  Member(k, K, nx, st, cp, here, u, Append(d, p))
  <1> DEFINE a == Append(d, p)
  <1>1. /\ a \in Seq(Downward)
        /\ \A i \in DOMAIN a : (i \in DOMAIN d /\ a[i] = d[i]) \/ a[i] = p
    BY AppendItems DEF Member, Plain
  <1> HIDE DEF a
  <1>2. \A i \in Offers(a) : i \in Offers(d) /\ a[i] = d[i]
    BY <1>1 DEF Offers, Plain
  <1>3. Linked(k, K, here, u, a)
    BY DEF Member, Linked
  <1>4. Awaits(k, st, cp, a)
    BY <1>1 DEF Member, Awaits, Plain
  <1>5. Revisions(k, K, nx, u, a)
    BY <1>2 DEF Member, Revisions
  <1>6. Ordered(k, K, u, a)
    BY <1>2 DEF Member, Ordered
  <1> QED  BY <1>1, <1>3, <1>4, <1>5, <1>6 DEF Member, a

\* Offering the build the server holds.
LEMMA OfferedMember ==
  ASSUME NEW k, NEW K, NEW nx, NEW st, NEW cp, NEW here, NEW u, NEW d,
         Member(k, K, nx, st, cp, here, u, d), here, K # None
  PROVE  Member(k, K, nx, st, cp, here, u, Append(d, Accepted(K)))
  <1> DEFINE p == Accepted(K)
             a == Append(d, p)
  <1>0. K \in Component
    BY DEF Member, Revisions
  <1>1. p \in Downward /\ p.type = "Accepted" /\ p.rev = K.rev /\ p.build = K.build
          /\ K.rev \in Nat
    BY <1>0 DEF Accepted, Packets, Downward, Component
  <1> HIDE DEF p
  <1>2. /\ a \in Seq(Downward) /\ DOMAIN d \subseteq Nat
        /\ \A i \in DOMAIN a : \/ i \in DOMAIN d /\ a[i] = d[i]
                               \/ i = Len(d) + 1 /\ a[i] = p
        /\ \A i \in DOMAIN d : i < Len(d) + 1
    BY <1>1, AppendItems DEF Member
  <1> HIDE DEF a
  <1>3. \A i \in Offers(a) : \/ i \in Offers(d) /\ a[i] = d[i]
                             \/ i = Len(d) + 1 /\ a[i] = p
    BY <1>2 DEF Offers
  <1>4. Linked(k, K, here, u, a)
    BY DEF Member, Linked
  <1>5. Awaits(k, st, cp, a)
    BY <1>1, <1>2 DEF Member, Awaits
  <1>6. Fits(K, p.rev, p.build)
    BY <1>1 DEF Fits
  <1>7. Revisions(k, K, nx, u, a)
    BY <1>3, <1>6 DEF Member, Revisions
  <1>8. /\ \A i \in Offers(d) : d[i].rev <= p.rev
        /\ \A i \in Acks(u) : u[i].rev <= p.rev
        /\ Held(k) => k.rev <= p.rev
    BY <1>1 DEF Member, Revisions, Fits
  <1>9. Ordered(k, K, u, a)
    <2>1. ASSUME NEW i \in Offers(a), NEW j \in Offers(a), i < j
          PROVE  a[i].rev <= a[j].rev
      <3>1. CASE i \in Offers(d) /\ a[i] = d[i] /\ j \in Offers(d) /\ a[j] = d[j]
        BY <2>1, <3>1 DEF Member, Ordered
      <3>2. CASE i \in Offers(d) /\ a[i] = d[i] /\ a[j] = p
        BY <1>8, <3>2
      <3>3. CASE i = Len(d) + 1 /\ a[i] = p /\ a[j] = p
        BY <1>1, <3>3
      <3>4. CASE i = Len(d) + 1 /\ j \in Offers(d)
        <4>1. j < i /\ j \in Nat /\ i \in Nat
          BY <1>2, <3>4 DEF Offers, Member
        <4> QED  BY <2>1, <4>1
      <3> QED  BY <1>3, <3>1, <3>2, <3>3, <3>4
    <2>2. Held(k) => \A i \in Offers(a) : k.rev <= a[i].rev
      BY <1>3, <1>8 DEF Member, Ordered
    <2>3. \A i \in Acks(u), j \in Offers(a) : u[i].rev <= a[j].rev
      BY <1>3, <1>8 DEF Member, Ordered
    <2>4. K.applied => \A j \in Offers(a) : K.rev <= a[j].rev
      BY <1>1, <1>3 DEF Member, Ordered
    <2> QED  BY <2>1, <2>2, <2>3, <2>4 DEF Member, Ordered
  <1> QED  BY <1>2, <1>4, <1>5, <1>7, <1>9 DEF Member, a, p

\* OnCharacterBuildRequest: a proposal that was not sealed is replaced, and no
\* packet under way is about the new revision.
LEMMA ProposedMember ==
  ASSUME NEW k, NEW K, NEW nx, NEW st, NEW cp, NEW here, NEW u, NEW d,
         Member(k, K, nx, st, cp, here, u, d), here, k.seal # "local",
         NEW b \in Builds
  PROVE  Member(k, [rev |-> nx, build |-> b, applied |-> FALSE], nx + 1,
                st, cp, here, u, d)
  <1> DEFINE N == [rev |-> nx, build |-> b, applied |-> FALSE]
  <1>0. N \in Component /\ N.rev = nx /\ nx \in Nat /\ nx + 1 \in Nat
    BY DEF Member, Component
  <1>9. ~N.applied
    OBVIOUS
  <1>10. N # None
    BY <1>0, ComponentAssumption
  <1> HIDE DEF N
  <1>1. N \in Component /\ N # None /\ N.rev = nx /\ ~N.applied /\ nx \in Nat
    BY <1>0, <1>9, <1>10
  <1>2. ASSUME NEW r \in Nat, NEW x, Fits(K, r, x)
        PROVE  Fits(N, r, x) /\ r # nx
    <2>1. K.rev \in Nat /\ r <= K.rev /\ K.rev < nx
      BY <1>2 DEF Fits, Member, Revisions, Component
    <2> QED  BY <1>1, <2>1 DEF Fits
  <1>3. /\ \A i \in Offers(d) : d[i].rev \in Nat
        /\ \A i \in Acks(u) : u[i].rev \in Nat
        /\ k.rev \in Nat
    BY PacketFields DEF Member, Offers, Acks, IsProcess, Chosen, Upward, Downward
  <1>4. Linked(k, N, here, u, d)
    BY DEF Member, Linked
  <1>5. Revisions(k, N, nx + 1, u, d)
    BY <1>1, <1>2, <1>3 DEF Member, Revisions
  <1>6. Ordered(k, N, u, d)
    BY <1>1 DEF Member, Ordered
  <1>7. \A i \in Acks(u) : u[i].rev # N.rev
    BY <1>1, <1>2, <1>3 DEF Member, Revisions
  <1>8. Truthful(k, N, u)
    BY <1>1, <1>7 DEF Member, Truthful
  <1>11. Member(k, N, nx + 1, st, cp, here, u, d)
    BY <1>0, <1>4, <1>5, <1>6, <1>8 DEF Member
  <1> QED  BY <1>11 DEF N

\* OnCharacterBuildAppliedRequest: the revision that is acknowledged is sealed.
LEMMA SealedMember ==
  ASSUME NEW k, NEW K, NEW nx, NEW st, NEW cp, NEW here, NEW u, NEW d,
         Member(k, K, nx, st, cp, here, u, d), here, K # None,
         NEW i \in Acks(u), u[i].rev = K.rev
  PROVE  Member(k, [K EXCEPT !.applied = TRUE], nx, st, cp, here, u, d)
  <1> DEFINE N == [K EXCEPT !.applied = TRUE]
  <1>1. N \in Component /\ N.rev = K.rev /\ N.build = K.build /\ K.rev \in Nat
    BY DEF Member, Revisions, Component
  <1>2. N # None
    BY <1>1, ComponentAssumption
  <1> HIDE DEF N
  <1>3. \A r, x : Fits(K, r, x) => Fits(N, r, x)
    BY <1>1, <1>2 DEF Fits
  <1>4. Linked(k, N, here, u, d)
    BY DEF Member, Linked
  <1>5. Revisions(k, N, nx, u, d)
    BY <1>1, <1>2, <1>3 DEF Member, Revisions
  <1>6. Ordered(k, N, u, d)
    BY <1>1 DEF Member, Ordered
  <1>7. Suits(k, N)
    BY <1>1 DEF Member, Truthful, Suits
  <1>8. k.seal # "local"
    BY DEF Member, Truthful
  <1>9. Truthful(k, N, u)
    BY <1>7, <1>8 DEF Member, Truthful
  <1> QED  BY <1>1, <1>4, <1>5, <1>6, <1>9 DEF Member, N

\* The server took the oldest packet of the member.
LEMMA TakenUp ==
  ASSUME NEW k, NEW K, NEW nx, NEW st, NEW cp, NEW here, NEW u, NEW d,
         Member(k, K, nx, st, cp, here, u, d), u # <<>>
  PROVE  Member(k, K, nx, st, cp, here, Tail(u), d)
  <1> DEFINE t == Tail(u)
  <1>1. /\ t \in Seq(Upward)
        /\ \A i \in DOMAIN t : i + 1 \in DOMAIN u /\ t[i] = u[i + 1]
    BY TailItems DEF Member
  <1> HIDE DEF t
  <1>2. \A i \in Acks(t) : i + 1 \in Acks(u) /\ t[i] = u[i + 1]
    BY <1>1 DEF Acks
  <1>3. Linked(k, K, here, t, d)
    BY DEF Member, Linked
  <1>4. Revisions(k, K, nx, t, d)
    BY <1>2 DEF Member, Revisions
  <1>5. Ordered(k, K, t, d)
    BY <1>2 DEF Member, Ordered
  <1>6. Truthful(k, K, t)
    BY <1>1, <1>2 DEF Member, Truthful
  <1> QED  BY <1>1, <1>3, <1>4, <1>5, <1>6 DEF Member, t

\* Revisions given to others, and the latch, change nothing here.
LEMMA GrownMember ==
  ASSUME NEW k, NEW K, NEW nx, NEW st, NEW cp, NEW here, NEW u, NEW d,
         Member(k, K, nx, st, cp, here, u, d),
         NEW ny \in Nat, nx <= ny, NEW su, st => su
  PROVE  Member(k, K, ny, su, cp, here, u, d)
  <1>1. Awaits(k, su, cp, d)
    BY DEF Member, Awaits
  <1>2. Revisions(k, K, ny, u, d)
    BY DEF Member, Revisions, Component
  <1> QED  BY <1>1, <1>2 DEF Member

-----------------------------------------------------------------------------
(* Steps of the server, for the roster.                                     *)

ServerFields ==
  {"build", "next", "here", "lost", "checkpoint", "started", "ready"}
IsServer(s) ==
  /\ s = [f \in ServerFields |-> s[f]]
  /\ s.build = [n \in Members |-> s.build[n]]
  /\ s.next \in Nat /\ s.here \subseteq Members /\ s.started \in BOOLEAN

\* Every member is in order, with processes cc and packets uu and q.
Roster(cc, s, uu, q) ==
  \A n \in Members : Member(cc[n], s.build[n], s.next, s.started, s.checkpoint,
                            n \in s.here, uu[n], q[n])

\* The sealed builds of the roster.
Proofs(s) == {n \in Members : s.build[n] # None /\ s.build[n].applied}

\* Telling connected members something plain.
LEMMA TellRoster ==
  ASSUME NEW cc, NEW s, NEW uu, NEW q, Roster(cc, s, uu, q),
         NEW who, who \subseteq s.here, NEW p, Plain(p, s.started)
  PROVE  Roster(cc, s, uu, Tell(q, who, p))
  <1> SUFFICES ASSUME NEW n \in Members
               PROVE  Member(cc[n], s.build[n], s.next, s.started, s.checkpoint,
                             n \in s.here, uu[n], Tell(q, who, p)[n])
    BY DEF Roster
  <1>1. Member(cc[n], s.build[n], s.next, s.started, s.checkpoint,
               n \in s.here, uu[n], q[n])
    BY DEF Roster
  <1>2. CASE n \in who
    <2>1. Tell(q, who, p)[n] = Append(q[n], p) /\ (n \in s.here) = TRUE
      BY <1>2 DEF Tell
    <2> QED  BY <1>1, <2>1, ToldMember
  <1>3. CASE n \notin who
    <2>1. Tell(q, who, p)[n] = q[n]
      BY <1>3 DEF Tell
    <2> QED  BY <1>1, <2>1
  <1> QED  BY <1>2, <1>3

\* The packets of the server that offer nothing.
LEMMA PlainPackets ==
  /\ \A st : Plain(Rejected, st)
  /\ \A st, K : K \in Component => Plain(Finalized(K), st)
  /\ \A st : Plain(Snapshot(TRUE), st) /\ Plain(Snapshot(FALSE), st)
  /\ \A s : IsServer(s) => Plain(Helgen(s), s.started)
  <1>1. \A st : Plain(Rejected, st)
    BY DEF Plain, Rejected, Downward, Packets
  <1>2. \A st, K : K \in Component => Plain(Finalized(K), st)
    BY DEF Plain, Finalized, Downward, Packets, Component
  <1>3. \A st : Plain(Snapshot(TRUE), st) /\ Plain(Snapshot(FALSE), st)
    BY DEF Plain, Snapshot, Downward, Packets
  <1>4. ASSUME NEW s, IsServer(s) PROVE Plain(Helgen(s), s.started)
    <2> DEFINE b == s.started
    <2>1. b \in BOOLEAN
      BY <1>4 DEF IsServer
    <2>2. Helgen(s) = [type |-> "Helgen", started |-> b]
      BY DEF Helgen
    <2> HIDE DEF b
    <2>3. [type |-> "Helgen", started |-> b] \in Downward
      BY <2>1 DEF Downward, Packets
    <2>4. Helgen(s).type = "Helgen" /\ Helgen(s).started = b
      BY <2>2
    <2> QED  BY <2>2, <2>3, <2>4 DEF Plain, b
  <1> QED  BY <1>1, <1>2, <1>3, <1>4

\* CampaignHelgenStartBarrier::Observe: only the latch and the readiness
\* change, the latch stays, and it closes with the proof of every member.
LEMMA ObserveFields ==
  ASSUME NEW s, IsServer(s), NEW m \in Members, NEW readiness \in BOOLEAN
  PROVE  LET o == Observe(s, m, readiness).s
         IN  /\ IsServer(o)
             /\ o.build = s.build /\ o.next = s.next /\ o.here = s.here
             /\ o.lost = s.lost /\ o.checkpoint = s.checkpoint
             /\ s.started => o.started
             /\ \/ o.ready = s.ready
                \/ /\ o.ready = s.ready \cup {m} /\ readiness
                   /\ s.checkpoint /\ RosterRuns(s)
             /\ o.started /\ ~s.started
                  => \/ Proofs(o) = Members
                     \/ Proofs(o) = {} /\ o.ready = Members
  <1> DEFINE all(e) == \A n \in Members : ReadHelgenBuild(s, n) = e
             counts == readiness /\ ~all("Applied") /\ all("Missing") /\ s.checkpoint
             ready  == IF counts THEN s.ready \cup {m} ELSE s.ready
             may    == all("Applied") \/ (counts /\ ready = Members)
             o == Observe(s, m, readiness).s
  <1>1. \/ o = s
        \/ /\ RosterRuns(s) /\ ~s.started
           /\ o = [s EXCEPT !.ready = ready, !.started = may]
    BY DEF Observe
  <1>2. \/ ready = s.ready
        \/ ready = s.ready \cup {m} /\ readiness /\ s.checkpoint
    OBVIOUS
  <1>3. may \in BOOLEAN
    OBVIOUS
  <1>4. may => \/ \A n \in Members : s.build[n] # None /\ s.build[n].applied
               \/ (\A n \in Members : s.build[n] = None) /\ ready = Members
    BY DEF ReadHelgenBuild
  <1> HIDE DEF ready, may, counts, all, o
  <1>5. CASE o = s
    BY <1>5 DEF o
  <1>6. CASE RosterRuns(s) /\ ~s.started /\ o = [s EXCEPT !.ready = ready, !.started = may]
    <2>1. /\ o = [f \in ServerFields |-> o[f]]
          /\ o.build = s.build /\ o.next = s.next /\ o.here = s.here
          /\ o.lost = s.lost /\ o.checkpoint = s.checkpoint
          /\ o.started = may /\ o.ready = ready
      BY <1>6 DEF IsServer, ServerFields
    <2>2. IsServer(o)
      BY <1>3, <2>1 DEF IsServer
    <2>3. o.started => \/ Proofs(o) = Members
                       \/ Proofs(o) = {} /\ o.ready = Members
      BY <1>4, <2>1 DEF Proofs
    <2> QED  BY <1>2, <1>6, <2>1, <2>2, <2>3 DEF o
  <1> QED  BY <1>1, <1>5, <1>6

\* The latch leaves every member in order.
LEMMA ObserveRoster ==
  ASSUME NEW cc, NEW s, NEW uu, NEW q, IsServer(s), Roster(cc, s, uu, q),
         NEW m \in Members, NEW readiness \in BOOLEAN
  PROVE  Roster(cc, Observe(s, m, readiness).s, uu, q)
  <1> DEFINE o == Observe(s, m, readiness).s
  <1>1. /\ o.build = s.build /\ o.next = s.next /\ o.here = s.here
        /\ o.checkpoint = s.checkpoint /\ (s.started => o.started)
        /\ s.next \in Nat
    BY ObserveFields, ZenonT(60) DEF IsServer
  <1> HIDE DEF o
  <1>2. s.next <= s.next
    BY <1>1
  <1>3. Roster(cc, o, uu, q)
    BY <1>1, <1>2, GrownMember DEF Roster
  <1> QED  BY <1>3 DEF o

\* What a handler of the server leaves behind: the roster in order, the others'
\* builds untouched, and a latch that closed for everybody.
Handled(cc, s, uu, m, r, ready) ==
  /\ IsServer(r.s)
  /\ Roster(cc, r.s, uu, r.down)
  /\ r.down = [n \in Members |-> r.down[n]]
  /\ r.s.checkpoint = s.checkpoint /\ r.s.here = s.here
  /\ s.started => r.s.started
  /\ r.s.ready \subseteq s.ready \cup (IF ready /\ s.checkpoint /\ RosterRuns(s)
                                       THEN {m} ELSE {})
  /\ r.s.started /\ ~s.started => \/ Proofs(r.s) = Members
                                  \/ Proofs(r.s) = {} /\ r.s.ready = Members

\* Telling everybody that is connected about the latch.
LEMMA BroadcastRoster ==
  ASSUME NEW cc, NEW s, NEW uu, NEW q, NEW who, IsServer(s), Roster(cc, s, uu, q)
  PROVE  /\ Roster(cc, s, uu, BroadcastHelgenState(s, q, who))
         /\ BroadcastHelgenState(s, q, who) =
              [n \in Members |-> BroadcastHelgenState(s, q, who)[n]]
  <1>1. who \cap s.here \subseteq s.here /\ Plain(Helgen(s), s.started)
    BY PlainPackets
  <1>2. BroadcastHelgenState(s, q, who) = Tell(q, who \cap s.here, Helgen(s))
    BY DEF BroadcastHelgenState
  <1>3. \A p, x : Tell(q, x, p) = [n \in Members |-> Tell(q, x, p)[n]]
    BY DEF Tell
  <1> QED  BY <1>1, <1>2, <1>3, TellRoster

\* OnCharacterBuildApplied.
LEMMA BuildAppliedHandled ==
  ASSUME NEW cc, NEW s, NEW uu, NEW q, NEW m \in Members,
         IsServer(s), Roster(cc, s, uu, q), q = [n \in Members |-> q[n]]
  PROVE  Handled(cc, s, uu, m, OnCharacterBuildApplied(s, q, m), FALSE)
  <1> DEFINE o == Observe(s, m, FALSE)
             r == OnCharacterBuildApplied(s, q, m)
  <1>1. /\ r.s = o.s
        /\ r.down = q \/ r.down = BroadcastHelgenState(o.s, q, Members)
    BY DEF OnCharacterBuildApplied
  <1>2. FALSE \in BOOLEAN
    OBVIOUS
  <1>3. IsServer(o.s) /\ Roster(cc, o.s, uu, q)
    BY <1>2, ObserveFields, ObserveRoster
  <1>4. /\ o.s.here = s.here /\ o.s.checkpoint = s.checkpoint
        /\ s.started => o.s.started
        /\ o.s.ready = s.ready
        /\ o.s.started /\ ~s.started
              => \/ Proofs(o.s) = Members
                 \/ Proofs(o.s) = {} /\ o.s.ready = Members
    BY <1>2, ObserveFields
  <1> HIDE DEF o, r
  <1>5. Roster(cc, o.s, uu, r.down) /\ r.down = [n \in Members |-> r.down[n]]
    BY <1>1, <1>3, BroadcastRoster
  <1>6. Handled(cc, s, uu, m, r, FALSE)
    BY <1>1, <1>3, <1>4, <1>5 DEF Handled
  <1> QED  BY <1>6 DEF r

\* OnHelgenInvestigationReady.
LEMMA ReadyHandled ==
  ASSUME NEW cc, NEW s, NEW uu, NEW q, NEW m \in Members,
         IsServer(s), Roster(cc, s, uu, q), q = [n \in Members |-> q[n]]
  PROVE  Handled(cc, s, uu, m, OnHelgenInvestigationReady(s, q, m), TRUE)
  <1> DEFINE o == Observe(s, m, TRUE)
             r == OnHelgenInvestigationReady(s, q, m)
  <1>1. /\ r.s = o.s
        /\ \/ r.down = q \/ r.down = BroadcastHelgenState(o.s, q, Members)
           \/ r.down = BroadcastHelgenState(o.s, q, {m})
    BY DEF OnHelgenInvestigationReady
  <1>2. TRUE \in BOOLEAN
    OBVIOUS
  <1>3. IsServer(o.s) /\ Roster(cc, o.s, uu, q)
    BY <1>2, ObserveFields, ObserveRoster
  <1>4. /\ o.s.here = s.here /\ o.s.checkpoint = s.checkpoint
        /\ s.started => o.s.started
        /\ \/ o.s.ready = s.ready
           \/ o.s.ready = s.ready \cup {m} /\ s.checkpoint /\ RosterRuns(s)
        /\ o.s.started /\ ~s.started
              => \/ Proofs(o.s) = Members
                 \/ Proofs(o.s) = {} /\ o.s.ready = Members
    BY <1>2, ObserveFields
  <1> HIDE DEF o, r
  <1>5. Roster(cc, o.s, uu, r.down) /\ r.down = [n \in Members |-> r.down[n]]
    BY <1>1, <1>3, BroadcastRoster
  <1>6. Handled(cc, s, uu, m, r, TRUE)
    BY <1>1, <1>3, <1>4, <1>5 DEF Handled
  <1> QED  BY <1>6 DEF r

\* A member whose packet the server reads is connected.
LEMMA SenderHere ==
  ASSUME NEW cc, NEW s, NEW uu, NEW q, NEW m \in Members,
         Roster(cc, s, uu, q), uu[m] # <<>>
  PROVE  m \in s.here /\ cc[m].online /\ 1 \in DOMAIN uu[m]
  <1>1. Member(cc[m], s.build[m], s.next, s.started, s.checkpoint,
               m \in s.here, uu[m], q[m])
    BY DEF Roster
  <1>2. m \in s.here /\ cc[m].online /\ uu[m] \in Seq(Upward)
    BY <1>1 DEF Member, Linked
  <1> QED  BY <1>2, TailItems

\* The answer that offers the build the server holds.
LEMMA OfferedRoster ==
  ASSUME NEW cc, NEW s, NEW uu, NEW q, NEW m \in Members,
         Roster(cc, s, uu, q), m \in s.here, s.build[m] # None
  PROVE  Roster(cc, s, uu, Tell(q, {m}, Accepted(s.build[m])))
  <1> DEFINE p == Accepted(s.build[m])
  <1> SUFFICES ASSUME NEW n \in Members
               PROVE  Member(cc[n], s.build[n], s.next, s.started, s.checkpoint,
                             n \in s.here, uu[n], Tell(q, {m}, p)[n])
    BY DEF Roster
  <1>1. Member(cc[n], s.build[n], s.next, s.started, s.checkpoint,
               n \in s.here, uu[n], q[n])
    BY DEF Roster
  <1>2. CASE n = m
    <2>1. Tell(q, {m}, p)[n] = Append(q[n], Accepted(s.build[n]))
      BY <1>2 DEF Tell
    <2> QED  BY <1>1, <1>2, <2>1, OfferedMember
  <1>3. CASE n # m
    <2>1. Tell(q, {m}, p)[n] = q[n]
      BY <1>3 DEF Tell
    <2> QED  BY <1>1, <2>1
  <1> QED  BY <1>2, <1>3

\* A build or its seal is recorded for one member.
Records(s, m, K, nx) == [s EXCEPT !.build[m] = K, !.next = nx]
\* What recording a build changes in the server.
LEMMA RecordFields ==
  ASSUME NEW s, IsServer(s), NEW m \in Members, NEW K, NEW nx \in Nat,
         NEW t, t = Records(s, m, K, nx)
  PROVE  /\ IsServer(t)
         /\ t.build[m] = K /\ \A n \in Members \ {m} : t.build[n] = s.build[n]
         /\ t.next = nx /\ t.here = s.here /\ t.lost = s.lost
         /\ t.checkpoint = s.checkpoint /\ t.started = s.started
         /\ t.ready = s.ready
  <1>1. /\ t = [f \in ServerFields |-> t[f]]
        /\ t.build = [s.build EXCEPT ![m] = K]
        /\ t.next = nx /\ t.here = s.here /\ t.lost = s.lost
        /\ t.checkpoint = s.checkpoint /\ t.started = s.started
        /\ t.ready = s.ready
    BY DEF IsServer, ServerFields, Records
  <1>2. /\ t.build[m] = K /\ \A n \in Members \ {m} : t.build[n] = s.build[n]
        /\ t.build = [n \in Members |-> t.build[n]]
    BY <1>1 DEF IsServer
  <1>3. IsServer(t)
    BY <1>1, <1>2 DEF IsServer
  <1> QED  BY <1>1, <1>2, <1>3

\* OnCharacterBuildRequest.
LEMMA RequestHandled ==
  ASSUME NEW cc, NEW s, NEW uu, NEW q, NEW m \in Members,
         IsServer(s), Roster(cc, s, uu, q), q = [n \in Members |-> q[n]],
         uu[m] # <<>>, uu[m][1].type = "Request", NEW b \in Builds
  PROVE  Handled(cc, s, uu, m, OnCharacterBuildRequest(s, q, m, b), FALSE)
  <1> DEFINE new == [rev |-> s.next, build |-> b, applied |-> FALSE]
             t == [s EXCEPT !.build[m] = new, !.next = @ + 1]
             r == OnCharacterBuildRequest(s, q, m, b)
  <1>1. \/ r.s = s /\ r.down = Tell(q, {m}, Rejected)
        \/ /\ s.build[m] # None /\ r.s = s
           /\ r.down = Tell(q, {m}, Accepted(s.build[m]))
        \/ r.s = t /\ r.down = Tell(q, {m}, Accepted(new))
    BY DEF OnCharacterBuildRequest
  <1>2. \A p, x : Tell(q, x, p) = [n \in Members |-> Tell(q, x, p)[n]]
    BY DEF Tell
  <1>3. m \in s.here /\ 1 \in DOMAIN uu[m]
    BY SenderHere
  <1> SUFFICES Handled(cc, s, uu, m, r, FALSE)
    OBVIOUS
  <1> HIDE DEF r
  <1>4. ASSUME r.s = s, Roster(cc, s, uu, r.down),
               r.down = [n \in Members |-> r.down[n]]
        PROVE  Handled(cc, s, uu, m, r, FALSE)
    BY <1>4 DEF Handled
  <1>5. CASE r.s = s /\ r.down = Tell(q, {m}, Rejected)
    <2>1. {m} \subseteq s.here /\ Plain(Rejected, s.started)
      BY <1>3, PlainPackets
    <2>2. Roster(cc, s, uu, Tell(q, {m}, Rejected))
      BY <2>1, TellRoster
    <2> QED  BY <1>2, <1>4, <1>5, <2>2, ZenonT(60)
  <1>6. CASE /\ s.build[m] # None /\ r.s = s
             /\ r.down = Tell(q, {m}, Accepted(s.build[m]))
    <2>1. Roster(cc, s, uu, Tell(q, {m}, Accepted(s.build[m])))
      BY <1>3, <1>6, OfferedRoster
    <2> QED  BY <1>2, <1>4, <1>6, <2>1
  <1>7. CASE r.s = t /\ r.down = Tell(q, {m}, Accepted(new))
    <2>1. s.next \in Nat /\ s.next + 1 \in Nat /\ s.next <= s.next + 1
      BY DEF IsServer
    <2>2. new \in Component
      BY <2>1 DEF Component
    <2>3. new # None
      BY <2>2, ComponentAssumption
    <2>4. t = [s EXCEPT !.build[m] = new, !.next = s.next + 1]
      OBVIOUS
    <2>5. cc[m].seal # "local"
      BY <1>3 DEF Roster, Member, Truthful
    <2>6. Member(cc[m], new, s.next + 1, s.started, s.checkpoint,
                 m \in s.here, uu[m], q[m])
      BY <1>3, <2>5, ProposedMember DEF Roster
    <2> DEFINE nx == s.next + 1
    <2> HIDE DEF new, nx, t
    <2>11. t = Records(s, m, new, nx) /\ nx \in Nat
      BY <2>1, <2>4 DEF nx, Records
    <2>12. /\ IsServer(t)
           /\ t.build[m] = new /\ \A n \in Members \ {m} : t.build[n] = s.build[n]
           /\ t.next = nx /\ t.here = s.here /\ t.lost = s.lost
           /\ t.checkpoint = s.checkpoint /\ t.started = s.started
           /\ t.ready = s.ready
      BY <2>11, RecordFields
    <2>7. /\ IsServer(t)
          /\ t.build[m] = new /\ \A n \in Members \ {m} : t.build[n] = s.build[n]
          /\ t.next = s.next + 1 /\ t.here = s.here /\ t.lost = s.lost
          /\ t.checkpoint = s.checkpoint /\ t.started = s.started
          /\ t.ready = s.ready
      BY <2>12 DEF nx
    <2>8. Roster(cc, t, uu, q)
      <3> SUFFICES ASSUME NEW n \in Members
                   PROVE  Member(cc[n], t.build[n], t.next, t.started,
                                 t.checkpoint, n \in t.here, uu[n], q[n])
        BY DEF Roster
      <3>1. CASE n = m
        BY <2>6, <2>7, <3>1
      <3>2. CASE n # m
        BY <2>1, <2>7, <3>2, GrownMember DEF Roster
      <3> QED  BY <3>1, <3>2
    <2>9. Roster(cc, t, uu, r.down)
      <3>1. r.down = Tell(q, {m}, Accepted(t.build[m]))
        BY <1>7, <2>7
      <3>2. m \in t.here /\ t.build[m] # None
        BY <1>3, <2>3, <2>7
      <3>3. Roster(cc, t, uu, Tell(q, {m}, Accepted(t.build[m])))
        BY <2>8, <3>2, OfferedRoster
      <3> QED  BY <3>1, <3>3
    <2>10. r.down = [n \in Members |-> r.down[n]]
      BY <1>2, <1>7
    <2> QED  BY <1>7, <2>7, <2>9, <2>10 DEF Handled
  <1> QED  BY <1>1, <1>5, <1>6, <1>7

\* OnCharacterBuildAppliedRequest.
LEMMA AppliedHandled ==
  ASSUME NEW cc, NEW s, NEW uu, NEW q, NEW m \in Members,
         IsServer(s), Roster(cc, s, uu, q), q = [n \in Members |-> q[n]],
         uu[m] # <<>>, NEW p, p = uu[m][1], p.type = "Applied"
  PROVE  Handled(cc, s, uu, m, OnCharacterBuildAppliedRequest(s, q, m, p), FALSE)
  <1> DEFINE k == s.build[m]
             yes == TRUE
             t == [s EXCEPT !.build[m].applied = yes]
             r == OnCharacterBuildAppliedRequest(s, q, m, p)
             w == Tell(q, {m}, Finalized(k))
  <1>1. \/ r.s = s /\ r.down = Tell(q, {m}, Rejected)
        \/ k # None /\ r.s = s /\ r.down = w
        \/ k # None /\ k.rev = p.rev /\ r = OnCharacterBuildApplied(t, w, m)
    BY DEF OnCharacterBuildAppliedRequest
  <1>2. /\ w = [n \in Members |-> w[n]]
        /\ Tell(q, {m}, Rejected) = [n \in Members |-> Tell(q, {m}, Rejected)[n]]
    BY DEF Tell
  <1>3. m \in s.here /\ 1 \in DOMAIN uu[m] /\ {m} \subseteq s.here
    BY SenderHere
  <1>4. Member(cc[m], k, s.next, s.started, s.checkpoint,
               m \in s.here, uu[m], q[m])
    BY DEF Roster
  <1>5. /\ k # None => k \in Component
        /\ [k EXCEPT !.applied = TRUE] = [k EXCEPT !.applied = yes]
    BY <1>4 DEF Member, Revisions
  <1>12. yes
    OBVIOUS
  <1> SUFFICES Handled(cc, s, uu, m, r, FALSE)
    OBVIOUS
  <1> HIDE DEF r, yes, w
  <1>6. Roster(cc, s, uu, Tell(q, {m}, Rejected))
    BY <1>3, PlainPackets, TellRoster
  <1>7. k # None => Roster(cc, s, uu, w)
    <2>1. k # None => Plain(Finalized(k), s.started)
      BY <1>5, PlainPackets
    <2> QED  BY <1>3, <2>1, TellRoster DEF w
  <1>8. ASSUME r.s = s, Roster(cc, s, uu, r.down),
               r.down = [n \in Members |-> r.down[n]]
        PROVE  Handled(cc, s, uu, m, r, FALSE)
    BY <1>8 DEF Handled
  <1>9. CASE r.s = s /\ r.down = Tell(q, {m}, Rejected)
    BY <1>2, <1>6, <1>8, <1>9
  <1>10. CASE k # None /\ r.s = s /\ r.down = w
    BY <1>2, <1>7, <1>8, <1>10
  <1>11. CASE k # None /\ k.rev = p.rev /\ r = OnCharacterBuildApplied(t, w, m)
    <2> DEFINE N == [k EXCEPT !.applied = yes]
    <2>1. /\ t = [f \in ServerFields |-> t[f]]
          /\ t.build = [s.build EXCEPT ![m] = N]
          /\ t.next = s.next /\ t.here = s.here /\ t.lost = s.lost
          /\ t.checkpoint = s.checkpoint /\ t.started = s.started
          /\ t.ready = s.ready
      BY DEF IsServer, ServerFields
    <2>2. 1 \in Acks(uu[m]) /\ uu[m][1].rev = k.rev
      BY <1>3, <1>11 DEF Acks
    <2>3. Member(cc[m], N, s.next, s.started, s.checkpoint,
                 m \in s.here, uu[m], w[m])
      <3>1. Member(cc[m], k, s.next, s.started, s.checkpoint,
                   m \in s.here, uu[m], w[m])
        BY <1>7, <1>11 DEF Roster
      <3> HIDE DEF k, N
      <3>2. Member(cc[m], [k EXCEPT !.applied = TRUE], s.next, s.started,
                   s.checkpoint, m \in s.here, uu[m], w[m])
        BY <1>3, <1>11, <2>2, <3>1, SealedMember
      <3> QED  BY <1>5, <3>2 DEF N
    <2> HIDE DEF t, N
    <2>4. /\ t.build[m] = N /\ \A n \in Members \ {m} : t.build[n] = s.build[n]
          /\ t.build = [n \in Members |-> t.build[n]]
      BY <2>1 DEF IsServer
    <2>5. IsServer(t)
      BY <2>1, <2>4 DEF IsServer
    <2>6. Roster(cc, t, uu, w)
      <3> SUFFICES ASSUME NEW n \in Members
                   PROVE  Member(cc[n], t.build[n], t.next, t.started,
                                 t.checkpoint, n \in t.here, uu[n], w[n])
        BY DEF Roster
      <3>1. CASE n = m
        BY <2>1, <2>3, <2>4, <3>1
      <3>2. CASE n # m
        BY <1>7, <1>11, <2>1, <2>4, <3>2 DEF Roster
      <3> QED  BY <3>1, <3>2
    <2>7. Handled(cc, t, uu, m, r, FALSE)
      BY <1>2, <1>11, <2>5, <2>6, BuildAppliedHandled
    <2> QED  BY <2>1, <2>7 DEF Handled
  <1> QED  BY <1>1, <1>9, <1>10, <1>11

-----------------------------------------------------------------------------
(* The invariant of the system.                                             *)

InOrder ==
  /\ IsServer(srv)
  /\ c = [n \in Members |-> c[n]]
  /\ up = [n \in Members |-> up[n]]
  /\ down = [n \in Members |-> down[n]]
  /\ Roster(c, srv, up, down)

\* The latch has the proof of everyone; who is ready has been heard.
Evident ==
  /\ srv.started => evidence.start = Members
  /\ srv.ready \subseteq evidence.heard
  /\ evidence.heard \subseteq Members
  /\ evidence = [heard |-> evidence.heard, start |-> evidence.start]

\* A step of one member's process and of its two links.
Joint(m, k, u, d) ==
  /\ c' = [c EXCEPT ![m] = k]
  /\ up' = [up EXCEPT ![m] = u] /\ down' = [down EXCEPT ![m] = d]
  /\ srv' = srv /\ evidence' = evidence

\* Such a step keeps the system in order if its member stays so.
LEMMA MemberSteps ==
  ASSUME InOrder, Evident, NEW m \in Members, NEW k, NEW u, NEW d,
         Joint(m, k, u, d),
         Member(k, srv.build[m], srv.next, srv.started, srv.checkpoint,
                m \in srv.here, u, d)
  PROVE  InOrder' /\ Evident'
  <1>1. /\ c' = [n \in Members |-> c'[n]] /\ up' = [n \in Members |-> up'[n]]
        /\ down' = [n \in Members |-> down'[n]]
        /\ c'[m] = k /\ up'[m] = u /\ down'[m] = d
        /\ \A n \in Members \ {m} : c'[n] = c[n] /\ up'[n] = up[n] /\ down'[n] = down[n]
    BY DEF InOrder, Joint
  <1>2. srv' = srv /\ evidence' = evidence
    BY DEF Joint
  <1>3. Roster(c, srv, up, down)'
    <2> SUFFICES ASSUME NEW n \in Members
                 PROVE  Member(c'[n], srv.build[n], srv.next, srv.started,
                               srv.checkpoint, n \in srv.here, up'[n], down'[n])
      BY <1>2 DEF Roster
    <2>1. CASE n = m
      BY <1>1, <2>1
    <2>2. CASE n # m
      BY <1>1, <2>2 DEF InOrder, Roster
    <2> QED  BY <2>1, <2>2
  <1>4. IsServer(srv)' /\ Evident'
    BY <1>2 DEF InOrder, Evident, IsServer
  <1> QED  BY <1>1, <1>3, <1>4 DEF InOrder

\* A step of one member's process that neither sends nor receives.
LEMMA Alone ==
  ASSUME InOrder, Evident, NEW m \in Members, NEW k, Step(m, k),
         UNCHANGED <<srv, up, down, evidence>>, Moves(c[m], k)
  PROVE  InOrder' /\ Evident'
  <1>1. up' = [up EXCEPT ![m] = up[m]] /\ down' = [down EXCEPT ![m] = down[m]]
    BY DEF InOrder
  <1>2. Joint(m, k, up[m], down[m])
    BY <1>1 DEF Joint, Step
  <1>3. Member(k, srv.build[m], srv.next, srv.started, srv.checkpoint,
               m \in srv.here, up[m], down[m])
    BY MovesMember DEF InOrder, Roster
  <1> QED  BY <1>2, <1>3, MemberSteps

\* Whatever the server reads, it leaves the roster in order.
LEMMA PacketHandled ==
  ASSUME InOrder, NEW m \in Members, up[m] # <<>>
  PROVE  LET p == Head(up[m])
         IN  /\ Handled(c, srv, up, m, ServerHandles(srv, down, m, p), p.type = "Ready")
             /\ up[m] \in Seq(Upward)
  <1> DEFINE p == Head(up[m])
             r == ServerHandles(srv, down, m, p)
  <1>1. up[m] \in Seq(Upward)
    BY DEF InOrder, Roster, Member
  <1>2. p \in Upward /\ p = up[m][1]
    BY <1>1, TailItems
  <1>3. /\ IsServer(srv) /\ Roster(c, srv, up, down)
        /\ down = [n \in Members |-> down[n]]
    BY DEF InOrder
  <1> HIDE DEF p
  <1>4. CASE p.type = "Request"
    <2>1. p.build \in Builds
      BY <1>2, <1>4, PacketFields DEF Upward
    <2>2. r = OnCharacterBuildRequest(srv, down, m, p.build)
      BY <1>4 DEF ServerHandles
    <2>4. up[m][1].type = "Request"
      BY <1>2, <1>4
    <2>5. Handled(c, srv, up, m, OnCharacterBuildRequest(srv, down, m, p.build), FALSE)
      BY <1>3, <2>1, <2>4, RequestHandled
    <2>3. Handled(c, srv, up, m, r, FALSE)
      BY <2>2, <2>5
    <2> QED  BY <1>1, <1>4, <2>3 DEF Handled, p
  <1>5. CASE p.type = "Applied"
    <2>2. r = OnCharacterBuildAppliedRequest(srv, down, m, p)
      BY <1>5 DEF ServerHandles
    <2>4. p = up[m][1]
      BY <1>2
    <2>5. Handled(c, srv, up, m, OnCharacterBuildAppliedRequest(srv, down, m, p), FALSE)
      BY <1>3, <1>5, <2>4, AppliedHandled
    <2>3. Handled(c, srv, up, m, r, FALSE)
      BY <2>2, <2>5
    <2> QED  BY <1>1, <1>5, <2>3 DEF Handled, p
  <1>6. CASE p.type = "Ready"
    <2>2. r = OnHelgenInvestigationReady(srv, down, m)
      BY <1>6 DEF ServerHandles
    <2>3. Handled(c, srv, up, m, r, TRUE)
      BY <1>3, <2>2, ReadyHandled
    <2> QED  BY <1>1, <1>6, <2>3 DEF Handled, p
  <1> QED  BY <1>2, <1>4, <1>5, <1>6 DEF Upward

\* The server takes the oldest packet of a member and handles it.
LEMMA ServerReceivesKeeps ==
  ASSUME InOrder, Evident, NEW m \in Members, ServerReceives(m)
  PROVE  InOrder' /\ Evident'
  <1> DEFINE p == Head(up[m])
             r == ServerHandles(srv, down, m, p)
             proofs == {n \in Members : r.s.build[n] # None /\ r.s.build[n].applied}
             heard == IF p.type = "Ready" /\ srv.checkpoint /\ RosterRuns(srv)
                      THEN evidence.heard \cup {m} ELSE evidence.heard
  <1>1. /\ up[m] # <<>> /\ srv' = r.s /\ down' = r.down
        /\ evidence' = [heard |-> heard,
                        start |-> IF ~(r.s.started /\ ~srv.started) THEN evidence.start
                                  ELSE IF proofs # {} THEN proofs ELSE heard]
        /\ up' = [up EXCEPT ![m] = Tail(@)] /\ c' = c
    BY DEF ServerReceives
  <1>2. Handled(c, srv, up, m, r, p.type = "Ready") /\ up[m] \in Seq(Upward)
    BY <1>1, PacketHandled
  <1>3. proofs = Proofs(srv')
    BY <1>1 DEF Proofs
  <1>4. /\ evidence'.heard = heard
        /\ evidence'.start = IF ~(r.s.started /\ ~srv.started) THEN evidence.start
                             ELSE IF proofs # {} THEN proofs ELSE heard
        /\ evidence' = [heard |-> evidence'.heard, start |-> evidence'.start]
    BY <1>1
  <1>5. heard \subseteq Members
    BY DEF Evident
  <1>6. srv'.ready \subseteq heard
    BY <1>1, <1>2 DEF Handled, Evident
  <1> HIDE DEF p, r, heard, proofs
  <1>7. srv'.started => evidence'.start = Members
    <2>1. CASE srv.started
      BY <1>1, <1>4, <2>1 DEF Evident
    <2>2. CASE srv'.started /\ ~srv.started
      <3>1. proofs = Members \/ (proofs = {} /\ srv'.ready = Members)
        BY <1>1, <1>2, <1>3, <2>2 DEF Handled
      <3>2. Members # {}
        BY StartAssumption
      <3>3. evidence'.start = IF proofs # {} THEN proofs ELSE heard
        BY <1>1, <1>4, <2>2
      <3>4. srv'.ready = Members => heard = Members
        BY <1>5, <1>6
      <3> QED  BY <3>1, <3>2, <3>3, <3>4
    <2> QED  BY <2>1, <2>2
  <1>8. Evident'
    BY <1>4, <1>5, <1>6, <1>7 DEF Evident
  <1>9. /\ up' = [n \in Members |-> up'[n]] /\ up'[m] = Tail(up[m])
        /\ \A n \in Members \ {m} : up'[n] = up[n]
    BY <1>1 DEF InOrder
  <1>10. Roster(c, srv', up', down')
    <2> SUFFICES ASSUME NEW n \in Members
                 PROVE  Member(c[n], srv'.build[n], srv'.next, srv'.started,
                               srv'.checkpoint, n \in srv'.here, up'[n], down'[n])
      BY DEF Roster
    <2>1. Member(c[n], srv'.build[n], srv'.next, srv'.started,
                 srv'.checkpoint, n \in srv'.here, up[n], down'[n])
      BY <1>1, <1>2 DEF Handled, Roster
    <2>2. CASE n = m
      BY <1>1, <1>9, <2>1, <2>2, TakenUp
    <2>3. CASE n # m
      BY <1>9, <2>1, <2>3
    <2> QED  BY <2>2, <2>3
  <1>11. /\ c' = [n \in Members |-> c'[n]] /\ down' = [n \in Members |-> down'[n]]
         /\ IsServer(srv') /\ Roster(c', srv', up', down')
    BY <1>1, <1>2, <1>10 DEF InOrder, Handled
  <1> QED  BY <1>8, <1>9, <1>11 DEF InOrder, IsServer, Roster

-----------------------------------------------------------------------------
(* The steps of a process.                                                  *)

\* What is known of one member.
LEMMA OneOf ==
  ASSUME InOrder, NEW m \in Members
  PROVE  /\ Member(c[m], srv.build[m], srv.next, srv.started, srv.checkpoint,
                   m \in srv.here, up[m], down[m])
         /\ IsProcess(c[m]) /\ IsRecord(c[m])
         /\ ~c[m].required => /\ c[m].phase = "Left" /\ c[m].quest = "none"
                              /\ ~c[m].online /\ ~c[m].proj.finalized
  BY DEF InOrder, Roster, Member, IsProcess, Linked

\* ResetLoadoutState at the end of a phase.
Cleared(k, f) == [ResetLoadoutState(k) EXCEPT !.phase = f]
IsCleared(k, n, f) ==
  /\ IsRecord(n)
  /\ n.phase = f /\ n.seal = "idle" /\ n.pick = None /\ n.rev = 0
  /\ n.accepted = None /\ n.worn = k.worn /\ n.online = k.online
  /\ n.auth = k.auth /\ n.required = k.required /\ n.quest = k.quest
  /\ n.proj = k.proj

\* What clearing the choices changes in the process.
LEMMA ResetFields ==
  ASSUME NEW k, IsRecord(k), NEW f
  PROVE  IsCleared(k, Cleared(k, f), f)
  BY DEF IsRecord, Fields, IsCleared, Cleared, ResetLoadoutState, ResetSeal

\* Fail, of a process with the link, campaign and quest of k.
LEMMA FailMoves ==
  ASSUME NEW k, k.required, NEW x, IsRecord(x),
         x.worn = k.worn \/ x.worn = "partial" \/ k.seal = "local",
         x.online = k.online, x.auth = k.auth, x.required = k.required,
         x.quest = k.quest
  PROVE  Moves(k, Fail(x))
  <1> DEFINE n == Fail(x)
  <1>1. n = Cleared(x, "Error")
    BY DEF Fail, Cleared
  <1> HIDE DEF n
  <1>2. IsCleared(x, n, "Error")
    BY <1>1, ResetFields
  <1>3. Moves(k, n)
    BY <1>2 DEF Moves, IsProcess, Chosen, IsCleared
  <1> QED  BY <1>3 DEF n

\* The choices are cleared and the creation is at another phase.
LEMMA ResetMoves ==
  ASSUME NEW k, k.required, IsRecord(k), NEW f, f # "Done", f # "Summary"
  PROVE  Moves(k, Cleared(k, f))
  <1> DEFINE n == Cleared(k, f)
  <1>2. IsCleared(k, n, f)
    BY ResetFields
  <1> HIDE DEF n
  <1>3. Moves(k, n)
    BY <1>2 DEF Moves, IsProcess, Chosen, IsCleared
  <1> QED  BY <1>3 DEF n

\* Another phase, or another choice.
LEMMA PhaseMoves ==
  ASSUME NEW k, k.required, IsProcess(k), NEW f, f # "Done", NEW b,
         f = "Summary" => b \in Builds
  PROVE  Moves(k, [k EXCEPT !.phase = f, !.pick = b])
  <1> DEFINE n == [k EXCEPT !.phase = f, !.pick = b]
  <1>2. /\ IsRecord(n)
        /\ n.phase = f /\ n.seal = k.seal /\ n.pick = b /\ n.rev = k.rev
        /\ n.accepted = k.accepted /\ n.worn = k.worn /\ n.online = k.online
        /\ n.auth = k.auth /\ n.required = k.required /\ n.quest = k.quest
    BY DEF IsProcess, IsRecord, Fields
  <1> HIDE DEF n
  <1>3. Moves(k, n)
    BY <1>2 DEF Moves, IsProcess, Chosen
  <1> QED  BY <1>3 DEF n

\* OpenRaceMenu.
LEMMA OpenMoves ==
  ASSUME NEW k, k.required, IsProcess(k)
  PROVE  Moves(k, OpenRaceMenu(k))
  <1> DEFINE n == OpenRaceMenu(k)
  <1>2. /\ IsRecord(n)
        /\ n.phase = "RaceMenu" /\ n.seal = k.seal /\ n.rev = k.rev
        /\ n.accepted = k.accepted /\ n.worn = k.worn /\ n.online = k.online
        /\ n.auth = k.auth /\ n.required = k.required /\ n.quest = k.quest
    BY DEF IsProcess, IsRecord, Fields, OpenRaceMenu
  <1> HIDE DEF n
  <1>3. Moves(k, n)
    BY <1>2 DEF Moves, IsProcess, Chosen
  <1> QED  BY <1>3 DEF n

\* The quest goes on, or the projection of the campaign.
LEMMA QuestMoves ==
  ASSUME NEW k, k.required, IsProcess(k), NEW x, NEW y,
         y = "begun" => k.quest = "begun" \/ k.auth
  PROVE  Moves(k, [k EXCEPT !.proj = x, !.quest = y])
  <1> DEFINE n == [k EXCEPT !.proj = x, !.quest = y]
  <1>2. /\ IsRecord(n)
        /\ n.phase = k.phase /\ n.seal = k.seal /\ n.rev = k.rev /\ n.pick = k.pick
        /\ n.accepted = k.accepted /\ n.worn = k.worn /\ n.online = k.online
        /\ n.auth = k.auth /\ n.required = k.required /\ n.quest = y
    BY DEF IsProcess, IsRecord, Fields
  <1> HIDE DEF n
  <1>3. Moves(k, n)
    BY <1>2 DEF Moves, IsProcess, Chosen
  <1> QED  BY <1>3 DEF n

\* The steps of the menus, and every way to give up.
LEMMA MenusKeep ==
  ASSUME InOrder, Evident, NEW m \in Members,
         \/ CampaignBootstrapAuthorized(m) \/ AdvanceCreationPlacement(m)
         \/ RaceMenuCloses(m) \/ \E b \in Builds : ConfirmLoadout(m, b)
         \/ ModifyRace(m) \/ Reopen(m) \/ BuildFails(m) \/ ServerBuildTimeout(m)
         \/ RetryRaceMenu(m) \/ RecoverControls(m)
  PROVE  InOrder' /\ Evident'
  <1> DEFINE k == c[m]
  <1>1. IsProcess(k) /\ IsRecord(k) /\ (k.phase # "Left" => k.required)
    BY OneOf
  <1>2. \A n : (Local(m, n) \/ Goes(m, n)) /\ Moves(k, n) => InOrder' /\ Evident'
    BY Alone DEF Local, Goes, Keeps
  <1>3. k.required => Moves(k, Fail(k))
    BY <1>1, FailMoves
  <1>4. CASE CampaignBootstrapAuthorized(m)
    <2> DEFINE x == [NoProjection EXCEPT !.campaign = TRUE]
               n == [k EXCEPT !.proj = x]
               o == [n EXCEPT !.phase = "Placing"]
    <2>1. k.required /\ (Local(m, o) \/ Goes(m, Fail(n)))
      BY <1>1, <1>4 DEF CampaignBootstrapAuthorized
    <2> HIDE DEF x
    <2>2. /\ IsRecord(n) /\ n.worn = k.worn /\ n.online = k.online
          /\ n.auth = k.auth /\ n.required = k.required /\ n.quest = k.quest
          /\ IsRecord(o) /\ o.phase = "Placing" /\ o.worn = k.worn
          /\ o.online = k.online /\ o.seal = k.seal /\ o.rev = k.rev
          /\ o.accepted = k.accepted /\ o.pick = k.pick
          /\ o.auth = k.auth /\ o.required = k.required /\ o.quest = k.quest
      BY <1>1 DEF IsRecord, Fields
    <2> HIDE DEF n, o
    <2>3. Moves(k, Fail(n))
      BY <2>1, <2>2, FailMoves
    <2>4. Moves(k, o)
      BY <1>1, <2>1, <2>2 DEF Moves, IsProcess, Chosen
    <2> QED  BY <1>2, <2>1, <2>3, <2>4
  <1>5. CASE AdvanceCreationPlacement(m)
    <2>1. /\ k.required
          /\ Local(m, OpenRaceMenu(k)) \/ Local(m, Fail(k)) \/ Goes(m, Fail(k))
      BY <1>1, <1>5 DEF AdvanceCreationPlacement
    <2> QED  BY <1>1, <1>2, <1>3, <2>1, OpenMoves
  <1>6. CASE RaceMenuCloses(m)
    <2>1. k.required /\ (Local(m, Cleared(k, "Menus")) \/ Goes(m, Fail(k)))
      BY <1>1, <1>6 DEF RaceMenuCloses, Cleared
    <2>2. Moves(k, Cleared(k, "Menus"))
      BY <1>1, <2>1, ResetMoves
    <2> QED  BY <1>2, <1>3, <2>1, <2>2
  <1>7. ASSUME NEW b \in Builds, ConfirmLoadout(m, b) PROVE InOrder' /\ Evident'
    <2>1. k.required /\ Local(m, [k EXCEPT !.phase = "Summary", !.pick = b])
      BY <1>1, <1>7 DEF ConfirmLoadout
    <2>2. Moves(k, [k EXCEPT !.phase = "Summary", !.pick = b])
      BY <1>1, <2>1, PhaseMoves
    <2> QED  BY <1>2, <2>1, <2>2
  <1>8. CASE ModifyRace(m)
    <2>1. k.required /\ Local(m, Cleared(k, "RaceMenu"))
      BY <1>1, <1>8 DEF ModifyRace, Cleared, OpenRaceMenu
    <2>2. Moves(k, Cleared(k, "RaceMenu"))
      BY <1>1, <2>1, ResetMoves
    <2> QED  BY <1>2, <2>1, <2>2
  <1>9. CASE Reopen(m)
    <2>1. k.required /\ Local(m, [k EXCEPT !.phase = "Menus", !.pick = None])
      BY <1>1, <1>9 DEF Reopen
    <2>2. Moves(k, [k EXCEPT !.phase = "Menus", !.pick = None])
      BY <1>1, <2>1, PhaseMoves
    <2> QED  BY <1>2, <2>1, <2>2
  <1>10. CASE BuildFails(m)
    <2>1. k.required /\ \E x \in Interrupted(k) : Goes(m, Fail(x))
      BY <1>1, <1>10 DEF BuildFails
    <2>2. PICK x \in Interrupted(k) : Goes(m, Fail(x))
      BY <2>1
    <2>3. x = k \/ x = [k EXCEPT !.worn = k.worn] \/ x = [k EXCEPT !.worn = "partial"]
      BY <2>2 DEF Interrupted
    <2>4. /\ IsRecord(x) /\ (x.worn = k.worn \/ x.worn = "partial")
          /\ x.online = k.online /\ x.auth = k.auth
          /\ x.required = k.required /\ x.quest = k.quest
      BY <1>1, <2>3 DEF IsRecord, Fields
    <2>5. Moves(k, Fail(x))
      BY <2>1, <2>4, FailMoves
    <2> QED  BY <1>2, <2>2, <2>5
  <1>11. CASE ServerBuildTimeout(m)
    <2>1. k.required /\ Goes(m, Fail(k))
      BY <1>1, <1>11 DEF ServerBuildTimeout
    <2> QED  BY <1>2, <1>3, <2>1
  <1>12. CASE RetryRaceMenu(m)
    <2>1. k.required /\ Local(m, OpenRaceMenu(k))
      BY <1>1, <1>12 DEF RetryRaceMenu
    <2> QED  BY <1>1, <1>2, <2>1, OpenMoves
  <1>13. CASE RecoverControls(m)
    <2>1. k.required /\ Goes(m, Cleared(k, "Free"))
      BY <1>1, <1>13 DEF RecoverControls, Cleared
    <2>2. Moves(k, Cleared(k, "Free"))
      BY <1>1, <2>1, ResetMoves
    <2> QED  BY <1>2, <2>1, <2>2
  <1> QED  BY <1>4, <1>5, <1>6, <1>7, <1>8, <1>9, <1>10, <1>11, <1>12, <1>13

\* The quest and its projection.
LEMMA QuestKeeps ==
  ASSUME InOrder, Evident, NEW m \in Members,
         ProjectHelgenStart(m) \/ BeginInvestigation(m)
  PROVE  InOrder' /\ Evident'
  <1> DEFINE k == c[m]
  <1>1. /\ IsProcess(k) /\ IsRecord(k)
        /\ k.quest # "none" \/ k.proj.finalized => k.required
    BY OneOf
  <1>2. \A n : (Local(m, n) \/ Goes(m, n)) /\ Moves(k, n) => InOrder' /\ Evident'
    BY Alone DEF Local, Goes, Keeps
  <1>3. CASE ProjectHelgenStart(m)
    <2> DEFINE y == IF k.quest = "none" THEN "pending" ELSE k.quest
               x == [k.proj EXCEPT !.issued = TRUE]
    <2>1. k.required /\ Local(m, [k EXCEPT !.proj = x, !.quest = y])
      BY <1>1, <1>3 DEF ProjectHelgenStart
    <2>2. y = "begun" => k.quest = "begun"
      OBVIOUS
    <2> HIDE DEF x, y
    <2>3. Moves(k, [k EXCEPT !.proj = x, !.quest = y])
      BY <1>1, <2>1, <2>2, QuestMoves
    <2> QED  BY <1>2, <2>1, <2>3
  <1>4. CASE BeginInvestigation(m)
    <2> DEFINE x == k.proj
    <2>1. PICK y : /\ Local(m, [k EXCEPT !.quest = y]) \/ Goes(m, [k EXCEPT !.quest = y])
                   /\ k.quest # "none"
                   /\ y = "begun" => ~((k.online \/ k.required) /\ ~StartAuthorized(k))
      BY <1>4, SMTT(60) DEF BeginInvestigation
    <2>2. k.required /\ (y = "begun" => k.auth)
      BY <1>1, <2>1 DEF StartAuthorized
    <2>3. [k EXCEPT !.quest = y] = [k EXCEPT !.proj = x, !.quest = y]
      BY <1>1 DEF IsRecord, Fields
    <2> HIDE DEF x
    <2>4. Moves(k, [k EXCEPT !.proj = x, !.quest = y])
      BY <1>1, <2>2, QuestMoves
    <2> QED  BY <1>2, <2>1, <2>3, <2>4
  <1> QED  BY <1>3, <1>4

\* FinalizeCompletedBuild, of a process that applied, or was waiting for the
\* seal of what it wears.
LEMMA FinalizeMoves ==
  ASSUME NEW k, k.required, NEW x, IsRecord(x), NEW unlocks \in BOOLEAN,
         \/ k.seal = "local"
         \/ k.seal = "finalizing" /\ x.worn = k.worn,
         x.online = k.online, x.auth = k.auth, x.required = k.required,
         x.quest = k.quest
  PROVE  Moves(k, FinalizeCompletedBuild(x, unlocks))
  <1> DEFINE z == Cleared(x, "Done")
             yes == TRUE
             n == [z EXCEPT !.proj.finalized = yes]
  <1>1. CASE ~unlocks
    <2>1. FinalizeCompletedBuild(x, unlocks) = Fail(x)
      BY <1>1 DEF FinalizeCompletedBuild
    <2> QED  BY <1>1, <2>1, FailMoves
  <1>2. CASE unlocks
    <2>1. FinalizeCompletedBuild(x, unlocks) = n
      BY <1>2 DEF FinalizeCompletedBuild, Cleared
    <2>2. IsCleared(x, z, "Done")
      BY ResetFields
    <2> HIDE DEF z, yes
    <2>3. /\ IsRecord(n)
          /\ n.phase = "Done" /\ n.seal = "idle" /\ n.pick = None /\ n.rev = 0
          /\ n.worn = x.worn /\ n.online = x.online
          /\ n.auth = x.auth /\ n.required = x.required /\ n.quest = x.quest
      BY <2>2 DEF IsRecord, Fields, IsCleared
    <2> HIDE DEF n
    <2>4. Moves(k, n)
      BY <2>3 DEF Moves, IsProcess, Chosen
    <2> QED  BY <2>1, <2>4
  <1> QED  BY <1>1, <1>2

\* ConfirmBuild, in contact with the server or without it.
LEMMA ConfirmBuildKeeps ==
  ASSUME InOrder, Evident, NEW m \in Members, ConfirmBuild(m)
  PROVE  InOrder' /\ Evident'
  <1> DEFINE k == c[m]
             p == Request(k.pick)
  <1>1. /\ Member(k, srv.build[m], srv.next, srv.started, srv.checkpoint,
                  m \in srv.here, up[m], down[m])
        /\ IsProcess(k) /\ IsRecord(k) /\ k.phase = "Summary" /\ k.seal = "idle"
        /\ k.required
    BY OneOf DEF ConfirmBuild
  <1>2. CASE k.online
    <2> DEFINE n == [k EXCEPT !.seal = "requested"]
    <2>1. Joint(m, n, Append(up[m], p), down[m])
      <3>1. /\ c' = [c EXCEPT ![m] = n]
            /\ up' = [up EXCEPT ![m] = Append(@, p)]
            /\ srv' = srv /\ evidence' = evidence /\ down' = down
        BY <1>2 DEF ConfirmBuild, Step
      <3> HIDE DEF n, p
      <3>2. up' = [up EXCEPT ![m] = Append(up[m], p)]
        BY <3>1
      <3>3. down' = [down EXCEPT ![m] = down[m]]
        BY <3>1 DEF InOrder
      <3> QED  BY <3>1, <3>2, <3>3 DEF Joint
    <2>2. Member(n, srv.build[m], srv.next, srv.started, srv.checkpoint,
                 m \in srv.here, Append(up[m], p), down[m])
      BY <1>1, <1>2, RequestMember
    <2> HIDE DEF n, p
    <2> QED  BY <2>1, <2>2, MemberSteps
  <1>3. CASE ~k.online
    <2> DEFINE n == [k EXCEPT !.seal = "local"]
    <2>1. Local(m, n)
      BY <1>3 DEF ConfirmBuild
    <2>2. /\ IsRecord(n)
          /\ n.phase = k.phase /\ n.seal = "local" /\ n.pick = k.pick /\ n.rev = k.rev
          /\ n.worn = k.worn /\ n.online = k.online
          /\ n.auth = k.auth /\ n.required = k.required /\ n.quest = k.quest
      BY <1>1 DEF IsRecord, Fields
    <2> HIDE DEF n
    <2>3. Moves(k, n)
      BY <1>1, <1>3, <2>2 DEF Moves, IsProcess, Chosen
    <2> QED  BY <2>1, <2>3, Alone DEF Local, Keeps
  <1> QED  BY <1>2, <1>3

\* AdvanceBuildApplication, when everything was granted.
LEMMA AppliesBuildKeeps ==
  ASSUME InOrder, Evident, NEW m \in Members, AppliesBuild(m)
  PROVE  InOrder' /\ Evident'
  <1> DEFINE k == c[m]
             p == Applied(k.rev, k.accepted)
  <1>1. /\ Member(k, srv.build[m], srv.next, srv.started, srv.checkpoint,
                  m \in srv.here, up[m], down[m])
        /\ IsProcess(k) /\ IsRecord(k) /\ (k.phase = "Summary" => k.required)
    BY OneOf
  <1>2. CASE k.seal = "applying"
    <2> DEFINE n == [k EXCEPT !.seal = "finalizing", !.worn = k.accepted]
    <2>1. Joint(m, n, Append(up[m], p), down[m]) /\ k.phase = "Summary"
      <3>1. /\ c' = [c EXCEPT ![m] = n]
            /\ up' = [up EXCEPT ![m] = Append(@, p)]
            /\ srv' = srv /\ evidence' = evidence /\ down' = down
            /\ k.phase = "Summary"
        BY <1>2 DEF AppliesBuild, Step
      <3> HIDE DEF n, p
      <3>2. up' = [up EXCEPT ![m] = Append(up[m], p)]
        BY <3>1
      <3>3. down' = [down EXCEPT ![m] = down[m]]
        BY <3>1 DEF InOrder
      <3> QED  BY <3>1, <3>2, <3>3 DEF Joint
    <2>2. Member(n, srv.build[m], srv.next, srv.started, srv.checkpoint,
                 m \in srv.here, Append(up[m], p), down[m])
      BY <1>1, <1>2, <2>1, AckMember
    <2> HIDE DEF n, p
    <2> QED  BY <2>1, <2>2, MemberSteps
  <1>3. CASE k.seal # "applying"
    <2> DEFINE x == [k EXCEPT !.worn = k.pick]
    <2>1. /\ k.phase = "Summary" /\ k.seal = "local"
          /\ \/ Local(m, FinalizeCompletedBuild(x, TRUE))
             \/ Goes(m, FinalizeCompletedBuild(x, FALSE))
      BY <1>3 DEF AppliesBuild
    <2>2. /\ IsRecord(x) /\ x.worn = k.pick /\ x.online = k.online
          /\ x.auth = k.auth /\ x.required = k.required /\ x.quest = k.quest
      BY <1>1 DEF IsRecord, Fields
    <2> HIDE DEF x
    <2>3. Moves(k, FinalizeCompletedBuild(x, TRUE))
      BY <1>1, <2>1, <2>2, FinalizeMoves
    <2>4. Moves(k, FinalizeCompletedBuild(x, FALSE))
      BY <1>1, <2>1, <2>2, FinalizeMoves
    <2> QED  BY <2>1, <2>3, <2>4, Alone DEF Local, Goes, Keeps
  <1> QED  BY <1>2, <1>3

\* A signal of readiness says nothing of a build.
LEMMA SignalReadyKeeps ==
  ASSUME InOrder, Evident, NEW m \in Members, SignalReady(m)
  PROVE  InOrder' /\ Evident'
  <1> DEFINE k == c[m]
             u == <<Ready>>
  <1>1. /\ Member(k, srv.build[m], srv.next, srv.started, srv.checkpoint,
                  m \in srv.here, up[m], down[m])
        /\ k.online /\ k.required
    BY OneOf DEF SignalReady
  <1>2. Joint(m, k, u, down[m])
    BY DEF SignalReady, Joint, InOrder
  <1>3. Ready \in Upward /\ Ready.type = "Ready"
    BY DEF Ready, Upward, Packets
  <1>4. u \in Seq(Upward) /\ Acks(u) = {} /\ \A i \in DOMAIN u : u[i].type = "Ready"
    BY <1>3 DEF Acks
  <1> HIDE DEF u
  <1>5. Linked(k, srv.build[m], m \in srv.here, u, down[m])
    BY <1>1 DEF Member, Linked
  <1>6. Revisions(k, srv.build[m], srv.next, u, down[m])
    BY <1>1, <1>4 DEF Member, Revisions
  <1>7. Ordered(k, srv.build[m], u, down[m])
    BY <1>1, <1>4 DEF Member, Ordered
  <1>8. Truthful(k, srv.build[m], u)
    BY <1>1, <1>4 DEF Member, Truthful
  <1>9. Member(k, srv.build[m], srv.next, srv.started, srv.checkpoint,
               m \in srv.here, u, down[m])
    BY <1>1, <1>4, <1>5, <1>6, <1>7, <1>8 DEF Member
  <1> QED  BY <1>2, <1>9, MemberSteps

\* The packet a process takes from the server.
LEMMA HandlesMember ==
  ASSUME NEW k, NEW K, NEW nx, NEW st, NEW cp, NEW here, NEW u, NEW d,
         Member(k, K, nx, st, cp, here, u, d), d # <<>>,
         NEW unlocks \in BOOLEAN
  PROVE  Member(ClientHandles(k, Head(d), unlocks), K, nx, st, cp, here, u, Tail(d))
  <1> DEFINE p == Head(d)
             n == ClientHandles(k, p, unlocks)
  <1>1. /\ Head(d) = d[1] /\ d[1] \in Downward /\ 1 \in DOMAIN d
    BY TailItems DEF Member
  <1>2. k.online /\ k.required /\ IsProcess(k) /\ IsRecord(k)
    BY DEF Member, Linked, IsProcess
  <1>3. Member(k, K, nx, st, cp, here, u, Tail(d))
    BY TakenDown
  <1>4. \A x : Moves(k, x) => Member(x, K, nx, st, cp, here, u, Tail(d))
    BY <1>3, MovesMember
  <1>5. Moves(k, Fail(k))
    BY <1>2, FailMoves
  <1> SUFFICES Member(n, K, nx, st, cp, here, u, Tail(d))
    OBVIOUS
  <1>6. CASE p.type = "Accepted"
    <2>1. \/ n = k \/ n = Fail(k)
          \/ /\ k.seal = "requested"
             /\ n = [k EXCEPT !.seal = "applying", !.rev = d[1].rev,
                              !.accepted = d[1].build]
      BY <1>1, <1>6 DEF ClientHandles, OnCharacterBuildResponse
    <2> HIDE DEF n
    <2>2. k.seal = "requested" =>
            Member([k EXCEPT !.seal = "applying", !.rev = d[1].rev,
                             !.accepted = d[1].build],
                   K, nx, st, cp, here, u, Tail(d))
      BY <1>1, <1>6, OfferMember
    <2> QED  BY <1>3, <1>4, <1>5, <2>1, <2>2
  <1>7. CASE p.type = "Rejected"
    <2>1. n = k \/ n = Fail(k)
      BY <1>7 DEF ClientHandles, OnCharacterBuildResponse
    <2> HIDE DEF n
    <2> QED  BY <1>3, <1>4, <1>5, <2>1
  <1>8. CASE p.type = "Finalized"
    <2>1. n = k \/ (k.seal = "finalizing" /\ n = FinalizeCompletedBuild(k, unlocks))
      BY <1>8 DEF ClientHandles, OnNotifyCharacterBuildState
    <2> HIDE DEF n
    <2>2. k.seal = "finalizing" => Moves(k, FinalizeCompletedBuild(k, unlocks))
      BY <1>2, FinalizeMoves
    <2> QED  BY <1>3, <1>4, <2>1, <2>2
  <1>9. CASE p.type = "Helgen"
    <2> DEFINE yes == TRUE
               a == k.proj.authorized \/ k.proj.campaign
               o == [k EXCEPT !.auth = yes, !.proj.authorized = a]
    <2>1. n = k \/ (p.started /\ n = o)
      BY <1>9 DEF ClientHandles, OnHelgenState
    <2> HIDE DEF n, yes, a
    <2>2. p.started => st
      BY <1>1, <1>9 DEF Member, Awaits
    <2>3. /\ IsRecord(o) /\ o.phase = k.phase /\ o.worn = k.worn
          /\ o.online = k.online /\ o.seal = k.seal /\ o.rev = k.rev
          /\ o.accepted = k.accepted /\ o.pick = k.pick
          /\ o.required = k.required /\ o.quest = k.quest
      BY <1>2 DEF IsRecord, Fields
    <2> HIDE DEF o
    <2>4. IsProcess(o)
      BY <1>2, <2>3 DEF IsProcess, Chosen
    <2>5. p.started => Member(o, K, nx, st, cp, here, u, Tail(d))
      BY <1>2, <1>3, <2>2, <2>3, <2>4, AuthorizedMember
    <2> QED  BY <1>3, <2>1, <2>5
  <1>10. CASE p.type = "Snapshot"
    <2> DEFINE a == p.active
               b == ~p.active
               o == [k EXCEPT !.active = a, !.locked = b]
    <2>1. n = o
      BY <1>10 DEF ClientHandles, OnCampaignSnapshot
    <2> HIDE DEF n, a, b
    <2>2. /\ IsRecord(o) /\ o.phase = k.phase /\ o.worn = k.worn
          /\ o.online = k.online /\ o.seal = k.seal /\ o.rev = k.rev
          /\ o.accepted = k.accepted /\ o.pick = k.pick
          /\ o.auth = k.auth /\ o.required = k.required /\ o.quest = k.quest
      BY <1>2 DEF IsRecord, Fields
    <2> HIDE DEF o
    <2>3. Moves(k, o)
      BY <1>2, <2>2 DEF Moves, IsProcess, Chosen
    <2> QED  BY <1>4, <2>1, <2>3
  <1> QED  BY <1>1, <1>6, <1>7, <1>8, <1>9, <1>10 DEF Downward

\* A client takes the oldest packet of the server and handles it.
LEMMA ClientReceivesKeeps ==
  ASSUME InOrder, Evident, NEW m \in Members, ClientReceives(m)
  PROVE  InOrder' /\ Evident'
  <1> DEFINE p == Head(down[m])
  <1>1. PICK unlocks \in BOOLEAN :
          /\ down[m] # <<>>
          /\ c' = [c EXCEPT ![m] = ClientHandles(c[m], p, unlocks)]
          /\ down' = [down EXCEPT ![m] = Tail(@)]
          /\ srv' = srv /\ up' = up /\ evidence' = evidence
    BY DEF ClientReceives, Step
  <1> DEFINE n == ClientHandles(c[m], p, unlocks)
  <1>2. Joint(m, n, up[m], Tail(down[m]))
    BY <1>1 DEF Joint, InOrder
  <1>3. Member(n, srv.build[m], srv.next, srv.started, srv.checkpoint,
               m \in srv.here, up[m], Tail(down[m]))
    BY <1>1, OneOf, HandlesMember
  <1> HIDE DEF n
  <1> QED  BY <1>2, <1>3, MemberSteps

-----------------------------------------------------------------------------
(* Connections that come and go.                                            *)

\* OnPlayerLocationChanged repeats the latch to everybody.
LEMMA PlayerLocationKeeps ==
  ASSUME InOrder, Evident, NEW m \in Members, PlayerLocationChanged(m)
  PROVE  InOrder' /\ Evident'
  <1>1. /\ down' = BroadcastHelgenState(srv, down, Members)
        /\ c' = c /\ srv' = srv /\ up' = up /\ evidence' = evidence
    BY DEF PlayerLocationChanged
  <1>2. /\ Roster(c, srv, up, BroadcastHelgenState(srv, down, Members))
        /\ BroadcastHelgenState(srv, down, Members) =
              [n \in Members |-> BroadcastHelgenState(srv, down, Members)[n]]
    BY BroadcastRoster DEF InOrder
  <1>3. Roster(c', srv', up', down') /\ down' = [n \in Members |-> down'[n]]
    BY <1>1, <1>2
  <1>4. /\ IsServer(srv') /\ c' = [n \in Members |-> c'[n]]
        /\ up' = [n \in Members |-> up'[n]]
    BY <1>1 DEF InOrder
  <1>5. Evident'
    BY <1>1 DEF Evident
  <1> QED  BY <1>3, <1>4, <1>5 DEF InOrder, Roster, IsServer

\* A process whose link is gone holds nothing the server could seal.
Severed(k, n) ==
  /\ IsProcess(n) /\ ~n.online /\ ~n.auth
  /\ n.seal \notin {"requested", "applying", "finalizing"}
  /\ n.quest = k.quest \/ n.quest = "none"
  /\ \/ n.required
     \/ ~n.required /\ n.phase = "Left" /\ n.quest = "none" /\ ~n.proj.finalized

\* The server has forgotten the member: it is in order without a link.
LEMMA SeveredMember ==
  ASSUME NEW k, NEW K, NEW nx, NEW st, NEW cp, NEW here, NEW u, NEW d,
         Member(k, K, nx, st, cp, here, u, d), NEW n, Severed(k, n)
  PROVE  Member(n, None, nx, st, cp, FALSE, <<>>, <<>>)
  <1> DEFINE e == <<>>
  <1>1. e \in Seq(Upward) /\ e \in Seq(Downward) /\ DOMAIN e = {}
    OBVIOUS
  <1>2. e = <<>>
    OBVIOUS
  <1> HIDE DEF e
  <1>3. Acks(e) = {} /\ Offers(e) = {}
    BY <1>1 DEF Acks, Offers
  <1>4. ~Held(n) /\ n.seal # "requested"
    BY DEF Severed, Held
  <1>5. Linked(n, None, FALSE, e, e)
    BY <1>2, <1>4 DEF Linked, Severed
  <1>6. Awaits(n, st, cp, e)
    BY <1>1 DEF Awaits, Severed, Member
  <1>7. Revisions(n, None, nx, e, e) /\ Ordered(n, None, e, e)
    BY <1>3, <1>4 DEF Revisions, Ordered
  <1>8. Truthful(n, None, e)
    BY <1>1, <1>3, <1>4 DEF Truthful, Held
  <1>9. IsProcess(n) /\ nx \in Nat
    BY DEF Severed, Member
  <1> QED  BY <1>1, <1>2, <1>5, <1>6, <1>7, <1>8, <1>9 DEF Member

\* OnDisconnected, and the end of the process.
LEMMA DisconnectedSevered ==
  ASSUME NEW k, NEW x, IsProcess(x), x.required, x.quest = k.quest
  PROVE  /\ Severed(k, OnDisconnected(x))
         /\ Severed(k, [OnDisconnected(x) EXCEPT !.phase = "Left", !.quest = "none",
                                                 !.required = FALSE])
  <1> DEFINE no == FALSE
             b == x.locked \/ x.active
             z == NoProjection
             g == [x EXCEPT !.proj = z, !.online = no, !.active = no,
                            !.auth = no, !.locked = b]
             n == OnDisconnected(x)
             l == [n EXCEPT !.phase = "Left", !.quest = "none", !.required = no]
  <1>1. ~no /\ ~z.finalized
    BY DEF NoProjection
  <1>2. \/ n = g /\ x.seal \notin {"requested", "applying", "finalizing"}
        \/ n = Fail(g)
    BY DEF OnDisconnected
  <1> SUFFICES Severed(k, n) /\ Severed(k, l)
    OBVIOUS
  <1> HIDE DEF no, b, z, n
  <1>3. /\ IsRecord(g) /\ g.phase = x.phase /\ g.worn = x.worn
        /\ g.online = no /\ g.seal = x.seal /\ g.rev = x.rev
        /\ g.accepted = x.accepted /\ g.pick = x.pick /\ g.proj = z
        /\ g.auth = no /\ g.required = x.required /\ g.quest = x.quest
    BY DEF IsProcess, IsRecord, Fields
  <1> HIDE DEF g
  <1>4. IsProcess(n) /\ ~n.online /\ ~n.auth /\ n.seal \notin {"requested", "applying", "finalizing"}
          /\ n.quest = k.quest /\ n.required /\ n.proj = z
    <2>1. CASE n = g /\ x.seal \notin {"requested", "applying", "finalizing"}
      BY <1>1, <1>3, <2>1 DEF IsProcess, Chosen
    <2>2. CASE n = Fail(g)
      <3>1. n = Cleared(g, "Error")
        BY <2>2 DEF Fail, Cleared
      <3>2. IsCleared(g, n, "Error")
        BY <1>3, <3>1, ResetFields
      <3> QED  BY <1>1, <1>3, <3>2 DEF IsCleared, IsProcess, Chosen
    <2> QED  BY <1>2, <2>1, <2>2
  <1>5. /\ IsRecord(l) /\ l.phase = "Left" /\ l.quest = "none" /\ l.required = no
        /\ l.online = n.online /\ l.auth = n.auth /\ l.seal = n.seal
        /\ l.rev = n.rev /\ l.accepted = n.accepted /\ l.proj = n.proj
    BY <1>4 DEF IsProcess, IsRecord, Fields
  <1> HIDE DEF l
  <1>6. IsProcess(l)
    BY <1>4, <1>5 DEF IsProcess, Chosen
  <1> QED  BY <1>1, <1>4, <1>5, <1>6 DEF Severed

\* OnPlayerLeave and OnDisconnected, at both ends of a lost link.
LEMMA DisconnectsKeeps ==
  ASSUME InOrder, Evident, NEW m \in Members, Disconnects(m)
  PROVE  InOrder' /\ Evident'
  <1> DEFINE k == c[m]
             no == FALSE
             q0 == [down EXCEPT ![m] = <<>>]
             g == [ForgetReadiness(srv) EXCEPT !.here = @ \ {m}, !.lost = TRUE,
                                               !.build[m] = None]
             w == Tell(q0, g.here, Snapshot(FALSE))
  <1>1. /\ srv' = g
        /\ down' = w \/ down' = BroadcastHelgenState(g, w, Members)
        /\ up' = [up EXCEPT ![m] = <<>>]
        /\ evidence' = [evidence EXCEPT !.heard = {}]
        /\ k.online
    BY DEF Disconnects, OnPlayerLeave
  <1>2. /\ Member(k, srv.build[m], srv.next, srv.started, srv.checkpoint,
                  m \in srv.here, up[m], down[m])
        /\ IsProcess(k) /\ IsRecord(k) /\ k.required
    BY <1>1, OneOf
  <1>3. PICK n : c' = [c EXCEPT ![m] = n] /\ Severed(k, n)
    <2>1. CASE \E x \in Interrupted(k) : Step(m, OnDisconnected(x))
      <3>1. PICK x \in Interrupted(k) : Step(m, OnDisconnected(x))
        BY <2>1
      <3>2. x = k \/ \E y : x = [k EXCEPT !.worn = y]
        BY <3>1 DEF Interrupted
      <3>3. /\ IsRecord(x) /\ x.phase = k.phase /\ x.pick = k.pick /\ x.seal = k.seal
            /\ x.rev = k.rev /\ x.accepted = k.accepted
            /\ x.required = k.required /\ x.quest = k.quest
        BY <1>2, <3>2 DEF IsRecord, Fields
      <3>4. IsProcess(x)
        BY <1>2, <3>3 DEF IsProcess
      <3>5. Severed(k, OnDisconnected(x))
        BY <1>2, <3>3, <3>4, DisconnectedSevered
      <3> QED  BY <3>1, <3>5 DEF Step
    <2>2. CASE Step(m, [OnDisconnected(k) EXCEPT !.phase = "Left", !.quest = "none",
                                                 !.required = FALSE])
      BY <1>2, <2>2, DisconnectedSevered DEF Step
    <2> QED  BY <2>1, <2>2 DEF Disconnects
  <1>4. /\ g = [f \in ServerFields |-> g[f]]
        /\ g.build = [srv.build EXCEPT ![m] = None] /\ g.next = srv.next
        /\ g.here = srv.here \ {m} /\ g.checkpoint = srv.checkpoint
        /\ g.started = srv.started /\ g.ready = {}
    BY DEF InOrder, IsServer, ServerFields, ForgetReadiness
  <1> HIDE DEF g
  <1>5. /\ g.build = [p \in Members |-> g.build[p]] /\ g.build[m] = None
        /\ \A p \in Members \ {m} : g.build[p] = srv.build[p]
    BY <1>4 DEF InOrder, IsServer
  <1>6. IsServer(g)
    BY <1>4, <1>5 DEF InOrder, IsServer
  <1>7. /\ c' = [p \in Members |-> c'[p]] /\ up' = [p \in Members |-> up'[p]]
        /\ q0 = [p \in Members |-> q0[p]]
        /\ c'[m] = n /\ up'[m] = <<>> /\ q0[m] = <<>>
        /\ \A p \in Members \ {m} : c'[p] = c[p] /\ up'[p] = up[p] /\ q0[p] = down[p]
    BY <1>1, <1>3 DEF InOrder
  <1> HIDE DEF q0
  <1>8. Roster(c', g, up', q0)
    <2> SUFFICES ASSUME NEW p \in Members
                 PROVE  Member(c'[p], g.build[p], g.next, g.started,
                               g.checkpoint, p \in g.here, up'[p], q0[p])
      BY DEF Roster
    <2>1. CASE p = m
      <3>1. Member(n, None, srv.next, srv.started, srv.checkpoint, FALSE, <<>>, <<>>)
        BY <1>2, <1>3, SeveredMember
      <3>2. (m \in g.here) = FALSE
        BY <1>4
      <3> QED  BY <1>4, <1>5, <1>7, <2>1, <3>1, <3>2
    <2>2. CASE p # m
      <3>1. (p \in g.here) = (p \in srv.here)
        BY <1>4, <2>2
      <3> QED  BY <1>4, <1>5, <1>7, <2>2, <3>1 DEF InOrder, Roster
    <2> QED  BY <2>1, <2>2
  <1>9. Roster(c', g, up', w) /\ w = [p \in Members |-> w[p]]
    <2>1. Plain(Snapshot(FALSE), g.started)
      BY PlainPackets
    <2>2. Roster(c', g, up', w)
      BY <1>8, <2>1, TellRoster
    <2> QED  BY <2>2 DEF Tell
  <1> HIDE DEF w
  <1>10. /\ Roster(c', g, up', BroadcastHelgenState(g, w, Members))
         /\ BroadcastHelgenState(g, w, Members) =
              [p \in Members |-> BroadcastHelgenState(g, w, Members)[p]]
    BY <1>6, <1>9, BroadcastRoster
  <1>11. Roster(c', g, up', down') /\ down' = [p \in Members |-> down'[p]]
    BY <1>1, <1>9, <1>10
  <1>12. /\ evidence'.heard = {} /\ evidence'.start = evidence.start
         /\ evidence' = [heard |-> evidence'.heard, start |-> evidence'.start]
    BY <1>1 DEF Evident
  <1>13. Evident'
    BY <1>1, <1>4, <1>12 DEF Evident
  <1>14. IsServer(srv)' /\ Roster(c, srv, up, down)'
    BY <1>1, <1>6, <1>11 DEF IsServer, Roster
  <1> QED  BY <1>7, <1>11, <1>13, <1>14 DEF InOrder

\* A member that is back has its snapshot to read and no build.
LEMMA ReturnsKeeps ==
  ASSUME InOrder, Evident, NEW m \in Members, Returns(m)
  PROVE  InOrder' /\ Evident'
  <1> DEFINE k == c[m]
             yes == TRUE
             n == [k EXCEPT !.online = yes]
             h == srv.here \cup {m}
             s == [srv EXCEPT !.here = h]
             e == <<>>
             q0 == [down EXCEPT ![m] = e]
  <1>1. /\ ~k.online /\ k.phase # "Left" /\ c' = [c EXCEPT ![m] = n]
        /\ srv' = s /\ down' = [down EXCEPT ![m] = <<Snapshot(FALSE)>>]
        /\ up' = up /\ evidence' = evidence
    BY DEF Returns, Step
  <1>2. /\ Member(k, srv.build[m], srv.next, srv.started, srv.checkpoint,
                  m \in srv.here, up[m], down[m])
        /\ IsProcess(k) /\ IsRecord(k) /\ k.required
        /\ srv.build[m] = None /\ up[m] = <<>> /\ down[m] = <<>>
        /\ ~Held(k) /\ k.seal # "requested"
    BY <1>1, OneOf DEF Member, Linked
  <1>3. yes /\ h \subseteq Members /\ m \in h
    BY DEF InOrder, IsServer
  <1>4. \A p \in Members \ {m} : (p \in h) = (p \in srv.here)
    OBVIOUS
  <1> HIDE DEF yes, h
  <1>5. /\ IsRecord(n) /\ n.phase = k.phase /\ n.worn = k.worn
        /\ n.online = yes /\ n.seal = k.seal /\ n.rev = k.rev
        /\ n.accepted = k.accepted /\ n.pick = k.pick
        /\ n.auth = k.auth /\ n.required = k.required /\ n.quest = k.quest
    BY <1>2 DEF IsRecord, Fields
  <1>6. /\ s = [f \in ServerFields |-> s[f]]
        /\ s.build = srv.build /\ s.next = srv.next /\ s.here = h
        /\ s.checkpoint = srv.checkpoint /\ s.started = srv.started
        /\ s.ready = srv.ready
    BY DEF InOrder, IsServer, ServerFields
  <1> HIDE DEF s, n
  <1>7. IsServer(s)
    BY <1>3, <1>6 DEF InOrder, IsServer
  <1>8. Member(n, srv.build[m], srv.next, srv.started, srv.checkpoint,
               m \in h, up[m], down[m])
    <2>1. IsProcess(n)
      BY <1>2, <1>5 DEF IsProcess
    <2>2. ~Held(n)
      BY <1>2, <1>5 DEF Held
    <2>3. Linked(n, srv.build[m], m \in h, up[m], down[m])
      BY <1>2, <1>3, <1>5 DEF Linked
    <2>4. Awaits(n, srv.started, srv.checkpoint, down[m])
      BY <1>2, <1>5 DEF Member, Awaits
    <2>5. Revisions(n, srv.build[m], srv.next, up[m], down[m])
      BY <1>2, <2>2 DEF Member, Revisions
    <2>6. Ordered(n, srv.build[m], up[m], down[m])
      BY <1>2, <2>2 DEF Member, Ordered
    <2>7. Truthful(n, srv.build[m], up[m])
      BY <1>2, <1>5 DEF Member, Truthful, Suits
    <2> QED  BY <1>2, <2>1, <2>3, <2>4, <2>5, <2>6, <2>7 DEF Member
  <1>9. /\ c' = [p \in Members |-> c'[p]] /\ c'[m] = n
        /\ down' = [p \in Members |-> down'[p]] /\ down'[m] = <<Snapshot(FALSE)>>
        /\ \A p \in Members \ {m} : c'[p] = c[p] /\ down'[p] = down[p]
        /\ up' = [p \in Members |-> up'[p]]
    BY <1>1 DEF InOrder
  <1>10. Roster(c', s, up, down)
    <2> SUFFICES ASSUME NEW p \in Members
                 PROVE  Member(c'[p], s.build[p], s.next, s.started,
                               s.checkpoint, p \in s.here, up[p], down[p])
      BY DEF Roster
    <2>1. CASE p = m
      BY <1>6, <1>8, <1>9, <2>1
    <2>2. CASE p # m
      BY <1>4, <1>6, <1>9, <2>2 DEF InOrder, Roster
    <2> QED  BY <2>1, <2>2
  <1>11. Roster(c', s, up, Tell(down, {m}, Snapshot(FALSE)))
    <2>1. Plain(Snapshot(FALSE), s.started) /\ {m} \subseteq s.here
      BY <1>3, <1>6, PlainPackets
    <2> QED  BY <1>10, <2>1, TellRoster
  <1>12. \A p \in Members : Tell(down, {m}, Snapshot(FALSE))[p] = down'[p]
    <2>1. Append(<<>>, Snapshot(FALSE)) = <<Snapshot(FALSE)>>
      OBVIOUS
    <2> QED  BY <1>2, <1>9, <2>1 DEF Tell
  <1>13. Roster(c', s, up, down')
    BY <1>11, <1>12 DEF Roster
  <1>14. Evident'
    BY <1>1, <1>6 DEF Evident
  <1>15. IsServer(srv)' /\ Roster(c, srv, up, down)'
    BY <1>1, <1>7, <1>13 DEF IsServer, Roster
  <1> QED  BY <1>9, <1>14, <1>15 DEF InOrder

\* The completed recovery tells every member.
LEMMA RecoveryKeeps ==
  ASSUME InOrder, Evident, RecoveryCompletes
  PROVE  InOrder' /\ Evident'
  <1> DEFINE no == FALSE
             s == [srv EXCEPT !.lost = no]
             p == Snapshot(TRUE)
  <1>1. /\ srv.here = Members /\ srv' = s /\ down' = Tell(down, Members, p)
        /\ c' = c /\ up' = up /\ evidence' = evidence
    BY DEF RecoveryCompletes
  <1> HIDE DEF no
  <1>2. /\ s = [f \in ServerFields |-> s[f]]
        /\ s.build = srv.build /\ s.next = srv.next /\ s.here = srv.here
        /\ s.checkpoint = srv.checkpoint /\ s.started = srv.started
        /\ s.ready = srv.ready
    BY DEF InOrder, IsServer, ServerFields
  <1>3. Plain(p, s.started)
    BY PlainPackets
  <1> HIDE DEF s, p
  <1>4. IsServer(s) /\ Roster(c, s, up, down)
    BY <1>2 DEF InOrder, IsServer, Roster
  <1>5. Members \subseteq s.here
    BY <1>1, <1>2
  <1>6. Roster(c, s, up, Tell(down, Members, p))
    BY <1>3, <1>4, <1>5, TellRoster
  <1>7. /\ down' = [n \in Members |-> down'[n]]
        /\ c' = [n \in Members |-> c'[n]] /\ up' = [n \in Members |-> up'[n]]
    BY <1>1 DEF Tell, InOrder
  <1>8. IsServer(srv)' /\ Roster(c, srv, up, down)'
    BY <1>1, <1>4, <1>6 DEF IsServer, Roster
  <1>9. Evident'
    BY <1>1, <1>2 DEF Evident
  <1> QED  BY <1>7, <1>8, <1>9 DEF InOrder

-----------------------------------------------------------------------------
(* The theorems.                                                            *)

\* A new roster, or one that loaded a checkpoint, is in order.
LEMMA InitInOrder ==
  ASSUME Init PROVE InOrder /\ Evident
  <1> DEFINE p == Snapshot(TRUE)
             d == <<p>>
  <1>1. PICK resumed \in BOOLEAN :
          /\ c = [m \in Members |-> IF resumed THEN [Fresh EXCEPT !.phase = "Done",
                                                                  !.quest = "begun"]
                                    ELSE Fresh]
          /\ srv = [build |-> [m \in Members |-> None], next |-> 1,
                    here |-> Members, lost |-> FALSE, checkpoint |-> resumed,
                    started |-> FALSE, ready |-> {}]
    BY DEF Init
  <1>2. /\ up = [m \in Members |-> <<>>] /\ down = [m \in Members |-> d]
        /\ evidence = [heard |-> {}, start |-> {}]
    BY DEF Init
  <1>3. /\ srv.build = [m \in Members |-> None] /\ srv.next = 1
        /\ srv.here = Members /\ srv.ready = {}
        /\ srv = [f \in ServerFields |-> srv[f]]
    BY <1>1 DEF ServerFields
  <1>4. srv.started = FALSE /\ srv.checkpoint = resumed
    BY <1>1
  <1>5. Plain(p, FALSE)
    BY PlainPackets
  <1> HIDE DEF p
  <1>6. d \in Seq(Downward) /\ DOMAIN d = {1} /\ d[1] = p
    BY <1>5 DEF Plain
  <1>7. Offers(d) = {} /\ \A i \in DOMAIN d : d[i] = p
    BY <1>5, <1>6 DEF Offers, Plain
  <1> HIDE DEF d
  <1>8. Evident
    BY <1>2, <1>3, <1>4 DEF Evident
  <1>9. ASSUME NEW m \in Members
        PROVE  Member(c[m], srv.build[m], srv.next, srv.started, srv.checkpoint,
                      m \in srv.here, up[m], down[m])
    <2> DEFINE k == c[m]
               e == <<>>
    <2>1. \/ k = Fresh /\ ~resumed
          \/ k = [Fresh EXCEPT !.phase = "Done", !.quest = "begun"] /\ resumed
      BY <1>1
    <2> HIDE DEF k, e
    <2>12. /\ IsRecord(Fresh) /\ Fresh.phase = "Gate" /\ Fresh.seal = "idle"
           /\ Fresh.rev = 0 /\ Fresh.quest = "none"
      BY DEF Fresh, IsRecord, Fields
    <2>13. Fresh.online = TRUE /\ Fresh.required = TRUE /\ Fresh.auth = FALSE
      BY DEF Fresh
    <2>2. /\ IsRecord(k) /\ k.phase \in {"Gate", "Done"} /\ k.seal = "idle"
          /\ k.rev = 0 /\ k.quest = IF resumed THEN "begun" ELSE "none"
      BY <2>1, <2>12 DEF IsRecord, Fields
    <2>14. k.online = Fresh.online /\ k.required = Fresh.required /\ k.auth = Fresh.auth
      BY <2>1, <2>12 DEF IsRecord, Fields
    <2>3. k.online /\ k.required /\ ~k.auth
      BY <2>13, <2>14
    <2> USE DEF k, e
    <2>4. e \in Seq(Upward) /\ DOMAIN e = {} /\ Acks(e) = {}
      BY DEF Acks
    <2>5. up[m] = e /\ down[m] = d /\ srv.build[m] = None /\ srv.next \in Nat
            /\ m \in srv.here /\ ~srv.started
      BY <1>2, <1>3, <1>4
    <2> HIDE DEF e, k
    <2>6. ~Held(k) /\ IsProcess(k)
      BY <2>2 DEF Held, IsProcess, Chosen
    <2>7. Linked(k, srv.build[m], m \in srv.here, up[m], down[m])
      BY <2>3, <2>5 DEF Linked
    <2>8. Awaits(k, srv.started, srv.checkpoint, down[m])
      BY <1>4, <1>5, <1>7, <2>2, <2>3, <2>5 DEF Awaits, Plain
    <2>9. Revisions(k, srv.build[m], srv.next, up[m], down[m])
      BY <1>7, <2>4, <2>5, <2>6 DEF Revisions
    <2>10. Ordered(k, srv.build[m], up[m], down[m])
      BY <1>7, <2>4, <2>5, <2>6 DEF Ordered
    <2>11. Truthful(k, srv.build[m], up[m])
      BY <2>2, <2>4, <2>5 DEF Truthful
    <2> QED  BY <1>6, <2>4, <2>5, <2>6, <2>7, <2>8, <2>9, <2>10, <2>11 DEF Member, k
  <1>10. Roster(c, srv, up, down)
    BY <1>9 DEF Roster
  <1>11. IsServer(srv)
    <2>1. srv.build = [n \in Members |-> srv.build[n]] /\ srv.next \in Nat
      BY <1>3
    <2>2. srv.started \in BOOLEAN /\ srv.here \subseteq Members
      BY <1>3, <1>4
    <2> QED  BY <1>3, <2>1, <2>2 DEF IsServer
  <1>12. /\ c = [m \in Members |-> c[m]] /\ up = [m \in Members |-> up[m]]
         /\ down = [m \in Members |-> down[m]]
    BY <1>1, <1>2
  <1> QED  BY <1>8, <1>10, <1>11, <1>12 DEF InOrder

\* Every step keeps the system in order.
LEMMA NextInOrder ==
  ASSUME InOrder, Evident, [Next]_vars PROVE InOrder' /\ Evident'
  <1>1. CASE UNCHANGED vars
    BY <1>1 DEF vars, InOrder, Evident, IsServer, Roster
  <1>2. ASSUME NEW m \in Members, PlayerActs(m) PROVE InOrder' /\ Evident'
    BY <1>2, MenusKeep, ConfirmBuildKeeps, PlayerLocationKeeps DEF PlayerActs
  <1>3. ASSUME NEW m \in Members, ClientUpdates(m) PROVE InOrder' /\ Evident'
    BY <1>3, MenusKeep, AppliesBuildKeeps, QuestKeeps, SignalReadyKeeps
       DEF ClientUpdates, AdvanceBuildApplication
  <1> QED  BY <1>1, <1>2, <1>3, ServerReceivesKeeps, ClientReceivesKeeps,
              DisconnectsKeeps, ReturnsKeeps, RecoveryKeeps DEF Next

\* In every reachable state each member is in order with what the server
\* holds for it and with the packets between them.
THEOREM RosterInvariance == Spec => [](InOrder /\ Evident)
  <1>1. Init => InOrder /\ Evident
    BY InitInOrder
  <1>2. InOrder /\ Evident /\ [Next]_vars => InOrder' /\ Evident'
    BY NextInOrder
  <1> QED  BY <1>1, <1>2, PTL DEF Spec

\* Nobody begins the investigation and no client is authorized before the
\* barrier latched, and it latched with the proof of the whole roster
\* (CampaignHelgenStartBarrier::Observe and Disconnect, BeginInvestigation).
THEOREM StartTogether == Spec => []CollectiveStart
  <1>1. ASSUME InOrder, Evident PROVE CollectiveStart
    <2>1. srv.started => evidence.start = Members
      BY <1>1 DEF Evident
    <2>2. ASSUME NEW m \in Members
          PROVE  c[m].auth \/ (c[m].quest = "begun" /\ ~srv.checkpoint) => srv.started
      BY <1>1 DEF InOrder, Roster, Member, Awaits
    <2> QED  BY <2>1, <2>2 DEF CollectiveStart
  <1> QED  BY <1>1, RosterInvariance, PTL

\* What the server sealed is what the character wears, whatever submissions,
\* timeouts, late answers and lost links came before
\* (OnCharacterBuildAppliedRequest, AdvanceBuildApplication).
THEOREM SealedBuild == Spec => []SealedBuildIsWorn
  <1>1. ASSUME InOrder PROVE SealedBuildIsWorn
    <2> SUFFICES ASSUME NEW m \in srv.here,
                        srv.build[m] # None, srv.build[m].applied
                 PROVE  Suits(c[m], srv.build[m])
      BY DEF SealedBuildIsWorn, Suits
    <2>1. m \in Members
      BY <1>1 DEF InOrder, IsServer
    <2> QED  BY <1>1, <2>1 DEF InOrder, Roster, Member, Truthful
  <1> QED  BY <1>1, RosterInvariance, PTL
=============================================================================
