------------------------ MODULE WorldOwnershipProofs ------------------------
(***************************************************************************)
(* The owner of an actor is connected, and among the players the server     *)
(* lists an entity has one holder, for any set of players and any bounds.   *)
(* The two ends of a connection notice its loss independently, so nothing   *)
(* is said of a game that the server has dropped, until it comes back: by   *)
(* then it has noticed, and simulates nothing the server manages.           *)
(***************************************************************************)
EXTENDS WorldOwnership, TLAPS

(***************************************************************************)
(* The server's half.                                                       *)
(***************************************************************************)
IsServer(s) ==
  s = [ent |-> s.ent, nextId |-> s.nextId, online |-> s.online,
       chars |-> s.chars, leader |-> s.leader, where |-> s.where,
       down |-> s.down]
IsEntity(e) ==
  /\ e = [id |-> e.id, owner |-> e.owner, invalid |-> e.invalid]
  /\ e.id \in Nat

\* Packets, with the numbers the counters reach without a bound.
Answers ==
  [type: {"Assigned"}, cookie: Nat, id: Nat, owner: BOOLEAN]
    \cup [type: {"Spawn", "Remove", "Transfer", "Relinquish", "Mounted"}, id: Nat]
    \cup [type: {"PartyJoined", "PartyInfo"}]
Requests ==
  [type: {"Hello"}] \cup [type: {"Enter"}, cell: Cells]
    \cup [type: {"Assign"}, cookie: Nat]
    \cup [type: {"RequestTransfer", "Claim", "Mount"}, id: Nat]

\* The registry never names a player that is gone.
ServerSound(s) ==
  /\ IsServer(s)
  /\ s.nextId \in Nat
  /\ s.online \subseteq Players
  /\ s.down \in [Players -> Seq(Answers)]
  /\ s.ent # None => IsEntity(s.ent) /\ s.ent.owner \in s.online

\* Every packet the server sends is one the client knows.
LEMMA AnswerTypes ==
  /\ \A id \in Nat :
       /\ [type |-> "Spawn", id |-> id] \in Answers
       /\ [type |-> "Remove", id |-> id] \in Answers
       /\ [type |-> "Transfer", id |-> id] \in Answers
       /\ [type |-> "Relinquish", id |-> id] \in Answers
       /\ [type |-> "Mounted", id |-> id] \in Answers
  /\ \A id, cookie \in Nat, owner \in BOOLEAN :
       [type |-> "Assigned", cookie |-> cookie, id |-> id, owner |-> owner]
         \in Answers
  /\ [type |-> "PartyJoined"] \in Answers
  /\ [type |-> "PartyInfo"] \in Answers
  BY DEF Answers

\* Sending changes what is on its way and nothing else.
LEMMA SendFields ==
  ASSUME NEW s, IsServer(s), NEW to, NEW m
  PROVE  LET t == Send(s, to, m)
         IN  /\ IsServer(t)
             /\ t.ent = s.ent /\ t.online = s.online /\ t.where = s.where
             /\ t.chars = s.chars /\ t.leader = s.leader
             /\ t.nextId = s.nextId
             /\ \A q \in Players \ to : t.down[q] = s.down[q]
             /\ s.down \in [Players -> Seq(Answers)] /\ m \in Answers
                  => t.down \in [Players -> Seq(Answers)]
  <1> DEFINE d == [q \in Players |->
                     IF q \in to THEN Append(s.down[q], m) ELSE s.down[q]]
             t == [s EXCEPT !.down = d]
  <1>1. Send(s, to, m) = t
    BY DEF Send
  <1>2. /\ \A q \in Players \ to : d[q] = s.down[q]
        /\ s.down \in [Players -> Seq(Answers)] /\ m \in Answers
             => d \in [Players -> Seq(Answers)]
    OBVIOUS
  <1> HIDE DEF d
  <1>3. /\ IsServer(t) /\ t.down = d
        /\ t.ent = s.ent /\ t.online = s.online /\ t.where = s.where
        /\ t.chars = s.chars /\ t.leader = s.leader
        /\ t.nextId = s.nextId
    BY DEF IsServer
  <1> QED  BY <1>1, <1>2, <1>3

\* The registry after the entity changed.
LEMMA EntityFields ==
  ASSUME NEW s, IsServer(s), NEW e
  PROVE  LET t == [s EXCEPT !.ent = e]
         IN  IsServer(t) /\ t.online = s.online /\ t.down = s.down
               /\ t.ent = e /\ t.nextId = s.nextId
  BY DEF IsServer

\* A sound server that sends to connected players only stays sound.
LEMMA SendSound ==
  ASSUME NEW s, ServerSound(s), NEW to, to \subseteq s.online,
         NEW m \in Answers
  PROVE  /\ ServerSound(Send(s, to, m))
         /\ Send(s, to, m).online = s.online
  <1> DEFINE t == Send(s, to, m)
  <1>1. /\ IsServer(t) /\ t.ent = s.ent /\ t.online = s.online
        /\ t.nextId = s.nextId /\ t.down \in [Players -> Seq(Answers)]
        /\ \A q \in Players \ to : t.down[q] = s.down[q]
    BY SendFields DEF ServerSound
  <1> HIDE DEF t
  <1>2. ServerSound(t)
    BY <1>1 DEF ServerSound
  <1> QED  BY <1>1, <1>2 DEF t

\* OnCharacterRemoveEvent.
LEMMA RemovedSound ==
  ASSUME NEW s, ServerSound(s), IsEntity(s.ent)
  PROVE  ServerSound(Removed(s)) /\ Removed(s).online = s.online
                                 /\ Removed(s).ent = None
  <1> DEFINE t == Send(s, s.online \ {s.ent.owner},
                       [type |-> "Remove", id |-> s.ent.id])
  <1>1. ServerSound(t) /\ t.online = s.online
    BY SendSound, AnswerTypes DEF IsEntity
  <1>2. Removed(s) = [t EXCEPT !.ent = None]
    BY DEF Removed
  <1> HIDE DEF t
  <1> QED  BY <1>1, <1>2 DEF ServerSound, IsServer

\* OnOwnershipTransferEvent: the new owner is connected and not the old one.
LEMMA TransferredSound ==
  ASSUME NEW s, ServerSound(s), IsEntity(s.ent), NEW t \in Transferred(s)
  PROVE  /\ ServerSound(t) /\ t.online = s.online
         /\ t.ent # None => t.ent.owner # s.ent.owner
  <1>1. CASE Candidates(s) = {}
    BY <1>1, RemovedSound DEF Transferred
  <1>2. CASE Candidates(s) # {}
    <2>1. PICK q \in Candidates(s) :
            t = Send([s EXCEPT !.ent.owner = q], {q},
                     [type |-> "Transfer", id |-> s.ent.id])
      BY <1>2 DEF Transferred
    <2> DEFINE u == [s EXCEPT !.ent.owner = q]
    <2>2. q \in s.online /\ q # s.ent.owner
      BY DEF Candidates, InRange
    <2>3. IsServer(u) /\ u.online = s.online /\ u.down = s.down
            /\ u.ent = [s.ent EXCEPT !.owner = q] /\ u.nextId = s.nextId
      BY EntityFields DEF ServerSound
    <2>4. IsEntity(u.ent) /\ u.ent.owner = q
      BY <2>3 DEF IsEntity
    <2> HIDE DEF u
    <2>5. ServerSound(u)
      BY <2>2, <2>3, <2>4 DEF ServerSound
    <2> DEFINE m == [type |-> "Transfer", id |-> s.ent.id]
    <2>6. t = Send(u, {q}, m) /\ m \in Answers
      BY <2>1, AnswerTypes DEF u, IsEntity
    <2> HIDE DEF m
    <2>7. t.ent = u.ent
      BY <2>3, <2>6, SendFields
    <2>8. ServerSound(t) /\ t.online = u.online
      BY <2>2, <2>3, <2>5, <2>6, SendSound
    <2> QED  BY <2>2, <2>3, <2>4, <2>7, <2>8
  <1> QED  BY <1>1, <1>2

\* TransferOwnership.
LEMMA ClaimedSound ==
  ASSUME NEW s, ServerSound(s), s.ent # None, NEW p \in s.online
  PROVE  ServerSound(Claimed(s, p)) /\ Claimed(s, p).online = s.online
  <1> DEFINE told == IF s.ent.owner = p THEN s
                     ELSE Send(s, {s.ent.owner},
                               [type |-> "Relinquish", id |-> s.ent.id])
             t == Claimed(s, p)
  <1>1. ServerSound(told) /\ told.online = s.online /\ told.ent = s.ent
    <2> DEFINE m == [type |-> "Relinquish", id |-> s.ent.id]
    <2>1. m \in Answers /\ {s.ent.owner} \subseteq s.online /\ IsServer(s)
      BY AnswerTypes DEF ServerSound, IsEntity
    <2> HIDE DEF m
    <2>2. told = IF s.ent.owner = p THEN s ELSE Send(s, {s.ent.owner}, m)
      BY DEF m
    <2> QED  BY <2>1, <2>2, SendSound, SendFields
  <1>2. t = [told EXCEPT !.ent = [[told.ent EXCEPT !.owner = p]
                                              EXCEPT !.invalid = {}]]
    <2>1. t = [told EXCEPT !.ent.owner = p, !.ent.invalid = {}]
      BY DEF Claimed
    <2> HIDE DEF told, t
    <2> QED  BY <1>1, <2>1 DEF ServerSound, IsServer
  <1> HIDE DEF told, t
  <1>3. IsServer(t) /\ t.online = told.online /\ t.down = told.down
          /\ t.nextId = told.nextId
          /\ t.ent = [[told.ent EXCEPT !.owner = p] EXCEPT !.invalid = {}]
    BY <1>1, <1>2 DEF ServerSound, IsServer
  <1>4. IsEntity(t.ent) /\ t.ent.owner = p
    BY <1>1, <1>3 DEF ServerSound, IsEntity
  <1>5. ServerSound(t) /\ t.online = s.online
    BY <1>1, <1>3, <1>4 DEF ServerSound
  <1> QED  BY <1>5 DEF t

\* CreateCharacter.
LEMMA CreatedSound ==
  ASSUME NEW s, ServerSound(s), NEW p \in s.online, NEW cookie \in Nat
  PROVE  ServerSound(Created(s, p, cookie))
           /\ Created(s, p, cookie).online = s.online
  <1> DEFINE e == [id |-> s.nextId, owner |-> p, invalid |-> {}]
             n == s.nextId + 1
             made == [s EXCEPT !.ent = e, !.nextId = n]
             first == Send(made, {p}, [type |-> "Assigned", cookie |-> cookie,
                                       id |-> s.nextId, owner |-> TRUE])
             t == Created(s, p, cookie)
  <1>1. t = Send(first, InRange(made) \ {p}, [type |-> "Spawn", id |-> s.nextId])
    BY DEF Created
  <1>2. IsServer(made) /\ made.online = s.online /\ made.down = s.down
          /\ made.ent = e /\ made.nextId = n
    <2> HIDE DEF e, n
    <2> DEFINE named == [s EXCEPT !.ent = e]
    <2>1. IsServer(named) /\ named.online = s.online /\ named.down = s.down
            /\ named.ent = e
      BY EntityFields DEF ServerSound
    <2>2. made = [named EXCEPT !.nextId = n]
      OBVIOUS
    <2> HIDE DEF named, made
    <2> QED  BY <2>1, <2>2 DEF IsServer
  <1>3. IsEntity(e) /\ e.owner = p /\ n \in Nat
    BY DEF IsEntity, ServerSound
  <1> HIDE DEF e, n, made
  <1>4. ServerSound(made)
    BY <1>2, <1>3 DEF ServerSound
  <1>5. ServerSound(first) /\ first.online = s.online
    <2> DEFINE m == [type |-> "Assigned", cookie |-> cookie,
                     id |-> s.nextId, owner |-> TRUE]
    <2>1. m \in Answers
      BY AnswerTypes DEF ServerSound
    <2>2. first = Send(made, {p}, m)
      OBVIOUS
    <2> HIDE DEF m, first
    <2> QED  BY <1>2, <1>4, <2>1, <2>2, SendSound
  <1>6. InRange(made) \ {p} \subseteq s.online
    BY <1>2 DEF InRange
  <1> HIDE DEF first, t
  <1>7. ServerSound(t) /\ t.online = s.online
    <2> DEFINE m == [type |-> "Spawn", id |-> s.nextId]
    <2>1. m \in Answers
      BY AnswerTypes DEF ServerSound
    <2>2. t = Send(first, InRange(made) \ {p}, m)
      BY <1>1
    <2> HIDE DEF m
    <2> QED  BY <1>5, <1>6, <2>1, <2>2, SendSound
  <1> QED  BY <1>7 DEF t

\* OnAssignCharacterRequest.
LEMMA AssignSound ==
  ASSUME NEW s, ServerSound(s), NEW p \in s.online, NEW cookie \in Nat
  PROVE  ServerSound(Assign(s, p, cookie))
           /\ Assign(s, p, cookie).online = s.online
  <1>1. CASE s.ent = None
    BY <1>1, CreatedSound DEF Assign
  <1>2. CASE s.ent # None
    <2> DEFINE mine == s.leader = p /\ ~mount
               kept == IF mine THEN Claimed(s, p) ELSE s
    <2>1. ServerSound(kept) /\ kept.online = s.online
      BY <1>2, ClaimedSound
    <2>2. Assign(s, p, cookie) =
            Send(kept, {p}, [type |-> "Assigned", cookie |-> cookie,
                             id |-> s.ent.id, owner |-> mine])
      BY <1>2 DEF Assign
    <2>3. mine \in BOOLEAN /\ s.ent.id \in Nat
      BY <1>2 DEF ServerSound, IsEntity
    <2> HIDE DEF kept, mine
    <2> QED  BY <2>1, <2>2, <2>3, SendSound, AnswerTypes
  <1> QED  BY <1>1, <1>2

\* HandleInteriorCellEnter.
LEMMA EnteredSound ==
  ASSUME NEW s, ServerSound(s), NEW p \in s.online, NEW cell
  PROVE  ServerSound(Entered(s, p, cell))
           /\ Entered(s, p, cell).online = s.online
  <1> DEFINE moved == [s EXCEPT !.where[p] = cell]
  <1>1. ServerSound(moved) /\ moved.online = s.online
    <2> DEFINE w == [s.where EXCEPT ![p] = cell]
               n == [s EXCEPT !.where = w]
    <2>1. moved = n
      OBVIOUS
    <2> HIDE DEF w
    <2>2. /\ IsServer(n) /\ n.online = s.online /\ n.ent = s.ent
          /\ n.nextId = s.nextId /\ n.down = s.down
      BY DEF ServerSound, IsServer
    <2> HIDE DEF moved, n
    <2> QED  BY <2>1, <2>2 DEF ServerSound
  <1> DEFINE m == [type |-> "Spawn", id |-> s.ent.id]
  <1>2. \/ Entered(s, p, cell) = moved
        \/ m \in Answers /\ Entered(s, p, cell) = Send(moved, {p}, m)
    BY AnswerTypes DEF Entered, ServerSound, IsEntity
  <1> HIDE DEF moved, m
  <1> QED  BY <1>1, <1>2, SendSound

\* Every packet of a connected player leaves the server sound.
LEMMA HandledSound ==
  ASSUME NEW s, ServerSound(s), NEW p \in s.online, NEW m \in Requests,
         NEW t \in Handled(s, p, m)
  PROVE  ServerSound(t) /\ t.online = s.online
  <1>1. CASE m.type = "Hello"
    <2>1. t = [s EXCEPT !.chars = @ \cup {p}]
      BY <1>1 DEF Handled
    <2> QED  BY <2>1 DEF ServerSound, IsServer
  <1>2. CASE m.type = "Enter"
    BY <1>2, EnteredSound DEF Handled
  <1>3. CASE m.type = "Assign"
    BY <1>3, AssignSound DEF Handled, Requests
  <1>4. CASE m.type = "RequestTransfer"
    <2> DEFINE u == [s EXCEPT !.ent.invalid = @ \cup {p}]
    <2>1. CASE ~Has(s, m.id)
      BY <1>4, <2>1 DEF Handled
    <2>2. CASE Has(s, m.id)
      <3>1. IsServer(u) /\ u.online = s.online /\ u.down = s.down
              /\ u.ent = [s.ent EXCEPT !.invalid = s.ent.invalid \cup {p}]
              /\ u.nextId = s.nextId
        BY EntityFields DEF ServerSound
      <3>2. s.ent # None /\ t \in Transferred(u)
        BY <1>4, <2>2 DEF Handled, Has
      <3>3. IsEntity(u.ent) /\ u.ent.owner = s.ent.owner
        BY <3>1, <3>2 DEF ServerSound, IsEntity
      <3> HIDE DEF u
      <3>4. ServerSound(u)
        BY <3>1, <3>2, <3>3 DEF ServerSound
      <3> QED  BY <3>1, <3>2, <3>3, <3>4, TransferredSound
    <2> QED  BY <2>1, <2>2
  <1>5. CASE m.type = "Claim"
    BY <1>5, ClaimedSound DEF Handled, Has
  <1>6. CASE m.type = "Mount"
    <2>1. InRange(s) \ {p} \subseteq s.online
      BY DEF InRange
    <2> DEFINE a == [type |-> "Mounted", id |-> m.id]
    <2>2. a \in Answers
      BY <1>6, AnswerTypes DEF Requests
    <2>3. t = s \/ t = Send(s, InRange(s) \ {p}, a)
      BY <1>6 DEF Handled
    <2> HIDE DEF a
    <2> QED  BY <2>1, <2>2, <2>3, SendSound
  <1> QED  BY <1>1, <1>2, <1>3, <1>4, <1>5, <1>6 DEF Requests

\* OnDisconnection, first half: who leaves owns nothing any more.
LEMMA FreedSound ==
  ASSUME NEW s, ServerSound(s), NEW p \in s.online, NEW x \in Freed(s, p)
  PROVE  /\ ServerSound(x) /\ x.online = s.online
         /\ x.ent # None => x.ent.owner # p
  <1> DEFINE w == [s.where EXCEPT ![p] = None]
             left == [s EXCEPT !.where = w]
  <1>1. x \in IF s.ent = None THEN {left}
              ELSE IF p \notin s.chars /\ s.ent.id = 0 THEN {Removed(left)}
              ELSE IF s.ent.owner = p THEN Transferred(left)
              ELSE {left}
    BY DEF Freed
  <1> HIDE DEF w
  <1>2. IsServer(left) /\ left.online = s.online /\ left.ent = s.ent
          /\ left.nextId = s.nextId /\ left.down = s.down
    BY SMTT(60) DEF ServerSound, IsServer
  <1> HIDE DEF left
  <1>3. ServerSound(left) /\ (s.ent # None => IsEntity(left.ent))
    BY <1>2 DEF ServerSound
  <1>4. CASE s.ent = None
    BY <1>1, <1>2, <1>3, <1>4
  <1>5. CASE s.ent # None
    <2>1. x = Removed(left) \/ (s.ent.owner = p /\ x \in Transferred(left))
            \/ (s.ent.owner # p /\ x = left)
      BY <1>1, <1>5
    <2>2. left.ent # None /\ IsEntity(left.ent)
      BY <1>2, <1>3, <1>5
    <2>3. CASE x = Removed(left)
      BY <1>2, <1>3, <2>2, <2>3, RemovedSound
    <2>4. CASE s.ent.owner = p /\ x \in Transferred(left)
      BY <1>2, <1>3, <2>2, <2>4, TransferredSound
    <2>5. CASE s.ent.owner # p /\ x = left
      BY <1>2, <1>3, <2>5
    <2> QED  BY <2>1, <2>3, <2>4, <2>5
  <1> QED  BY <1>4, <1>5

\* PlayerLeaveEvent.
LEMMA PartyLeftSound ==
  ASSUME NEW s, ServerSound(s), NEW p \in s.online, NEW h \in PartyLeft(s, p)
  PROVE  /\ ServerSound(h) /\ h.online = s.online /\ h.ent = s.ent
         /\ s.leader # p => h = s
         /\ h.leader = None => s.leader = None \/ s.online = {p}
  <1>1. CASE s.leader # p
    BY <1>1 DEF PartyLeft
  <1>2. CASE s.leader = p /\ s.online = {p}
    <2>1. h = [s EXCEPT !.leader = None]
      BY <1>2 DEF PartyLeft
    <2> QED  BY <1>2, <2>1 DEF ServerSound, IsServer
  <1>3. CASE s.leader = p /\ s.online # {p}
    <2> DEFINE m == [type |-> "PartyInfo"]
    <2>1. PICK q \in s.online \ {p} : h = Send([s EXCEPT !.leader = q], {q}, m)
      BY <1>3 DEF PartyLeft
    <2> DEFINE l == [s EXCEPT !.leader = q]
    <2>2. h = Send(l, {q}, m) /\ m \in Answers /\ {q} \subseteq s.online /\ q # None
      BY <2>1, AnswerTypes, OwnershipAssumption DEF ServerSound
    <2>3. ServerSound(l) /\ l.online = s.online /\ l.ent = s.ent /\ l.leader = q
      <3>0. IsServer(s)
        BY DEF ServerSound
      <3>1. /\ IsServer(l) /\ l.online = s.online /\ l.ent = s.ent /\ l.leader = q
            /\ l.nextId = s.nextId /\ l.down = s.down
        BY <3>0 DEF IsServer
      <3> HIDE DEF l
      <3> QED  BY <3>1 DEF ServerSound
    <2> HIDE DEF l, m
    <2>4. IsServer(l)
      BY <2>3 DEF ServerSound
    <2>5. ServerSound(h) /\ h.online = s.online /\ h.ent = s.ent /\ h.leader = q
      BY <2>2, <2>3, <2>4, SendSound, SendFields
    <2> QED  BY <1>3, <2>2, <2>5
  <1> QED  BY <1>1, <1>2, <1>3

\* The player manager forgets the player.
LEMMA GoneFields ==
  ASSUME NEW x, IsServer(x), NEW p
  PROVE  LET g == Gone(x, p)
         IN  /\ IsServer(g) /\ g.online = x.online \ {p} /\ g.leader = x.leader
             /\ g.down = x.down /\ g.nextId = x.nextId
             /\ g.ent # None => x.ent # None /\ g.ent.owner = x.ent.owner
                                 /\ g.ent.id = x.ent.id
             /\ g.ent # None /\ IsEntity(x.ent) => IsEntity(g.ent)
  <1> DEFINE e == Without(x.ent, p)
             o == x.online \ {p}
             a == x.chars \ {p}
             g == Gone(x, p)
  <1>1. g = [x EXCEPT !.online = o, !.chars = a, !.ent = e]
    BY DEF Gone
  <1>2. /\ e # None => x.ent # None /\ e.owner = x.ent.owner /\ e.id = x.ent.id
        /\ e # None /\ IsEntity(x.ent) => IsEntity(e)
    BY DEF Without, IsEntity
  <1> HIDE DEF e, o, a, g
  <1>3. /\ IsServer(g) /\ g.online = o /\ g.leader = x.leader /\ g.down = x.down
        /\ g.nextId = x.nextId /\ g.ent = e
    BY <1>1 DEF IsServer
  <1> QED  BY <1>2, <1>3 DEF g, o

\* OnDisconnection: the others are as they were.
LEMMA DisconnectedSound ==
  ASSUME NEW s, ServerSound(s), NEW p \in s.online, NEW t \in Disconnected(s, p)
  PROVE  /\ ServerSound(t) /\ t.online = s.online \ {p}
  <1>1. PICK h \in PartyLeft(s, p) : \E x \in Freed(h, p) : t = Gone(x, p)
    BY DEF Disconnected
  <1>2. PICK x \in Freed(h, p) : t = Gone(x, p)
    BY <1>1
  <1>3. ServerSound(h) /\ h.online = s.online
    BY PartyLeftSound
  <1>4. ServerSound(x) /\ x.online = s.online /\ (x.ent # None => x.ent.owner # p)
    BY <1>3, FreedSound
  <1>5. IsServer(x) /\ (x.ent # None => IsEntity(x.ent))
    BY <1>4 DEF ServerSound
  <1>6. /\ IsServer(t) /\ t.online = x.online \ {p} /\ t.down = x.down
        /\ t.nextId = x.nextId
        /\ t.ent # None => /\ x.ent # None /\ t.ent.owner = x.ent.owner
                           /\ IsEntity(t.ent)
    BY <1>2, <1>5, GoneFields
  <1> QED  BY <1>4, <1>6 DEF ServerSound

\* What is on its way to one player is exchanged.
LEMMA ReroutedFields ==
  ASSUME NEW s, IsServer(s), s.down \in [Players -> Seq(Answers)],
         NEW p \in Players, NEW d \in Seq(Answers),
         NEW t, t = [s EXCEPT !.down[p] = d]
  PROVE  /\ IsServer(t) /\ t.online = s.online /\ t.ent = s.ent
         /\ t.nextId = s.nextId /\ t.leader = s.leader /\ t.chars = s.chars
         /\ t.down \in [Players -> Seq(Answers)] /\ t.down[p] = d
         /\ \A q \in Players \ {p} : t.down[q] = s.down[q]
  <1> DEFINE c == [s.down EXCEPT ![p] = d]
  <1>1. /\ c \in [Players -> Seq(Answers)] /\ c[p] = d
        /\ \A q \in Players \ {p} : c[q] = s.down[q]
    OBVIOUS
  <1>2. t = [s EXCEPT !.down = c]
    OBVIOUS
  <1> HIDE DEF c
  <1>3. /\ IsServer(t) /\ t.online = s.online /\ t.ent = s.ent /\ t.down = c
        /\ t.nextId = s.nextId /\ t.leader = s.leader /\ t.chars = s.chars
    BY <1>2 DEF IsServer
  <1> QED  BY <1>1, <1>3

-----------------------------------------------------------------------------
(***************************************************************************)
(* The clients' half.                                                       *)
(***************************************************************************)
Actors ==
  [form: BOOLEAN, wait: Nat \cup {None},
   local: Nat \cup {None}, remote: Nat \cup {None}]
IsClient(k) ==
  k = [online |-> k.online, here |-> k.here, leads |-> k.leads,
       cookie |-> k.cookie, ents |-> k.ents, up |-> k.up]
ClientTyped(k) ==
  /\ IsClient(k)
  /\ k.online \in BOOLEAN /\ k.here \in Cells /\ k.cookie \in Nat
  /\ k.ents \subseteq Actors /\ k.up \in Seq(Requests)

\* A game without a connection leads no party and simulates nothing that the
\* server manages.
Severed(k) == ~k.leads /\ \A e \in k.ents : e.local = None

\* What a step of a game in contact with the server may do to it.
Kept(k, n) == ClientTyped(n) /\ n.online = k.online

\* Every packet a client sends is one the server knows.
LEMMA RequestTypes ==
  /\ [type |-> "Hello"] \in Requests
  /\ \A cell \in Cells : [type |-> "Enter", cell |-> cell] \in Requests
  /\ \A cookie \in Nat : [type |-> "Assign", cookie |-> cookie] \in Requests
  /\ \A id \in Nat :
       /\ [type |-> "RequestTransfer", id |-> id] \in Requests
       /\ [type |-> "Claim", id |-> id] \in Requests
       /\ [type |-> "Mount", id |-> id] \in Requests
  BY DEF Requests

\* Posting a packet and exchanging an entity keep the client typed.
LEMMA PostTyped ==
  ASSUME NEW k, ClientTyped(k), NEW m \in Requests
  PROVE  Kept(k, Post(k, m)) /\ Post(k, m).ents = k.ents
  <1> DEFINE u == Append(k.up, m)
             n == [k EXCEPT !.up = u]
  <1>1. Post(k, m) = n /\ u \in Seq(Requests)
    BY DEF Post, ClientTyped
  <1> HIDE DEF u
  <1> QED  BY <1>1 DEF ClientTyped, IsClient, Kept

\* Replace: one actor of the registry for another.
LEMMA ReplaceTyped ==
  ASSUME NEW k, ClientTyped(k), NEW old, NEW new \in Actors
  PROVE  LET n == Replace(k, old, new)
         IN  /\ Kept(k, n)
             /\ n.up = k.up /\ n.cookie = k.cookie /\ n.leads = k.leads
             /\ n.ents \subseteq (k.ents \ {old}) \cup {new}
  <1> DEFINE s == (k.ents \ {old}) \cup ({new} \ {Bare})
             n == [k EXCEPT !.ents = s]
  <1>1. Replace(k, old, new) = n /\ s \subseteq (k.ents \ {old}) \cup {new}
          /\ s \subseteq Actors
    BY DEF Replace, ClientTyped
  <1> HIDE DEF s
  <1> QED  BY <1>1 DEF ClientTyped, IsClient, Kept

\* The changes of a client entity.
LEMMA ActorChanges ==
  /\ Bare \in Actors
  /\ [Bare EXCEPT !.form = TRUE] \in Actors
  /\ \A e \in Actors :
       /\ [e EXCEPT !.form = TRUE] \in Actors
       /\ [e EXCEPT !.remote = None] \in Actors
       /\ [e EXCEPT !.remote = None, !.form = FALSE] \in Actors
       /\ [e EXCEPT !.local = e.remote, !.remote = None] \in Actors
       /\ \A id \in Nat :
            /\ [e EXCEPT !.wait = id] \in Actors
            /\ [e EXCEPT !.remote = id] \in Actors
            /\ [e EXCEPT !.wait = None, !.local = id] \in Actors
            /\ [e EXCEPT !.wait = None, !.remote = id] \in Actors
            /\ [e EXCEPT !.local = None, !.remote = id] \in Actors
  BY DEF Bare, Actors

\* TakeOwnership.
LEMMA TakeOwnershipTyped ==
  ASSUME NEW k, ClientTyped(k), NEW e \in Actors, e.remote # None
  PROVE  Kept(k, TakeOwnership(k, e))
  <1> DEFINE f == [e EXCEPT !.local = e.remote, !.remote = None]
             n == Replace(k, e, f)
             m == [type |-> "Claim", id |-> e.remote]
  <1>1. f \in Actors /\ e.remote \in Nat
    BY ActorChanges, ZenonT(60) DEF Actors
  <1>2. m \in Requests
    BY <1>1, RequestTypes
  <1>3. TakeOwnership(k, e) = Post(n, m)
    BY DEF TakeOwnership
  <1> HIDE DEF f, m
  <1>4. Kept(k, n)
    BY <1>1, ReplaceTyped
  <1> HIDE DEF n
  <1> QED  BY <1>2, <1>3, <1>4, PostTyped DEF Kept

\* ProcessNewEntity: a game without a connection does nothing.
LEMMA ProcessNewEntityTyped ==
  ASSUME NEW k, ClientTyped(k), NEW e \in Actors
  PROVE  /\ Kept(k, ProcessNewEntity(k, e))
         /\ ~k.online => ProcessNewEntity(k, e) = k
  <1>1. CASE ~k.online \/ (e.remote # None /\ ~(k.leads /\ ~mount))
              \/ (e.remote = None /\ (e.local # None \/ e.wait # None))
    BY <1>1 DEF ProcessNewEntity, Kept
  <1>2. CASE k.online /\ e.remote # None /\ k.leads /\ ~mount
    BY <1>2, TakeOwnershipTyped DEF ProcessNewEntity
  <1>3. CASE k.online /\ e.remote = None /\ e.local = None /\ e.wait = None
    <2> DEFINE f == [e EXCEPT !.wait = k.cookie]
               n == Replace(k, e, f)
               r == k.cookie + 1
               o == [n EXCEPT !.cookie = r]
               m == [type |-> "Assign", cookie |-> k.cookie]
    <2>1. f \in Actors /\ k.cookie \in Nat
      BY ActorChanges DEF ClientTyped
    <2>2. m \in Requests /\ r \in Nat
      BY <2>1, RequestTypes
    <2> HIDE DEF f
    <2>3. Kept(k, n) /\ n.cookie = k.cookie
      BY <2>1, ReplaceTyped
    <2>4. ProcessNewEntity(k, e) = Post([n EXCEPT !.cookie = n.cookie + 1], m)
      BY <1>3 DEF ProcessNewEntity, f
    <2> HIDE DEF n
    <2>5. ProcessNewEntity(k, e) = Post(o, m)
      BY <2>3, <2>4
    <2> HIDE DEF m, r
    <2>6. Kept(k, o)
      BY <2>2, <2>3 DEF Kept, ClientTyped, IsClient
    <2> HIDE DEF o
    <2> QED  BY <1>3, <2>2, <2>5, <2>6, PostTyped DEF Kept
  <1> QED  BY <1>1, <1>2, <1>3 DEF ClientTyped

\* OnActorAdded.
LEMMA ActorAddedTyped ==
  ASSUME NEW k, ClientTyped(k), NEW n \in ActorAddedTo(k)
  PROVE  Kept(k, n) /\ (~k.online /\ Severed(k) => Severed(n))
  <1> DEFINE formed(e) == [e EXCEPT !.form = TRUE]
  <1>1. PICK e \in k.ents \cup {Bare} :
          n = ProcessNewEntity(Replace(k, e, formed(e)), formed(e))
    BY DEF ActorAddedTo
  <1> DEFINE f == formed(e)
             j == Replace(k, e, f)
  <1>2. e \in Actors
    BY ActorChanges DEF ClientTyped
  <1>3. f \in Actors /\ f.local = e.local
    BY <1>2, ActorChanges DEF Actors
  <1>4. Bare.local = None
    BY DEF Bare
  <1> HIDE DEF f
  <1>5. Kept(k, j) /\ j.leads = k.leads /\ j.ents \subseteq (k.ents \ {e}) \cup {f}
    BY <1>3, ReplaceTyped
  <1>6. n = ProcessNewEntity(j, f)
    BY <1>1 DEF f
  <1> HIDE DEF j
  <1> QED  BY <1>3, <1>4, <1>5, <1>6, ProcessNewEntityTyped DEF Kept, Severed

\* OnActorRemoved: a game without a connection has nothing to hand on.
LEMMA ActorRemovedTyped ==
  ASSUME NEW k, ClientTyped(k), NEW e \in k.ents
  PROVE  LET n == ActorRemovedFrom(k, e)
         IN  Kept(k, n) /\ (~k.online /\ Severed(k) => Severed(n))
  <1> DEFINE n == ActorRemovedFrom(k, e)
             f == [e EXCEPT !.remote = None, !.form = FALSE]
             off == Replace(k, e, Bare)
             m == [type |-> "RequestTransfer", id |-> e.local]
  <1>1. e \in Actors /\ Bare.local = None
    BY DEF ClientTyped, Bare
  <1>2. f \in Actors /\ f.local = e.local
    BY <1>1 DEF Actors
  <1>3. Kept(k, off) /\ off.leads = k.leads /\ off.ents \subseteq (k.ents \ {e}) \cup {Bare}
    BY ReplaceTyped, ActorChanges, ZenonT(60)
  <1>4. CASE e.remote # None
    <2>1. n = Replace(k, e, f)
      BY <1>4 DEF ActorRemovedFrom
    <2> HIDE DEF f, n
    <2> QED  BY <1>2, <2>1, ReplaceTyped DEF Severed, n
  <1>5. CASE e.remote = None /\ e.local = None
    <2>1. n = off
      BY <1>5 DEF ActorRemovedFrom
    <2> HIDE DEF n, off
    <2> QED  BY <1>1, <1>3, <2>1 DEF Severed, n
  <1>6. CASE e.remote = None /\ e.local # None
    <2>1. n = Post(off, m)
      BY <1>6 DEF ActorRemovedFrom
    <2>2. m \in Requests
      BY <1>1, <1>6, RequestTypes DEF Actors
    <2> HIDE DEF n, off, m
    <2> QED  BY <1>3, <1>6, <2>1, <2>2, PostTyped DEF Kept, Severed, n
  <1> QED  BY <1>4, <1>5, <1>6

\* Every packet of the server leaves a connected client typed.
LEMMA ReceivedTyped ==
  ASSUME NEW k, ClientTyped(k), NEW m \in Answers, NEW n \in Received(k, m)
  PROVE  Kept(k, n)
  <1>0. k.ents \subseteq Actors
    BY DEF ClientTyped
  <1>1. CASE m.type = "Assigned"
    <2>1. m.id \in Nat /\ n \in OnAssigned(k, m)
      BY <1>1 DEF Answers, Received
    <2>2. \/ n = k
          \/ \E e \in k.ents :
               \/ n = Replace(k, e, [e EXCEPT !.wait = None, !.local = m.id])
               \/ n = Replace(k, e, [e EXCEPT !.wait = None, !.remote = m.id])
      BY <2>1 DEF OnAssigned
    <2>3. n = k \/ \E e, f \in Actors : n = Replace(k, e, f)
      BY <1>0, <2>1, <2>2, ActorChanges
    <2> QED  BY <2>3, ReplaceTyped DEF Kept
  <1>2. CASE m.type = "Spawn"
    <2>1. m.id \in Nat /\ n \in OnSpawn(k, m.id)
      BY <1>2 DEF Answers, Received
    <2>2. n = k \/ \E e \in k.ents \cup {Bare} : n = Replace(k, e, [e EXCEPT !.remote = m.id])
      BY <2>1, SMTT(60) DEF OnSpawn
    <2>3. n = k \/ \E e, f \in Actors : n = Replace(k, e, f)
      BY <1>0, <2>1, <2>2, ActorChanges
    <2> QED  BY <2>3, ReplaceTyped DEF Kept
  <1>3. CASE m.type = "Transfer"
    <2> DEFINE r == [type |-> "RequestTransfer", id |-> m.id]
    <2>1. m.id \in Nat /\ n \in OnTransfer(k, m.id)
      BY <1>3 DEF Answers, Received
    <2>2. r \in Requests
      BY <2>1, RequestTypes
    <2>3. CASE {e \in k.ents : e.form /\ e.remote = m.id} = {}
      <3>1. n = Post(k, r)
        BY <2>1, <2>3 DEF OnTransfer
      <3> HIDE DEF r
      <3> QED  BY <2>2, <3>1, PostTyped
    <2>4. CASE {e \in k.ents : e.form /\ e.remote = m.id} # {}
      <3>1. PICK e \in k.ents : e.remote = m.id /\ n = TakeOwnership(k, e)
        BY <2>1, <2>4 DEF OnTransfer
      <3>2. CASE e.remote # None
        BY <1>0, <3>1, <3>2, TakeOwnershipTyped
      <3>3. CASE e.remote = None
        <4> DEFINE f == [e EXCEPT !.local = e.remote, !.remote = None]
                   q == [type |-> "Claim", id |-> e.remote]
        <4>1. f \in Actors /\ q \in Requests
          BY <1>0, <2>1, <3>1, ActorChanges, RequestTypes
        <4>2. n = Post(Replace(k, e, f), q)
          BY <3>1 DEF TakeOwnership
        <4> HIDE DEF f, q
        <4> QED  BY <4>1, <4>2, ReplaceTyped, PostTyped DEF Kept
      <3> QED  BY <3>2, <3>3
    <2> QED  BY <2>3, <2>4
  <1>4. CASE m.type = "Remove"
    <2>1. n \in OnRemove(k, m.id)
      BY <1>4 DEF Received
    <2>2. n = k \/ \E e \in k.ents \cup {Bare} : n = Replace(k, e, [e EXCEPT !.remote = None])
      BY <2>1, SMTT(60) DEF OnRemove
    <2>3. n = k \/ \E e, f \in Actors : n = Replace(k, e, f)
      BY <1>0, <2>1, <2>2, ActorChanges
    <2> QED  BY <2>3, ReplaceTyped DEF Kept
  <1>5. CASE m.type \in {"Relinquish", "Mounted"}
    <2>1. m.id \in Nat /\ n \in OnRelinquish(k, m.id) \cup {k}
      BY <1>5 DEF Answers, Received
    <2>2. n = k \/ \E e \in k.ents \cup {Bare} : n = Replace(k, e, [e EXCEPT !.local = None, !.remote = m.id])
      BY <2>1, ZenonT(60) DEF OnRelinquish
    <2>3. n = k \/ \E e, f \in Actors : n = Replace(k, e, f)
      BY <1>0, <2>1, <2>2, ActorChanges
    <2> QED  BY <2>3, ReplaceTyped DEF Kept
  <1> DEFINE yes == TRUE
             leads == [k EXCEPT !.leads = yes]
  <1>6. Kept(k, leads) /\ leads.ents = k.ents
    <2> HIDE DEF yes
    <2>1. /\ IsClient(leads) /\ leads.online = k.online /\ leads.here = k.here
          /\ leads.cookie = k.cookie /\ leads.ents = k.ents /\ leads.up = k.up
      BY DEF ClientTyped, IsClient
    <2> HIDE DEF leads
    <2> QED  BY <2>1 DEF Kept, ClientTyped
  <1>7. CASE m.type = "PartyJoined"
    <2>1. n \in OnPartyJoined(k)
      BY <1>7 DEF Received
    <2>2. n = leads \/ \E e \in k.ents : n = ProcessNewEntity(leads, e)
      BY <2>1 DEF OnPartyJoined
    <2> HIDE DEF leads
    <2> QED  BY <1>0, <1>6, <2>2, ProcessNewEntityTyped DEF Kept
  <1>8. CASE m.type = "PartyInfo"
    BY <1>6, <1>8 DEF Received
  <1> QED  BY <1>1, <1>2, <1>3, <1>4, <1>5, <1>7, <1>8 DEF Answers

-----------------------------------------------------------------------------
(***************************************************************************)
(* Both ends together.                                                      *)
(***************************************************************************)
\* The registry is sound and a severed game holds nothing.
Consistent ==
  /\ ServerSound(srv)
  /\ cl = [p \in Players |-> cl[p]]
  /\ \A p \in Players :
       ClientTyped(cl[p]) /\ (~cl[p].online => Severed(cl[p]))

\* OnDisconnected: the connection's game is severed.
LEMMA ForgottenFields ==
  ASSUME NEW k, ClientTyped(k), NEW u \in Seq(Requests)
  PROVE  LET n == Forgotten(k, u)
         IN  ClientTyped(n) /\ Severed(n) /\ n.online = FALSE /\ n.up = u
  <1> DEFINE f == {[Bare EXCEPT !.form = TRUE] : e \in {x \in k.ents : x.form}}
             no == FALSE
             n == Forgotten(k, u)
  <1>1. f \subseteq Actors /\ no \in BOOLEAN /\ \A e \in f : e.local = None
    BY ActorChanges DEF Bare
  <1>2. n = [k EXCEPT !.online = no, !.leads = no, !.up = u, !.ents = f]
    BY DEF Forgotten
  <1> HIDE DEF f, no, n
  <1>3. /\ IsClient(n) /\ n.online = no /\ n.here = k.here /\ n.leads = no
        /\ n.cookie = k.cookie /\ n.ents = f /\ n.up = u
    BY <1>2 DEF ClientTyped, IsClient
  <1>4. ClientTyped(n)
    BY <1>1, <1>3 DEF ClientTyped
  <1>5. Severed(n) /\ n.online = FALSE
    BY <1>1, <1>3 DEF Severed, no
  <1> QED  BY <1>3, <1>4, <1>5 DEF n

\* A step that changes one game, and the server as it likes.
LEMMA ClientStep ==
  ASSUME Consistent, NEW p \in Players, NEW k, ServerSound(srv'),
         cl' = [cl EXCEPT ![p] = k], ClientTyped(k),
         ~k.online => Severed(k)
  PROVE  Consistent'
  BY DEF Consistent

\* Init.
LEMMA ConsistentInit == Init => Consistent
  <1> SUFFICES ASSUME Init PROVE Consistent
    OBVIOUS
  <1>1. srv.nextId \in Nat /\ srv.online = {} /\ srv.ent = None
          /\ srv.down = [p \in Players |-> <<>>] /\ IsServer(srv)
    BY DEF Init, IsServer
  <1>2. ServerSound(srv)
    BY <1>1 DEF ServerSound
  <1>3. cl = [p \in Players |-> cl[p]]
    BY DEF Init
  <1>4. ASSUME NEW p \in Players
        PROVE  IsClient(cl[p]) /\ cl[p].online = FALSE /\ cl[p].here = "away"
                 /\ cl[p].cookie = 0 /\ cl[p].ents = {} /\ cl[p].up = <<>>
                 /\ cl[p].leads = FALSE
    <2>1. cl[p] \in [online: {FALSE}, here: {"away"}, leads: {FALSE},
                     cookie: {0}, ents: {{}}, up: {<<>>}]
      BY DEF Init
    <2> QED  BY <2>1 DEF IsClient
  <1>5. ASSUME NEW p \in Players
        PROVE  ClientTyped(cl[p]) /\ Severed(cl[p])
    <2> DEFINE k == cl[p]
    <2>1. IsClient(k) /\ k.online = FALSE /\ k.here = "away"
            /\ k.cookie = 0 /\ k.ents = {} /\ k.up = <<>> /\ k.leads = FALSE
      BY <1>4
    <2> HIDE DEF k
    <2>2. <<>> \in Seq(Requests) /\ "away" \in Cells /\ 0 \in Nat
      BY DEF Cells
    <2>3. ClientTyped(k) /\ Severed(k)
      BY <2>1, <2>2, Zenon DEF ClientTyped, Severed
    <2> QED  BY <2>3 DEF k
  <1> QED  BY <1>1, <1>2, <1>3, <1>4, <1>5 DEF Consistent

\* Every step of a player, of its connection or of the server keeps the two
\* ends in agreement.
LEMMA ConsistentNext == Consistent /\ [Next]_vars => Consistent'
  <1> SUFFICES ASSUME Consistent, [Next]_vars PROVE Consistent'
    OBVIOUS
  <1>u. CASE UNCHANGED vars
    BY <1>u DEF vars, Consistent
  <1>n. CASE Next
    <2>0. PICK p \in Players :
            \/ \E cell \in Cells : Walk(p, cell)
            \/ ActorAdded(p) \/ ActorRemoved(p) \/ Ride(p) \/ CreateParty(p)
            \/ Connect(p) \/ OnDisconnection(p) \/ OnDisconnected(p)
            \/ Serve(p) \/ Receive(p)
      BY <1>n DEF Next
    <2> DEFINE k == cl[p]
    <2>t. /\ ClientTyped(k) /\ ServerSound(srv)
          /\ ~k.online => Severed(k)
      BY DEF Consistent
    <2> HIDE DEF k
    <2>1. ASSUME NEW cell \in Cells, Walk(p, cell) PROVE Consistent'
      <3> DEFINE here == [k EXCEPT !.here = cell]
                 m == [type |-> "Enter", cell |-> cell]
                 n == IF here.online THEN Post(here, m) ELSE here
      <3>1. cl' = [cl EXCEPT ![p] = n] /\ srv' = srv
        BY <2>1 DEF Walk, k
      <3>2. Kept(k, here) /\ here.ents = k.ents /\ here.leads = k.leads
        BY <2>t DEF Kept, ClientTyped, IsClient
      <3>3. m \in Requests
        BY RequestTypes
      <3> HIDE DEF here, m
      <3>4. Kept(k, n) /\ (~k.online /\ Severed(k) => Severed(n))
        BY <3>2, <3>3, PostTyped DEF Kept, Severed
      <3> HIDE DEF n
      <3> QED  BY <2>t, <3>1, <3>4, ClientStep DEF Kept
    <2>2. ASSUME ActorAdded(p) PROVE Consistent'
      <3>1. PICK n \in ActorAddedTo(k) : cl' = [cl EXCEPT ![p] = n] /\ srv' = srv
        BY <2>2 DEF ActorAdded, k
      <3> QED  BY <2>t, <3>1, ActorAddedTyped, ClientStep DEF Kept
    <2>3. ASSUME ActorRemoved(p) PROVE Consistent'
      <3>1. PICK e \in k.ents :
              cl' = [cl EXCEPT ![p] = ActorRemovedFrom(k, e)] /\ srv' = srv
        BY <2>3 DEF ActorRemoved, Loaded, k
      <3> QED  BY <2>t, <3>1, ActorRemovedTyped, ClientStep DEF Kept
    <2>4. ASSUME Ride(p) PROVE Consistent'
      <3>1. PICK e \in k.ents :
              /\ ServerId(e) # None /\ k.online /\ srv' = srv
              /\ cl' = [cl EXCEPT ![p] =
                   Post(IF e.remote # None THEN TakeOwnership(k, e) ELSE k,
                        [type |-> "Mount", id |-> ServerId(e)])]
        BY <2>4 DEF Ride, Loaded, k
      <3> DEFINE taken == IF e.remote # None THEN TakeOwnership(k, e) ELSE k
                 m == [type |-> "Mount", id |-> ServerId(e)]
                 n == Post(taken, m)
      <3>2. e \in Actors
        BY <2>t DEF ClientTyped
      <3>3. Kept(k, taken)
        BY <2>t, <3>2, TakeOwnershipTyped DEF Kept
      <3>4. m \in Requests
        BY <3>1, <3>2, RequestTypes DEF Actors, ServerId
      <3>5. cl' = [cl EXCEPT ![p] = n]
        BY <3>1
      <3> HIDE DEF taken, m
      <3>6. Kept(k, n)
        BY <3>3, <3>4, PostTyped DEF Kept
      <3> HIDE DEF n
      <3> QED  BY <2>t, <3>1, <3>5, <3>6, ClientStep DEF Kept
    <2>5. ASSUME CreateParty(p) PROVE Consistent'
      <3> DEFINE l == [srv EXCEPT !.leader = p]
                 m == [type |-> "PartyJoined"]
      <3>1. p \in srv.online /\ srv' = Send(l, {p}, m) /\ cl' = cl
        BY <2>5 DEF CreateParty
      <3>2. ServerSound(l) /\ l.online = srv.online
        BY <2>t DEF ServerSound, IsServer
      <3>3. m \in Answers
        BY AnswerTypes
      <3> HIDE DEF l, m
      <3>4. ServerSound(srv') /\ srv'.online = srv.online
        BY <3>1, <3>2, <3>3, SendSound
      <3> QED  BY <3>1, <3>4 DEF Consistent
    <2>6. ASSUME Connect(p) PROVE Consistent'
      <3> DEFINE m1 == [type |-> "Enter", cell |-> k.here]
                 m2 == [type |-> "Hello"]
                 yes == TRUE
                 u == <<>>
                 on == [k EXCEPT !.online = yes, !.up = u]
                 j == Post(Post(on, m1), m2)
                 o == srv.online \cup {p}
                 d == [srv.down EXCEPT ![p] = <<>>]
                 known == [srv EXCEPT !.online = o, !.down = d]
      <3>1. PICK n : /\ cl' = [cl EXCEPT ![p] = n]
                     /\ n = j \/ \E e \in Loaded(p) : n = ProcessNewEntity(j, e)
        <4>1. cl' = [cl EXCEPT ![p] =
                IF Loaded(p) = {} THEN j
                ELSE ProcessNewEntity(j, CHOOSE e \in Loaded(p) : TRUE)]
          BY <2>6 DEF Connect, k
        <4>2. Loaded(p) # {} => (CHOOSE e \in Loaded(p) : TRUE) \in Loaded(p)
          OBVIOUS
        <4> HIDE DEF j
        <4> QED  BY <4>1, <4>2
      <3>2. \/ srv' = known
            \/ /\ srv.ent # None
               /\ srv' = [known EXCEPT !.ent.invalid =
                            (known.ent.invalid \ {Ghost}) \cup {p}]
        BY <2>6 DEF Connect
      <3>3. ClientTyped(on) /\ on.online = TRUE
        <4>1. yes \in BOOLEAN /\ u \in Seq(Requests)
          OBVIOUS
        <4> HIDE DEF yes, u
        <4> DEFINE on1 == [k EXCEPT !.online = yes]
        <4>2. /\ IsClient(on) /\ on.online = yes /\ on.here = k.here
              /\ on.cookie = k.cookie /\ on.ents = k.ents /\ on.up = u
          <5>1. /\ IsClient(on1) /\ on1.online = yes /\ on1.here = k.here
                /\ on1.cookie = k.cookie /\ on1.ents = k.ents
            BY <2>t DEF ClientTyped, IsClient
          <5>2. on = [on1 EXCEPT !.up = u]
            OBVIOUS
          <5> HIDE DEF on1, on
          <5> QED  BY <5>1, <5>2 DEF IsClient
        <4> HIDE DEF on
        <4>3. ClientTyped(on)
          BY <2>t, <4>1, <4>2 DEF ClientTyped
        <4> QED  BY <4>2, <4>3 DEF yes
      <3>4. m1 \in Requests /\ m2 \in Requests
        BY <2>t, RequestTypes DEF ClientTyped
      <3> HIDE DEF m1, m2, on
      <3>5. ClientTyped(Post(on, m1)) /\ Post(on, m1).online = TRUE
        BY <3>3, <3>4, PostTyped DEF Kept
      <3>6. ClientTyped(j) /\ j.online = TRUE
        BY <3>4, <3>5, PostTyped DEF Kept
      <3>7. Loaded(p) \subseteq Actors
        BY <2>t DEF Loaded, ClientTyped, k
      <3> HIDE DEF j
      <3>8. ClientTyped(n) /\ n.online = TRUE
        BY <3>1, <3>6, <3>7, ProcessNewEntityTyped DEF Kept
      <3>9. /\ IsServer(known) /\ known.online = o /\ known.ent = srv.ent
            /\ known.down = d /\ known.nextId = srv.nextId
        <4> HIDE DEF o, d
        <4> DEFINE known1 == [srv EXCEPT !.online = o]
        <4>1. /\ IsServer(known1) /\ known1.online = o /\ known1.ent = srv.ent
              /\ known1.nextId = srv.nextId
          BY <2>t DEF ServerSound, IsServer
        <4>2. known = [known1 EXCEPT !.down = d]
          OBVIOUS
        <4> HIDE DEF known1, known
        <4> QED  BY <4>1, <4>2 DEF IsServer
      <3>0. d \in [Players -> Seq(Answers)]
        BY <2>t DEF ServerSound
      <3> HIDE DEF known, d
      <3>10. ServerSound(known)
        BY <2>t, <3>0, <3>9 DEF ServerSound
      <3>11. ServerSound(srv') /\ srv'.online = o
        <4>1. CASE srv' = known
          BY <3>9, <3>10, <4>1
        <4>2. CASE srv' # known
          <5> DEFINE i == (known.ent.invalid \ {Ghost}) \cup {p}
                     e == [known.ent EXCEPT !.invalid = i]
          <5>1. srv' = [known EXCEPT !.ent = e] /\ known.ent # None
            BY <3>2, <3>9, <4>2
          <5>2. IsEntity(e) /\ e.owner = known.ent.owner
            <6> HIDE DEF i
            <6> QED  BY <3>10, <5>1 DEF ServerSound, IsEntity
          <5> HIDE DEF e
          <5>3. /\ IsServer(srv') /\ srv'.online = known.online /\ srv'.ent = e
                /\ srv'.down = known.down /\ srv'.nextId = known.nextId
            BY <3>9, <5>1, EntityFields
          <5> QED  BY <3>9, <3>10, <5>1, <5>2, <5>3 DEF ServerSound
        <4> QED  BY <4>1, <4>2
      <3> QED  BY <2>t, <3>1, <3>8, <3>11, ClientStep
    <2>7. ASSUME OnDisconnection(p) PROVE Consistent'
      <3> DEFINE u == <<>>
                 n == [k EXCEPT !.up = u]
                 d == IF k.online THEN srv.down[p] ELSE <<>>
      <3>1. /\ p \in srv.online /\ cl' = [cl EXCEPT ![p] = n]
            /\ \E s \in Disconnected(srv, p) : srv' = [s EXCEPT !.down[p] = d]
        BY <2>7 DEF OnDisconnection, k
      <3>2. PICK s \in Disconnected(srv, p) : srv' = [s EXCEPT !.down[p] = d]
        BY <3>1
      <3>3. ServerSound(s)
        BY <2>t, <3>1, DisconnectedSound
      <3>4. d \in Seq(Answers)
        BY <2>t DEF ServerSound
      <3> HIDE DEF d
      <3>5. IsServer(s) /\ s.down \in [Players -> Seq(Answers)]
        BY <3>3 DEF ServerSound
      <3>6. ServerSound(srv')
        <4>1. PICK r : r = [s EXCEPT !.down[p] = d]
          OBVIOUS
        <4>2. /\ IsServer(r) /\ r.online = s.online /\ r.ent = s.ent
              /\ r.nextId = s.nextId /\ r.down \in [Players -> Seq(Answers)]
          BY <3>4, <3>5, <4>1, ReroutedFields
        <4>3. srv' = r
          BY <3>2, <4>1
        <4> QED  BY <3>3, <4>2, <4>3 DEF ServerSound
      <3>7. u \in Seq(Requests)
        OBVIOUS
      <3> HIDE DEF u
      <3>8. Kept(k, n) /\ n.ents = k.ents /\ n.leads = k.leads
        BY <2>t, <3>7 DEF Kept, ClientTyped, IsClient
      <3> HIDE DEF n
      <3>9. ClientTyped(n) /\ (~n.online => Severed(n))
        BY <2>t, <3>8 DEF Kept, Severed
      <3> QED  BY <3>1, <3>6, <3>9, ClientStep
    <2>10. ASSUME OnDisconnected(p) PROVE Consistent'
      <3>1. PICK j \in 0..Len(k.up) :
              cl' = [cl EXCEPT ![p] = Forgotten(k, SubSeq(k.up, 1, j))]
        BY <2>10 DEF OnDisconnected, k
      <3> DEFINE u == SubSeq(k.up, 1, j)
                 n == Forgotten(k, u)
                 d == <<>>
      <3>2. srv' = [srv EXCEPT !.down[p] = d]
        BY <2>10 DEF OnDisconnected
      <3>3. d \in Seq(Answers) /\ IsServer(srv) /\ srv.down \in [Players -> Seq(Answers)]
        BY <2>t DEF ServerSound
      <3> HIDE DEF d
      <3>4. ServerSound(srv')
        <4>1. PICK r : r = [srv EXCEPT !.down[p] = d]
          OBVIOUS
        <4>2. /\ IsServer(r) /\ r.online = srv.online /\ r.ent = srv.ent
              /\ r.nextId = srv.nextId /\ r.down \in [Players -> Seq(Answers)]
          BY <3>3, <4>1, ReroutedFields
        <4>3. srv' = r
          BY <3>2, <4>1
        <4> QED  BY <2>t, <4>2, <4>3 DEF ServerSound
      <3>5. u \in Seq(Requests)
        <4>1. k.up \in Seq(Requests)
          BY <2>t DEF ClientTyped
        <4> QED  BY <4>1
      <3>6. cl' = [cl EXCEPT ![p] = n]
        BY <3>1
      <3> HIDE DEF u, n
      <3>7. ClientTyped(n) /\ Severed(n)
        BY <2>t, <3>5, ForgottenFields DEF n
      <3> QED  BY <3>4, <3>6, <3>7, ClientStep
    <2>8. ASSUME Serve(p) PROVE Consistent'
      <3> DEFINE u == Tail(k.up)
                 n == [k EXCEPT !.up = u]
      <3>1. /\ k.up # <<>> /\ srv' \in Handled(srv, p, Head(k.up))
            /\ cl' = [cl EXCEPT ![p] = n]
        BY <2>8 DEF Serve, k
      <3>2. p \in srv.online /\ Head(k.up) \in Requests /\ u \in Seq(Requests)
        BY <2>t, <2>8, <3>1 DEF Serve, ClientTyped
      <3>3. ServerSound(srv') /\ srv'.online = srv.online
        BY <2>t, <3>1, <3>2, HandledSound
      <3> HIDE DEF u
      <3>4. ClientTyped(n) /\ (~n.online => Severed(n))
        <4>1. /\ IsClient(n) /\ n.online = k.online /\ n.here = k.here
              /\ n.cookie = k.cookie /\ n.ents = k.ents /\ n.up = u
              /\ n.leads = k.leads
          BY <2>t DEF ClientTyped, IsClient
        <4> HIDE DEF n
        <4> QED  BY <2>t, <3>2, <4>1 DEF ClientTyped, Severed
      <3> HIDE DEF n
      <3> QED  BY <2>t, <3>1, <3>2, <3>3, <3>4, ClientStep
    <2>9. ASSUME Receive(p) PROVE Consistent'
      <3> DEFINE d == [srv.down EXCEPT ![p] = Tail(@)]
      <3>1. PICK n \in Received(k, Head(srv.down[p])) :
              /\ srv.down[p] # <<>> /\ k.online
              /\ cl' = [cl EXCEPT ![p] = n]
              /\ srv' = [srv EXCEPT !.down = d]
        BY <2>9 DEF Receive, k
      <3>2. /\ Head(srv.down[p]) \in Answers /\ d \in [Players -> Seq(Answers)]
        BY <2>t, <3>1 DEF ServerSound
      <3> HIDE DEF d
      <3>3. /\ IsServer(srv') /\ srv'.online = srv.online /\ srv'.ent = srv.ent
            /\ srv'.down = d /\ srv'.nextId = srv.nextId
        BY <2>t, <3>1 DEF ServerSound, IsServer
      <3>4. ServerSound(srv')
        BY <2>t, <3>2, <3>3 DEF ServerSound
      <3>5. Kept(k, n)
        BY <2>t, <3>1, <3>2, ReceivedTyped
      <3> QED  BY <2>t, <3>1, <3>2, <3>3, <3>4, <3>5, ClientStep DEF Kept
    <2> QED  BY <2>0, <2>1, <2>2, <2>3, <2>4, <2>5, <2>6, <2>7, <2>8, <2>9, <2>10
  <1> QED  BY <1>u, <1>n

\* The registry names nobody who is gone, and a game that noticed the loss of its
\* connection leads no party and simulates nothing the server manages.
THEOREM Consistency == Spec => []Consistent
  <1>1. Init => Consistent
    BY ConsistentInit
  <1>2. Consistent /\ [Next]_vars => Consistent'
    BY ConsistentNext
  <1> QED  BY <1>1, <1>2, PTL DEF Spec

\* The owner of the actor is connected, whoever walks, rides, claims, hands on,
\* leaves or comes back, in any order: OnDisconnection hands the actor on or
\* removes it, and every new owner is a player the server still lists.
THEOREM Owners == Spec => []OwnerIsConnected
  <1>1. Consistent => OwnerIsConnected
    BY DEF Consistent, ServerSound, OwnerIsConnected
  <1> QED  BY <1>1, Consistency, PTL

-----------------------------------------------------------------------------
(***************************************************************************)
(* Who may simulate an actor when ownership is only handed on.  Whoever     *)
(* simulates an entity, asks the server to hand it on, or is about to be    *)
(* told that it is the owner, holds it.  A player holds an entity once, no  *)
(* two players hold the same one, and who holds the server's entity is its  *)
(* owner.                                                                   *)
(***************************************************************************)
Asks(m, id) == m.type = "RequestTransfer" /\ m.id = id
Claims(m, id) == m.type = "Claim" /\ m.id = id
Grants(m, id) ==
  \/ m.type = "Transfer" /\ m.id = id
  \/ m.type = "Assigned" /\ m.owner = TRUE /\ m.id = id

Simulated(ents, id) == \E e \in ents : e.local = id
Asked(u, id) == \E i \in DOMAIN u : Asks(u[i], id)
Claiming(u, id) == \E i \in DOMAIN u : Claims(u[i], id)
Granted(d, id) == \E i \in DOMAIN d : Grants(d[i], id)

Held(k, d, id) == Simulated(k.ents, id) \/ Asked(k.up, id) \/ Granted(d, id)

\* A player that asks to hand an entity on has claimed it before, if at all.
InOrder(u, id) ==
  \A i, j \in DOMAIN u :
    Asks(u[i], id) /\ (Asks(u[j], id) \/ Claims(u[j], id)) => j <= i
OneGrant(d, id) ==
  \A i, j \in DOMAIN d : Grants(d[i], id) /\ Grants(d[j], id) => i = j
OneActor(ents, id) ==
  \A e, f \in ents : e.local = id /\ f.local = id => e = f
HeldOnce(k, d, id) ==
  /\ InOrder(k.up, id) /\ OneGrant(d, id) /\ OneActor(k.ents, id)
  /\ ~(Simulated(k.ents, id) /\ Asked(k.up, id))
  /\ ~(Simulated(k.ents, id) /\ Granted(d, id))
  /\ ~(Asked(k.up, id) /\ Granted(d, id))

\* A game that leads no party and is about to lead none.
Ordinary(d) == \A i \in DOMAIN d : d[i].type \notin {"PartyJoined", "PartyInfo"}
Follows(k, d) == ~k.leads /\ Ordinary(d)

\* The players the server lists, its entity e, the next number n, the games and
\* the packets.
Tokens(on, e, n, games, down) ==
  /\ e # None => e.id \in Nat /\ e.id < n
  /\ n \in Nat
  /\ \A p \in on : Follows(games[p], down[p])
  /\ \A p \in on, id \in Nat :
       /\ HeldOnce(games[p], down[p], id)
       /\ Held(games[p], down[p], id) \/ Claiming(games[p].up, id)
            => id < n /\ (e # None /\ e.id = id => e.owner = p)
       /\ \A q \in on \ {p} :
            ~(Held(games[p], down[p], id) /\ Held(games[q], down[q], id))

\* Nothing is held, claimed or led that was not before.
Keeps(k, d, n, c) ==
  /\ Follows(k, d) => Follows(n, c)
  /\ \A id \in Nat :
       /\ Held(n, c, id) => Held(k, d, id)
       /\ Claiming(n.up, id) => Claiming(k.up, id) \/ Held(k, d, id)
       /\ HeldOnce(k, d, id) => HeldOnce(n, c, id)

\* One more request.
LEMMA UpAppend ==
  ASSUME NEW u \in Seq(Requests), NEW m \in Requests, NEW id \in Nat
  PROVE  /\ Asked(Append(u, m), id) => Asked(u, id) \/ Asks(m, id)
         /\ Claiming(Append(u, m), id) => Claiming(u, id) \/ Claims(m, id)
         /\ InOrder(u, id) /\ (Asks(m, id) \/ Claims(m, id) => ~Asked(u, id))
              => InOrder(Append(u, m), id)
  <1> DEFINE v == Append(u, m)
  <1>1. /\ DOMAIN u = 1..Len(u) /\ DOMAIN v = 1..(Len(u) + 1) /\ Len(u) \in Nat
        /\ v[Len(u) + 1] = m /\ \A i \in 1..Len(u) : v[i] = u[i]
    OBVIOUS
  <1> HIDE DEF v
  <1>2. \A i \in DOMAIN v : i \in DOMAIN u \/ (i = Len(u) + 1 /\ v[i] = m)
    BY <1>1
  <1>3. Asked(v, id) => Asked(u, id) \/ Asks(m, id)
    BY <1>1, <1>2 DEF Asked
  <1>4. Claiming(v, id) => Claiming(u, id) \/ Claims(m, id)
    BY <1>1, <1>2 DEF Claiming
  <1>5. ASSUME InOrder(u, id), Asks(m, id) \/ Claims(m, id) => ~Asked(u, id),
               NEW i \in DOMAIN v, NEW j \in DOMAIN v,
               Asks(v[i], id), Asks(v[j], id) \/ Claims(v[j], id)
        PROVE  j <= i
    <2>1. CASE i \in DOMAIN u /\ j \in DOMAIN u
      BY <1>1, <1>5, <2>1 DEF InOrder
    <2>2. CASE i \in DOMAIN u /\ j \notin DOMAIN u
      BY <1>1, <1>2, <1>5, <2>2 DEF Asked
    <2>3. CASE i \notin DOMAIN u
      BY <1>1, <1>2, <2>3
    <2> QED  BY <2>1, <2>2, <2>3
  <1>6. InOrder(u, id) /\ (Asks(m, id) \/ Claims(m, id) => ~Asked(u, id))
          => InOrder(v, id)
    BY <1>5 DEF InOrder
  <1> QED  BY <1>3, <1>4, <1>6 DEF v

\* The oldest request is handled.
LEMMA UpTail ==
  ASSUME NEW u \in Seq(Requests), u # <<>>, NEW id \in Nat
  PROVE  /\ Asks(Head(u), id) => Asked(u, id)
         /\ Claims(Head(u), id) => Claiming(u, id)
         /\ Asked(Tail(u), id) => Asked(u, id)
         /\ Claiming(Tail(u), id) => Claiming(u, id)
         /\ InOrder(u, id) => InOrder(Tail(u), id)
         /\ InOrder(u, id) /\ Asks(Head(u), id)
              => ~Asked(Tail(u), id) /\ ~Claiming(Tail(u), id)
  <1> DEFINE v == Tail(u)
  <1>1. /\ DOMAIN u = 1..Len(u) /\ DOMAIN v = 1..(Len(u) - 1) /\ Len(u) \in Nat \ {0}
        /\ Head(u) = u[1] /\ \A i \in DOMAIN v : v[i] = u[i + 1]
    OBVIOUS
  <1> HIDE DEF v
  <1>2. \A i \in DOMAIN v : i \in Nat /\ i + 1 \in DOMAIN u /\ v[i] = u[i + 1] /\ i + 1 > 1
    BY <1>1
  <1>3. 1 \in DOMAIN u
    BY <1>1
  <1>4. /\ Asks(Head(u), id) => Asked(u, id)
        /\ Claims(Head(u), id) => Claiming(u, id)
    BY <1>1, <1>3 DEF Asked, Claiming
  <1>5. (Asked(v, id) => Asked(u, id)) /\ (Claiming(v, id) => Claiming(u, id))
    BY <1>2 DEF Asked, Claiming
  <1>6. ASSUME InOrder(u, id), NEW i \in DOMAIN v, NEW j \in DOMAIN v,
               Asks(v[i], id), Asks(v[j], id) \/ Claims(v[j], id)
        PROVE  j <= i
    <2>1. j + 1 <= i + 1
      BY <1>2, <1>6 DEF InOrder
    <2> QED  BY <1>2, <2>1
  <1>7. ASSUME InOrder(u, id), Asks(Head(u), id), NEW i \in DOMAIN v
        PROVE  ~Asks(v[i], id) /\ ~Claims(v[i], id)
    <2>1. ~(i + 1 <= 1) /\ i + 1 \in DOMAIN u /\ v[i] = u[i + 1]
      BY <1>2
    <2> QED  BY <1>1, <1>3, <1>7, <2>1 DEF InOrder
  <1>8. InOrder(u, id) => InOrder(v, id)
    BY <1>6 DEF InOrder
  <1>9. InOrder(u, id) /\ Asks(Head(u), id) => ~Asked(v, id) /\ ~Claiming(v, id)
    BY <1>7 DEF Asked, Claiming
  <1> QED  BY <1>4, <1>5, <1>8, <1>9 DEF v

\* One more answer.
LEMMA DownAppend ==
  ASSUME NEW d \in Seq(Answers), NEW m \in Answers, NEW id \in Nat
  PROVE  /\ Granted(Append(d, m), id) => Granted(d, id) \/ Grants(m, id)
         /\ OneGrant(d, id) /\ (Grants(m, id) => ~Granted(d, id))
              => OneGrant(Append(d, m), id)
         /\ Ordinary(d) /\ m.type \notin {"PartyJoined", "PartyInfo"}
              => Ordinary(Append(d, m))
  <1> DEFINE v == Append(d, m)
  <1>1. /\ DOMAIN d = 1..Len(d) /\ DOMAIN v = 1..(Len(d) + 1) /\ Len(d) \in Nat
        /\ v[Len(d) + 1] = m /\ \A i \in 1..Len(d) : v[i] = d[i]
    OBVIOUS
  <1> HIDE DEF v
  <1>2. \A i \in DOMAIN v : \/ i \in DOMAIN d /\ v[i] = d[i]
                            \/ i = Len(d) + 1 /\ v[i] = m
    BY <1>1
  <1>3. Granted(v, id) => Granted(d, id) \/ Grants(m, id)
    BY <1>2 DEF Granted
  <1>4. OneGrant(d, id) /\ (Grants(m, id) => ~Granted(d, id)) => OneGrant(v, id)
    BY <1>2 DEF OneGrant, Granted
  <1>5. Ordinary(d) /\ m.type \notin {"PartyJoined", "PartyInfo"} => Ordinary(v)
    BY <1>2 DEF Ordinary
  <1> QED  BY <1>3, <1>4, <1>5 DEF v

\* The oldest answer is read.
LEMMA DownTail ==
  ASSUME NEW d \in Seq(Answers), d # <<>>
  PROVE  /\ Ordinary(d) => Ordinary(Tail(d))
         /\ Ordinary(d) => Head(d).type \notin {"PartyJoined", "PartyInfo"}
         /\ \A id \in Nat :
              /\ Grants(Head(d), id) => Granted(d, id)
              /\ Granted(Tail(d), id) => Granted(d, id)
              /\ OneGrant(d, id) => OneGrant(Tail(d), id)
              /\ OneGrant(d, id) /\ Grants(Head(d), id) => ~Granted(Tail(d), id)
  <1> DEFINE v == Tail(d)
  <1>1. /\ DOMAIN d = 1..Len(d) /\ DOMAIN v = 1..(Len(d) - 1) /\ Len(d) \in Nat \ {0}
        /\ Head(d) = d[1] /\ \A i \in DOMAIN v : v[i] = d[i + 1]
    OBVIOUS
  <1> HIDE DEF v
  <1>2. \A i \in DOMAIN v : i \in Nat /\ i + 1 \in DOMAIN d /\ v[i] = d[i + 1] /\ i + 1 # 1
    BY <1>1
  <1>3. 1 \in DOMAIN d
    BY <1>1
  <1>4. /\ Ordinary(d) => Ordinary(v)
        /\ Ordinary(d) => Head(d).type \notin {"PartyJoined", "PartyInfo"}
    BY <1>1, <1>2, <1>3 DEF Ordinary
  <1>5. ASSUME NEW id \in Nat
        PROVE  /\ Grants(Head(d), id) => Granted(d, id)
               /\ Granted(v, id) => Granted(d, id)
    BY <1>1, <1>2, <1>3 DEF Granted
  <1>6. ASSUME NEW id \in Nat, OneGrant(d, id), NEW i \in DOMAIN v, NEW j \in DOMAIN v,
               Grants(v[i], id), Grants(v[j], id)
        PROVE  i = j
    <2>1. i + 1 = j + 1
      BY <1>2, <1>6 DEF OneGrant
    <2> QED  BY <1>2, <2>1
  <1>7. ASSUME NEW id \in Nat, OneGrant(d, id), Grants(Head(d), id)
        PROVE  ~Granted(v, id)
    BY <1>1, <1>2, <1>3, <1>7 DEF OneGrant, Granted
  <1>8. \A id \in Nat : OneGrant(d, id) => OneGrant(v, id)
    BY <1>6 DEF OneGrant
  <1> QED  BY <1>4, <1>5, <1>7, <1>8 DEF v

-----------------------------------------------------------------------------
\* What a game and the packets to it keep, one small change at a time.
LEMMA KeepsTrans ==
  ASSUME NEW k, NEW d, NEW j, NEW b, NEW n, NEW c,
         Keeps(k, d, j, b), Keeps(j, b, n, c)
  PROVE  Keeps(k, d, n, c)
  BY DEF Keeps

\* A change of other fields.
LEMMA KeepsSame ==
  ASSUME NEW k, NEW n, NEW d, n.ents = k.ents, n.up = k.up, ~k.leads => ~n.leads
  PROVE  Keeps(k, d, n, d)
  BY DEF Keeps, Held, HeldOnce, Follows

\* A packet that neither claims nor hands on.
LEMMA KeepsPost ==
  ASSUME NEW k, k.up \in Seq(Requests), NEW n, NEW d, NEW m \in Requests,
         n.ents = k.ents, n.up = Append(k.up, m), ~k.leads => ~n.leads,
         m.type \notin {"Claim", "RequestTransfer"}
  PROVE  Keeps(k, d, n, d)
  <1>1. Follows(k, d) => Follows(n, d)
    BY DEF Follows
  <1>2. ASSUME NEW id \in Nat
        PROVE  /\ Held(n, d, id) => Held(k, d, id)
               /\ Claiming(n.up, id) => Claiming(k.up, id)
               /\ HeldOnce(k, d, id) => HeldOnce(n, d, id)
    <2>1. ~Asks(m, id) /\ ~Claims(m, id)
      BY DEF Asks, Claims
    <2>2. /\ Asked(n.up, id) => Asked(k.up, id)
          /\ Claiming(n.up, id) => Claiming(k.up, id)
          /\ InOrder(k.up, id) => InOrder(n.up, id)
      BY <2>1, UpAppend
    <2> QED  BY <2>2 DEF Held, HeldOnce
  <1> QED  BY <1>1, <1>2 DEF Keeps

\* An answer is read.
LEMMA KeepsTail ==
  ASSUME NEW k, NEW d \in Seq(Answers), d # <<>>
  PROVE  Keeps(k, d, k, Tail(d))
  BY DownTail DEF Keeps, Held, HeldOnce, Follows

\* An answer that makes nobody an owner, and nobody a leader.
Grantless(m) ==
  \/ m.type \in {"Spawn", "Remove", "Relinquish", "Mounted"}
  \/ m.type = "Assigned" /\ m.owner = FALSE

LEMMA KeepsAppend ==
  ASSUME NEW k, NEW d \in Seq(Answers), NEW m \in Answers,
         Grantless(m)
  PROVE  Keeps(k, d, k, Append(d, m))
  <1>1. \A id \in Nat : ~Grants(m, id)
    BY DEF Grants, Grantless
  <1>2. m.type \notin {"PartyJoined", "PartyInfo"}
    BY DEF Grantless
  <1>3. Ordinary(d) => Ordinary(Append(d, m))
    <2>1. 0 \in Nat
      OBVIOUS
    <2> QED  BY <1>2, <2>1, DownAppend
  <1>4. ASSUME NEW id \in Nat
        PROVE  /\ Granted(Append(d, m), id) => Granted(d, id)
               /\ OneGrant(d, id) => OneGrant(Append(d, m), id)
    BY <1>1, DownAppend
  <1> QED  BY <1>3, <1>4 DEF Keeps, Held, HeldOnce, Follows

\* The server handled a request.
LEMMA KeepsServe ==
  ASSUME NEW k, k.up \in Seq(Requests), k.up # <<>>, NEW n, NEW d,
         n.ents = k.ents, n.up = Tail(k.up), n.leads = k.leads
  PROVE  /\ Keeps(k, d, n, d)
         /\ \A id \in Nat : HeldOnce(k, d, id) /\ Asks(Head(k.up), id)
              => Held(k, d, id) /\ ~Held(n, d, id) /\ ~Claiming(n.up, id)
  <1>1. ASSUME NEW id \in Nat
        PROVE  /\ Held(n, d, id) => Held(k, d, id)
               /\ Claiming(n.up, id) => Claiming(k.up, id)
               /\ HeldOnce(k, d, id) => HeldOnce(n, d, id)
               /\ HeldOnce(k, d, id) /\ Asks(Head(k.up), id)
                    => Held(k, d, id) /\ ~Held(n, d, id) /\ ~Claiming(n.up, id)
    <2>1. /\ Asks(Head(k.up), id) => Asked(k.up, id)
          /\ Asked(n.up, id) => Asked(k.up, id)
          /\ Claiming(n.up, id) => Claiming(k.up, id)
          /\ InOrder(k.up, id) => InOrder(n.up, id)
          /\ InOrder(k.up, id) /\ Asks(Head(k.up), id)
               => ~Asked(n.up, id) /\ ~Claiming(n.up, id)
      BY UpTail
    <2> QED  BY <2>1 DEF Held, HeldOnce
  <1>2. Follows(k, d) => Follows(n, d)
    BY DEF Follows
  <1> QED  BY <1>1, <1>2 DEF Keeps

\* What Replace does to the actors of a game.
LEMMA ReplaceFields ==
  ASSUME NEW k, IsClient(k), NEW old, NEW new
  PROVE  LET n == Replace(k, old, new)
         IN  /\ IsClient(n) /\ n.up = k.up /\ n.leads = k.leads
             /\ n.online = k.online /\ n.cookie = k.cookie
             /\ n.ents = (k.ents \ {old}) \cup ({new} \ {Bare})
  <1> DEFINE s == (k.ents \ {old}) \cup ({new} \ {Bare})
             n == [k EXCEPT !.ents = s]
  <1>1. Replace(k, old, new) = n
    BY DEF Replace
  <1> HIDE DEF s
  <1>2. /\ IsClient(n) /\ n.up = k.up /\ n.leads = k.leads
        /\ n.online = k.online /\ n.cookie = k.cookie /\ n.ents = s
    BY DEF IsClient
  <1> HIDE DEF n
  <1> QED  BY <1>1, <1>2 DEF s

LEMMA PostFields ==
  ASSUME NEW k, IsClient(k), NEW m
  PROVE  LET n == Post(k, m)
         IN  /\ IsClient(n) /\ n.up = Append(k.up, m) /\ n.leads = k.leads
             /\ n.online = k.online /\ n.cookie = k.cookie /\ n.ents = k.ents
  <1> DEFINE u == Append(k.up, m)
             n == [k EXCEPT !.up = u]
  <1>1. Post(k, m) = n
    BY DEF Post
  <1> HIDE DEF u
  <1>2. /\ IsClient(n) /\ n.up = u /\ n.leads = k.leads
        /\ n.online = k.online /\ n.cookie = k.cookie /\ n.ents = k.ents
    BY DEF IsClient
  <1> HIDE DEF n
  <1> QED  BY <1>1, <1>2 DEF u

\* An entity that simulates what it simulated before, or nothing.
LEMMA KeepsReplace ==
  ASSUME NEW k, IsClient(k), NEW old, NEW new, NEW d,
         new.local = None \/ (old \in k.ents /\ new.local = old.local)
  PROVE  Keeps(k, d, Replace(k, old, new), d)
  <1> DEFINE n == Replace(k, old, new)
  <1>1. /\ n.up = k.up /\ n.leads = k.leads
        /\ n.ents \subseteq (k.ents \ {old}) \cup {new}
    BY ReplaceFields
  <1> HIDE DEF n
  <1>2. ASSUME NEW id \in Nat
        PROVE  /\ Simulated(n.ents, id) => Simulated(k.ents, id)
               /\ OneActor(k.ents, id) => OneActor(n.ents, id)
    <2>1. id # None
      BY OwnershipAssumption
    <2>2. Simulated(n.ents, id) => Simulated(k.ents, id)
      BY <1>1, <2>1 DEF Simulated
    <2>3. ASSUME OneActor(k.ents, id), NEW e \in n.ents, NEW f \in n.ents,
                 e.local = id, f.local = id
          PROVE  e = f
      BY <1>1, <2>1, <2>3 DEF OneActor
    <2> QED  BY <2>2, <2>3 DEF OneActor
  <1>3. Follows(k, d) => Follows(n, d)
    BY <1>1 DEF Follows
  <1>4. Keeps(k, d, n, d)
    BY <1>1, <1>2, <1>3 DEF Keeps, Held, HeldOnce
  <1> QED  BY <1>4 DEF n

-----------------------------------------------------------------------------
\* A game takes over what it is told it owns.
LEMMA KeepsTaken ==
  ASSUME NEW k, IsClient(k), NEW d \in Seq(Answers), d # <<>>,
         NEW id \in Nat, Grants(Head(d), id), NEW old, NEW new, new.local = id
  PROVE  /\ Keeps(k, d, Replace(k, old, new), Tail(d))
         /\ Simulated(Replace(k, old, new).ents, id)
  <1> DEFINE n == Replace(k, old, new)
             c == Tail(d)
  <1>1. /\ n.up = k.up /\ n.leads = k.leads
        /\ n.ents = (k.ents \ {old}) \cup ({new} \ {Bare})
    BY ReplaceFields
  <1>2. id # None /\ Bare.local = None
    BY OwnershipAssumption DEF Bare
  <1> HIDE DEF n
  <1>3. Simulated(n.ents, id)
    BY <1>1, <1>2 DEF Simulated
  <1>4. Follows(k, d) => Follows(n, c)
    BY <1>1, DownTail DEF Follows
  <1>5. /\ Granted(d, id)
        /\ OneGrant(d, id) => ~Granted(c, id)
    BY DownTail
  <1>6. \A j \in Nat : (Granted(c, j) => Granted(d, j)) /\ (OneGrant(d, j) => OneGrant(c, j))
    BY DownTail
  <1> HIDE DEF c
  <1>7. ASSUME NEW j \in Nat
        PROVE  Held(n, c, j) => Held(k, d, j)
    <2>1. CASE j = id
      BY <1>5, <2>1 DEF Held
    <2>2. CASE j # id
      <3>1. Simulated(n.ents, j) => Simulated(k.ents, j)
        BY <1>1, <2>2 DEF Simulated
      <3> QED  BY <1>1, <1>6, <3>1 DEF Held
    <2> QED  BY <2>1, <2>2
  <1>8. ASSUME NEW j \in Nat, HeldOnce(k, d, j)
        PROVE  HeldOnce(n, c, j)
    <2>1. CASE j = id
      <3>1. ~Granted(c, id) /\ ~Simulated(k.ents, id) /\ ~Asked(k.up, id)
        BY <1>5, <1>8, <2>1 DEF HeldOnce
      <3>2. OneActor(n.ents, id)
        BY <1>1, <3>1 DEF OneActor, Simulated
      <3> QED  BY <1>1, <1>6, <1>8, <2>1, <3>1, <3>2 DEF HeldOnce
    <2>2. CASE j # id
      <3>1. Simulated(n.ents, j) => Simulated(k.ents, j)
        BY <1>1, <2>2 DEF Simulated
      <3>2. OneActor(k.ents, j) => OneActor(n.ents, j)
        BY <1>1, <2>2 DEF OneActor
      <3> QED  BY <1>1, <1>6, <1>8, <3>1, <3>2 DEF HeldOnce
    <2> QED  BY <2>1, <2>2
  <1>9. Keeps(k, d, n, c)
    BY <1>1, <1>4, <1>7, <1>8 DEF Keeps
  <1> QED  BY <1>3, <1>9 DEF n, c

\* A game that simulates an entity claims it.
LEMMA KeepsClaim ==
  ASSUME NEW k, ClientTyped(k), NEW id \in Nat, Simulated(k.ents, id), NEW d
  PROVE  Keeps(k, d, Post(k, [type |-> "Claim", id |-> id]), d)
  <1> DEFINE m == [type |-> "Claim", id |-> id]
             n == Post(k, m)
  <1>1. /\ m \in Requests /\ k.up \in Seq(Requests) /\ IsClient(k)
        /\ \A j \in Nat : ~Asks(m, j) /\ (Claims(m, j) => j = id)
    BY RequestTypes DEF ClientTyped, Asks, Claims
  <1> HIDE DEF m
  <1>2. n.up = Append(k.up, m) /\ n.leads = k.leads /\ n.ents = k.ents
    BY <1>1, PostFields
  <1> HIDE DEF n
  <1>3. ASSUME NEW j \in Nat
        PROVE  /\ Held(n, d, j) => Held(k, d, j)
               /\ Claiming(n.up, j) => Claiming(k.up, j) \/ Held(k, d, j)
               /\ HeldOnce(k, d, j) => HeldOnce(n, d, j)
    <2>1. /\ Asked(n.up, j) => Asked(k.up, j)
          /\ Claiming(n.up, j) => Claiming(k.up, j) \/ j = id
          /\ InOrder(k.up, j) /\ (j = id => ~Asked(k.up, j)) => InOrder(n.up, j)
      BY <1>1, <1>2, UpAppend
    <2> QED  BY <1>2, <2>1 DEF Held, HeldOnce
  <1>4. Follows(k, d) => Follows(n, d)
    BY <1>2 DEF Follows
  <1>5. Keeps(k, d, n, d)
    BY <1>3, <1>4 DEF Keeps
  <1> QED  BY <1>5 DEF n, m

\* A game asks to hand on what it held in another way until now.
LEMMA KeepsAsk ==
  ASSUME NEW k, NEW n, k.up \in Seq(Requests), NEW id \in Nat, NEW d, NEW c,
         Follows(k, d) => Follows(n, c),
         n.up = Append(k.up, [type |-> "RequestTransfer", id |-> id]),
         Held(k, d, id),
         HeldOnce(k, d, id) => ~Simulated(n.ents, id) /\ ~Granted(c, id)
                                 /\ ~Asked(k.up, id),
         \A j \in Nat :
           /\ Simulated(n.ents, j) => Simulated(k.ents, j)
           /\ OneActor(k.ents, j) => OneActor(n.ents, j)
           /\ Granted(c, j) => Granted(d, j)
           /\ OneGrant(d, j) => OneGrant(c, j)
  PROVE  Keeps(k, d, n, c)
  <1> DEFINE m == [type |-> "RequestTransfer", id |-> id]
  <1>1. /\ m \in Requests
        /\ \A j \in Nat : ~Claims(m, j) /\ (Asks(m, j) => j = id)
    BY RequestTypes DEF Asks, Claims
  <1>2. n.up = Append(k.up, m)
    OBVIOUS
  <1> HIDE DEF m
  <1>3. ASSUME NEW j \in Nat
        PROVE  /\ Held(n, c, j) => Held(k, d, j)
               /\ Claiming(n.up, j) => Claiming(k.up, j)
               /\ HeldOnce(k, d, j) => HeldOnce(n, c, j)
    <2>1. /\ Asked(n.up, j) => Asked(k.up, j) \/ j = id
          /\ Claiming(n.up, j) => Claiming(k.up, j)
          /\ InOrder(k.up, j) /\ (j = id => ~Asked(k.up, j)) => InOrder(n.up, j)
      BY <1>1, <1>2, UpAppend
    <2>2. CASE j = id
      BY <2>1, <2>2 DEF Held, HeldOnce
    <2>3. CASE j # id
      BY <2>1, <2>3 DEF Held, HeldOnce
    <2> QED  BY <2>2, <2>3
  <1> QED  BY <1>3 DEF Keeps

\* ProcessNewEntity of a game that leads no party.
LEMMA ProcessNewEntityKeeps ==
  ASSUME NEW k, ClientTyped(k), ~k.leads, NEW e \in Actors, NEW d
  PROVE  Keeps(k, d, ProcessNewEntity(k, e), d)
  <1>0. IsClient(k) /\ k.up \in Seq(Requests) /\ k.cookie \in Nat
    BY DEF ClientTyped
  <1>1. CASE ~k.online \/ e.remote # None \/ e.local # None \/ e.wait # None
    <2>1. ProcessNewEntity(k, e) = k
      BY <1>1 DEF ProcessNewEntity
    <2> QED  BY <2>1, KeepsSame
  <1>2. CASE k.online /\ e.remote = None /\ e.local = None /\ e.wait = None
    <2> DEFINE f == [e EXCEPT !.wait = k.cookie]
               j == Replace(k, e, f)
               r == j.cookie + 1
               o == [j EXCEPT !.cookie = r]
               m == [type |-> "Assign", cookie |-> k.cookie]
               n == ProcessNewEntity(k, e)
    <2>1. m \in Requests /\ m.type \notin {"Claim", "RequestTransfer"}
      BY <1>0, RequestTypes
    <2>2. f.local = None
      BY <1>2 DEF Actors
    <2>3. n = Post(o, m)
      BY <1>2 DEF ProcessNewEntity
    <2> HIDE DEF m, n, f
    <2>4. Keeps(k, d, j, d)
      BY <1>0, <2>2, KeepsReplace
    <2>5. IsClient(j) /\ j.up = k.up
      BY <1>0, ReplaceFields
    <2> HIDE DEF j, r
    <2>6. IsClient(o) /\ o.ents = j.ents /\ o.up = j.up /\ o.leads = j.leads
      BY <2>5 DEF IsClient
    <2> HIDE DEF o
    <2>7. Keeps(j, d, o, d)
      BY <2>6, KeepsSame
    <2>8. n.ents = o.ents /\ n.up = Append(o.up, m) /\ n.leads = o.leads
      BY <2>3, <2>6, PostFields
    <2>9. Keeps(o, d, n, d)
      BY <1>0, <2>1, <2>5, <2>6, <2>8, KeepsPost
    <2>10. Keeps(k, d, n, d)
      BY <2>4, <2>7, <2>9, KeepsTrans
    <2> QED  BY <2>10 DEF n
  <1> QED  BY <1>1, <1>2

\* OnActorAdded.
LEMMA ActorAddedKeeps ==
  ASSUME NEW k, ClientTyped(k), ~k.leads, NEW n \in ActorAddedTo(k), NEW d
  PROVE  Keeps(k, d, n, d)
  <1> DEFINE formed(e) == [e EXCEPT !.form = TRUE]
  <1>1. PICK e \in k.ents \cup {Bare} :
          n = ProcessNewEntity(Replace(k, e, formed(e)), formed(e))
    BY DEF ActorAddedTo
  <1> DEFINE f == formed(e)
             j == Replace(k, e, f)
  <1>0. Bare.local = None
    BY DEF Bare
  <1>2. e \in Actors /\ (e \in k.ents \/ e.local = None)
    BY <1>0, ActorChanges DEF ClientTyped
  <1>3. f \in Actors /\ f.local = e.local
    BY <1>2, ActorChanges DEF Actors
  <1>4. n = ProcessNewEntity(j, f) /\ IsClient(k)
    BY <1>1 DEF ClientTyped
  <1> HIDE DEF f
  <1>5. ClientTyped(j) /\ j.leads = k.leads
    BY <1>3, ReplaceTyped DEF Kept
  <1>6. Keeps(k, d, j, d)
    BY <1>2, <1>3, <1>4, KeepsReplace
  <1> HIDE DEF j
  <1>7. Keeps(j, d, n, d)
    BY <1>3, <1>4, <1>5, ProcessNewEntityKeeps
  <1> QED  BY <1>6, <1>7, KeepsTrans

\* OnActorRemoved: what the game simulated it asks to hand on.
LEMMA ActorRemovedKeeps ==
  ASSUME NEW k, ClientTyped(k), NEW e \in k.ents, NEW d
  PROVE  Keeps(k, d, ActorRemovedFrom(k, e), d)
  <1> DEFINE n == ActorRemovedFrom(k, e)
             f == [e EXCEPT !.remote = None, !.form = FALSE]
             off == Replace(k, e, Bare)
  <1>1. e \in Actors /\ Bare.local = None /\ IsClient(k) /\ k.up \in Seq(Requests)
    BY DEF ClientTyped, Bare
  <1>2. f.local = e.local
    BY <1>1 DEF Actors
  <1>3. Keeps(k, d, off, d)
    BY <1>1, KeepsReplace
  <1>4. CASE e.remote # None
    <2>1. n = Replace(k, e, f)
      BY <1>4 DEF ActorRemovedFrom
    <2> HIDE DEF f, n
    <2> QED  BY <1>1, <1>2, <2>1, KeepsReplace DEF n
  <1>5. CASE e.remote = None /\ e.local = None
    <2>1. n = off
      BY <1>5 DEF ActorRemovedFrom
    <2> QED  BY <1>3, <2>1
  <1>6. CASE e.remote = None /\ e.local # None
    <2> DEFINE m == [type |-> "RequestTransfer", id |-> e.local]
    <2>1. n = Post(off, m) /\ e.local \in Nat
      BY <1>1, <1>6 DEF ActorRemovedFrom, Actors
    <2>2. /\ IsClient(off) /\ off.up = k.up /\ off.leads = k.leads
          /\ off.ents \subseteq k.ents \ {e}
      <3>1. off.ents = (k.ents \ {e}) \cup ({Bare} \ {Bare})
        BY <1>1, ReplaceFields
      <3> QED  BY <1>1, <3>1, ReplaceFields
    <2> HIDE DEF n, off
    <2>3. n.up = Append(k.up, m) /\ n.leads = k.leads /\ n.ents = off.ents
      BY <2>1, <2>2, PostFields
    <2>4. Simulated(k.ents, e.local)
      BY DEF Simulated
    <2>5. \A j \in Nat : /\ Simulated(n.ents, j) => Simulated(k.ents, j)
                         /\ OneActor(k.ents, j) => OneActor(n.ents, j)
      BY <2>2, <2>3 DEF Simulated, OneActor
    <2>6. OneActor(k.ents, e.local) => ~Simulated(n.ents, e.local)
      BY <2>2, <2>3 DEF Simulated, OneActor
    <2>7. Follows(k, d) => Follows(n, d)
      BY <2>3 DEF Follows
    <2>8. /\ Held(k, d, e.local)
          /\ HeldOnce(k, d, e.local) => /\ ~Simulated(n.ents, e.local)
                                        /\ ~Granted(d, e.local)
                                        /\ ~Asked(k.up, e.local)
      BY <2>4, <2>6 DEF Held, HeldOnce
    <2> DEFINE id == e.local
    <2>9. /\ id \in Nat /\ n.up = Append(k.up, [type |-> "RequestTransfer", id |-> id])
          /\ Held(k, d, id)
          /\ HeldOnce(k, d, id) => ~Simulated(n.ents, id) /\ ~Granted(d, id) /\ ~Asked(k.up, id)
      BY <2>1, <2>3, <2>8
    <2> HIDE DEF id
    <2>10. Keeps(k, d, n, d)
      BY <1>1, <2>5, <2>7, <2>9, KeepsAsk
    <2> QED  BY <2>10 DEF n
  <1> QED  BY <1>4, <1>5, <1>6

\* OnOwnershipTransfer: the new owner takes over, or asks to hand on.
LEMMA OnTransferKeeps ==
  ASSUME NEW k, ClientTyped(k), NEW d \in Seq(Answers), d # <<>>,
         Head(d).type = "Transfer", NEW n \in OnTransfer(k, Head(d).id)
  PROVE  Keeps(k, d, n, Tail(d))
  <1> DEFINE id == Head(d).id
             c == Tail(d)
  <1>0. /\ id \in Nat /\ Grants(Head(d), id) /\ id # None
        /\ IsClient(k) /\ k.up \in Seq(Requests) /\ k.ents \subseteq Actors
    <2>1. Head(d) \in Answers
      OBVIOUS
    <2> QED  BY <2>1, OwnershipAssumption DEF Answers, Grants, ClientTyped
  <1>1. CASE {e \in k.ents : e.form /\ e.remote = id} = {}
    <2> DEFINE m == [type |-> "RequestTransfer", id |-> id]
    <2>1. n = Post(k, m)
      BY <1>1 DEF OnTransfer
    <2> HIDE DEF id
    <2>2. n.up = Append(k.up, m) /\ n.leads = k.leads /\ n.ents = k.ents
      BY <1>0, <2>1, PostFields
    <2>3. Granted(d, id) /\ (OneGrant(d, id) => ~Granted(c, id))
      BY <1>0, DownTail
    <2>4. \A j \in Nat : /\ Granted(c, j) => Granted(d, j)
                         /\ OneGrant(d, j) => OneGrant(c, j)
      BY DownTail
    <2>5. Follows(k, d) => Follows(n, c)
      BY <2>2, DownTail DEF Follows
    <2> HIDE DEF c
    <2>6. /\ Held(k, d, id)
          /\ HeldOnce(k, d, id) => ~Simulated(n.ents, id) /\ ~Granted(c, id) /\ ~Asked(k.up, id)
      BY <2>2, <2>3 DEF Held, HeldOnce
    <2>7. Keeps(k, d, n, c)
      BY <1>0, <2>2, <2>4, <2>5, <2>6, KeepsAsk
    <2> QED  BY <2>7 DEF c
  <1>2. CASE {e \in k.ents : e.form /\ e.remote = id} # {}
    <2>1. PICK e \in k.ents : e.remote = id /\ n = TakeOwnership(k, e)
      BY <1>2, ZenonT(60) DEF OnTransfer
    <2> DEFINE f == [e EXCEPT !.local = e.remote, !.remote = None]
               j == Replace(k, e, f)
    <2>2. n = Post(j, [type |-> "Claim", id |-> id])
      BY <2>1, ZenonT(60) DEF TakeOwnership
    <2>3. e \in Actors /\ e.remote \in Nat
      BY <1>0, <2>1
    <2>4. f.local = id /\ f \in Actors
      BY <2>1, <2>3, ActorChanges, ZenonT(60) DEF Actors
    <2> HIDE DEF f, id
    <2>5. Keeps(k, d, j, c) /\ Simulated(j.ents, id)
      BY <1>0, <2>4, KeepsTaken
    <2>6. ClientTyped(j)
      BY <2>4, ReplaceTyped DEF Kept
    <2> HIDE DEF j
    <2>7. Keeps(j, c, n, c)
      BY <1>0, <2>2, <2>5, <2>6, KeepsClaim
    <2> QED  BY <2>5, <2>7, KeepsTrans
  <1> QED  BY <1>1, <1>2

\* OnAssignCharacter: the game simulates what it is told it owns.
LEMMA OnAssignedKeeps ==
  ASSUME NEW k, ClientTyped(k), NEW d \in Seq(Answers), d # <<>>,
         Head(d).type = "Assigned", NEW n \in OnAssigned(k, Head(d))
  PROVE  Keeps(k, d, n, Tail(d))
  <1> DEFINE m == Head(d)
             c == Tail(d)
  <1>0. /\ m.id \in Nat /\ m.owner \in BOOLEAN
        /\ IsClient(k) /\ k.ents \subseteq Actors
    <2>1. m \in Answers
      OBVIOUS
    <2> QED  BY <2>1 DEF Answers, ClientTyped
  <1>1. Keeps(k, d, k, c)
    BY KeepsTail
  <1>2. CASE {e \in k.ents : e.wait = m.cookie} = {}
    BY <1>1, <1>2 DEF OnAssigned
  <1>3. CASE {e \in k.ents : e.wait = m.cookie} # {}
    <2>1. PICK e \in k.ents :
            n = Replace(k, e, IF m.owner THEN [e EXCEPT !.wait = None, !.local = m.id]
                              ELSE [e EXCEPT !.wait = None, !.remote = m.id])
      BY <1>3 DEF OnAssigned
    <2> DEFINE f == [e EXCEPT !.wait = None, !.local = m.id]
               g == [e EXCEPT !.wait = None, !.remote = m.id]
    <2>2. f.local = m.id /\ g.local = e.local
      BY <1>0 DEF Actors
    <2>3. n = Replace(k, e, IF m.owner THEN f ELSE g)
      BY <2>1
    <2> HIDE DEF f, g
    <2>4. CASE m.owner
      <3>1. Grants(m, m.id)
        BY <1>0, <2>4 DEF Grants
      <3>2. n = Replace(k, e, f)
        BY <2>3, <2>4
      <3> QED  BY <1>0, <2>2, <3>1, <3>2, KeepsTaken
    <2>5. CASE ~m.owner
      <3>1. n = Replace(k, e, g)
        BY <2>3, <2>5
      <3>2. Keeps(k, c, n, c)
        BY <1>0, <2>2, <3>1, KeepsReplace
      <3> QED  BY <1>1, <3>2, KeepsTrans
    <2> QED  BY <2>4, <2>5
  <1> QED  BY <1>2, <1>3

\* Every packet of the server leaves a game that leads no party holding what it
\* held.
LEMMA ReceivedKeeps ==
  ASSUME NEW k, ClientTyped(k), NEW d \in Seq(Answers), d # <<>>,
         Follows(k, d), NEW n \in Received(k, Head(d))
  PROVE  Keeps(k, d, n, Tail(d))
  <1> DEFINE m == Head(d)
             c == Tail(d)
  <1>0. /\ m \in Answers /\ IsClient(k) /\ k.ents \subseteq Actors /\ Bare.local = None
        /\ m.type \notin {"PartyJoined", "PartyInfo"}
    BY DownTail DEF ClientTyped, Follows, Bare
  <1>1. CASE m.type = "Assigned"
    BY <1>1, OnAssignedKeeps DEF Received
  <1>2. CASE m.type = "Transfer"
    BY <1>2, OnTransferKeeps DEF Received
  <1>3. ASSUME n = k \/ \E old \in k.ents \cup {Bare} : \E new :
                          n = Replace(k, old, new) /\ (new.local = None \/ new.local = old.local)
        PROVE  Keeps(k, d, n, c)
    <2>1. Keeps(k, d, k, c)
      BY KeepsTail
    <2>2. ASSUME NEW old \in k.ents \cup {Bare}, NEW new, n = Replace(k, old, new),
                 new.local = None \/ new.local = old.local
          PROVE  Keeps(k, c, n, c)
      <3>1. old \in k.ents \/ old.local = None
        BY <1>0, <2>2
      <3>2. new.local = None \/ (old \in k.ents /\ new.local = old.local)
        BY <2>2, <3>1, ZenonT(60)
      <3> QED  BY <1>0, <2>2, <3>2, KeepsReplace, SMTT(60)
    <2>3. CASE n = k
      BY <2>1, <2>3
    <2>4. CASE n # k
      <3>1. Keeps(k, c, n, c)
        BY <1>3, <2>2, <2>4, ZenonT(60)
      <3> QED  BY <2>1, <3>1, KeepsTrans
    <2> QED  BY <2>3, <2>4
  <1>a. \A e \in k.ents \cup {Bare} : e \in Actors
    BY <1>0, ActorChanges
  <1>4. CASE m.type = "Spawn"
    <2>1. n \in OnSpawn(k, m.id)
      BY <1>4 DEF Received
    <2>2. n = k \/ \E e \in k.ents \cup {Bare} : n = Replace(k, e, [e EXCEPT !.remote = m.id])
      BY <2>1, SMTT(60) DEF OnSpawn
    <2>3. \A e \in Actors : [e EXCEPT !.remote = m.id].local = e.local
      BY DEF Actors
    <2> QED  BY <1>3, <1>a, <2>2, <2>3
  <1>5. CASE m.type = "Remove"
    <2>1. n \in OnRemove(k, m.id)
      BY <1>5 DEF Received
    <2>2. n = k \/ \E e \in k.ents \cup {Bare} : n = Replace(k, e, [e EXCEPT !.remote = None])
      BY <2>1, SMTT(60) DEF OnRemove
    <2>3. \A e \in Actors : [e EXCEPT !.remote = None].local = e.local
      BY DEF Actors
    <2> QED  BY <1>3, <1>a, <2>2, <2>3
  <1>6. CASE m.type \in {"Relinquish", "Mounted"}
    <2>1. n \in OnRelinquish(k, m.id) \cup {k}
      BY <1>6 DEF Received
    <2>2. n = k \/ \E e \in k.ents \cup {Bare} : n = Replace(k, e, [e EXCEPT !.local = None, !.remote = m.id])
      BY <2>1, ZenonT(60) DEF OnRelinquish
    <2>3. \A e \in Actors : [e EXCEPT !.local = None, !.remote = m.id].local = None
      BY DEF Actors
    <2> QED  BY <1>3, <1>a, <2>2, <2>3
  <1> QED  BY <1>0, <1>1, <1>2, <1>4, <1>5, <1>6 DEF Answers

-----------------------------------------------------------------------------
\* Nobody's hold of an entity grows.
LEMMA KeepTokens ==
  ASSUME NEW on, NEW e, NEW n, NEW games, NEW down, Tokens(on, e, n, games, down),
         NEW less, less \subseteq on,
         NEW f, NEW others, NEW sent,
         f # None => e # None /\ f.id = e.id /\ f.owner = e.owner,
         \A p \in less : Keeps(games[p], down[p], others[p], sent[p])
  PROVE  Tokens(less, f, n, others, sent)
  <1>1. /\ n \in Nat /\ (f # None => f.id \in Nat /\ f.id < n)
        /\ \A p \in less : Follows(others[p], sent[p])
    BY DEF Tokens, Keeps
  <1>2. ASSUME NEW p \in less, NEW id \in Nat
        PROVE  HeldOnce(others[p], sent[p], id)
    BY DEF Tokens, Keeps
  <1>3. ASSUME NEW p \in less, NEW id \in Nat,
               Held(others[p], sent[p], id) \/ Claiming(others[p].up, id)
        PROVE  id < n /\ (f # None /\ f.id = id => f.owner = p)
    <2>1. Held(games[p], down[p], id) \/ Claiming(games[p].up, id)
      BY <1>3 DEF Keeps
    <2> QED  BY <2>1 DEF Tokens
  <1>4. ASSUME NEW p \in less, NEW id \in Nat, NEW q \in less \ {p},
               Held(others[p], sent[p], id), Held(others[q], sent[q], id)
        PROVE  FALSE
    <2>1. Held(games[p], down[p], id) /\ Held(games[q], down[q], id)
      BY <1>4 DEF Keeps
    <2> QED  BY <2>1 DEF Tokens
  <1> QED  BY <1>1, <1>2, <1>3, <1>4 DEF Tokens

\* An entity that nobody holds or still claims.
Free(on, id, games, down) ==
  \A p \in on : ~Held(games[p], down[p], id) /\ ~Claiming(games[p].up, id)

\* A packet that makes its reader the owner of one entity, sent to q alone.
Gives(m, id) ==
  /\ m \in Answers /\ m.type \notin {"PartyJoined", "PartyInfo"}
  /\ \A j \in Nat : Grants(m, j) => j = id
Reaches(down, sent, q, m) ==
  /\ down[q] \in Seq(Answers) /\ sent[q] = Append(down[q], m)
  /\ \A p \in Players \ {q} : sent[p] = down[p]

\* An entity nobody holds is given to one player.
LEMMA GrantTokens ==
  ASSUME NEW on, on \subseteq Players, NEW e, NEW n, NEW games, NEW down,
         Tokens(on, e, n, games, down),
         NEW id \in Nat, Free(on, id, games, down),
         NEW m, Gives(m, id), NEW q \in on, NEW sent, Reaches(down, sent, q, m),
         NEW l \in Nat, n <= l, id < l,
         NEW f, f # None => f.id = id /\ f.owner = q
  PROVE  Tokens(on, f, l, games, sent)
  <1>0. /\ \A p \in on : ~Held(games[p], down[p], id) /\ ~Claiming(games[p].up, id)
        /\ down[q] \in Seq(Answers) /\ sent[q] = Append(down[q], m)
        /\ \A p \in on \ {q} : sent[p] = down[p]
        /\ m \in Answers /\ m.type \notin {"PartyJoined", "PartyInfo"}
        /\ \A j \in Nat : Grants(m, j) => j = id
    BY DEF Free, Reaches, Gives
  <1>1. \A j \in Nat :
          /\ Granted(sent[q], j) => Granted(down[q], j) \/ j = id
          /\ OneGrant(down[q], j) /\ (j = id => ~Granted(down[q], j))
               => OneGrant(sent[q], j)
          /\ Ordinary(down[q]) => Ordinary(sent[q])
    BY <1>0, DownAppend
  <1>2. Ordinary(down[q]) => Ordinary(sent[q])
    <2>1. 0 \in Nat
      OBVIOUS
    <2> QED  BY <1>1, <2>1
  <1>3. \A p \in on : Follows(games[p], sent[p])
    BY <1>0, <1>2 DEF Tokens, Follows
  <1>4. ASSUME NEW p \in on, NEW j \in Nat
        PROVE  /\ Held(games[p], sent[p], j)
                    => Held(games[p], down[p], j) \/ (p = q /\ j = id)
               /\ HeldOnce(games[p], sent[p], j)
    <2>1. CASE p = q
      <3>1. HeldOnce(games[p], down[p], j)
        BY DEF Tokens
      <3>2. Held(games[p], sent[p], j) => Held(games[p], down[p], j) \/ j = id
        BY <1>1, <2>1 DEF Held
      <3>3. CASE j # id
        <4>1. /\ Granted(sent[p], j) => Granted(down[p], j)
              /\ OneGrant(down[p], j) => OneGrant(sent[p], j)
          BY <1>1, <2>1, <3>3
        <4>2. HeldOnce(games[p], sent[p], j)
          BY <3>1, <4>1 DEF HeldOnce
        <4> QED  BY <2>1, <3>2, <4>2
      <3>4. CASE j = id
        <4>1. ~Held(games[p], down[p], j)
          BY <1>0, <3>4
        <4> QED  BY <1>1, <2>1, <3>1, <3>2, <3>4, <4>1 DEF HeldOnce, Held
      <3> QED  BY <2>1, <3>2, <3>3, <3>4
    <2>2. CASE p # q
      BY <1>0, <2>2 DEF Tokens
    <2> QED  BY <2>1, <2>2
  <1>5. ASSUME NEW p \in on, NEW j \in Nat,
               Held(games[p], sent[p], j) \/ Claiming(games[p].up, j)
        PROVE  j < l /\ (f # None /\ f.id = j => f.owner = p)
    <2>1. CASE p = q /\ j = id
      BY <2>1
    <2>2. CASE ~(p = q /\ j = id)
      <3>1. Held(games[p], down[p], j) \/ Claiming(games[p].up, j)
        BY <1>4, <1>5, <2>2
      <3>2. j < n /\ n \in Nat /\ j # id
        BY <1>0, <3>1 DEF Tokens
      <3> QED  BY <3>2
    <2> QED  BY <2>1, <2>2
  <1>6. ASSUME NEW p \in on, NEW j \in Nat, NEW r \in on \ {p},
               Held(games[p], sent[p], j), Held(games[r], sent[r], j)
        PROVE  FALSE
    <2>1. CASE j = id
      BY <1>0, <1>4, <1>6, <2>1
    <2>2. CASE j # id
      <3>1. Held(games[p], down[p], j) /\ Held(games[r], down[r], j)
        BY <1>4, <1>6, <2>2
      <3> QED  BY <3>1 DEF Tokens
    <2> QED  BY <2>1, <2>2
  <1> QED  BY <1>3, <1>4, <1>5, <1>6 DEF Tokens

\* A server with packets the clients know.
Typed(s) == IsServer(s) /\ s.down \in [Players -> Seq(Answers)]

\* What the server does without giving the entity to anybody.
Tells(s, t) ==
  /\ Typed(t)
  /\ t.nextId = s.nextId /\ t.leader = s.leader /\ t.online = s.online
  /\ t.ent # None => s.ent # None /\ t.ent.id = s.ent.id /\ t.ent.owner = s.ent.owner
  /\ \A q \in Players : \A k : Keeps(k, s.down[q], k, t.down[q])

Settles(s, games) == Tokens(s.online, s.ent, s.nextId, games, s.down)

LEMMA TellsTokens ==
  ASSUME NEW s, s.online \subseteq Players, NEW t, Tells(s, t), NEW games, Settles(s, games)
  PROVE  Settles(t, games)
  <1>1. \A p \in s.online : Keeps(games[p], s.down[p], games[p], t.down[p])
    BY DEF Tells
  <1>2. /\ t.ent # None => s.ent # None /\ t.ent.id = s.ent.id /\ t.ent.owner = s.ent.owner
        /\ t.nextId = s.nextId /\ t.online = s.online
    BY DEF Tells
  <1>3. Tokens(s.online, s.ent, s.nextId, games, s.down)
    BY DEF Settles
  <1>4. Tokens(s.online, t.ent, s.nextId, games, t.down)
    BY <1>1, <1>2, <1>3, KeepTokens
  <1> QED  BY <1>2, <1>4 DEF Settles

\* The same packets, the same entity.
LEMMA TellsSame ==
  ASSUME NEW s, Typed(s), NEW t, IsServer(t), t.down = s.down,
         t.nextId = s.nextId, t.leader = s.leader, t.online = s.online,
         t.ent # None => s.ent # None /\ t.ent.id = s.ent.id /\ t.ent.owner = s.ent.owner
  PROVE  Tells(s, t)
  <1>1. \A q \in Players : \A k : Keeps(k, s.down[q], k, t.down[q])
    BY KeepsSame
  <1> QED  BY <1>1 DEF Tells, Typed

LEMMA SendDown ==
  ASSUME NEW s, Typed(s), NEW to, NEW m \in Answers
  PROVE  LET t == Send(s, to, m)
         IN  /\ Typed(t) /\ t.ent = s.ent /\ t.nextId = s.nextId
             /\ t.leader = s.leader /\ t.where = s.where /\ t.online = s.online
             /\ t.chars = s.chars
             /\ \A q \in Players :
                  t.down[q] = IF q \in to THEN Append(s.down[q], m) ELSE s.down[q]
  <1> DEFINE d == [q \in Players |->
                     IF q \in to THEN Append(s.down[q], m) ELSE s.down[q]]
             t == Send(s, to, m)
  <1>1. t = [s EXCEPT !.down = d]
    BY DEF Send
  <1>2. \A q \in Players : d[q] = IF q \in to THEN Append(s.down[q], m) ELSE s.down[q]
    OBVIOUS
  <1> HIDE DEF d
  <1>3. t.down = d
    BY <1>1 DEF Typed, IsServer
  <1> HIDE DEF t
  <1>4. /\ IsServer(t) /\ t.ent = s.ent /\ t.nextId = s.nextId
        /\ t.leader = s.leader /\ t.where = s.where /\ t.online = s.online
        /\ t.chars = s.chars /\ t.down \in [Players -> Seq(Answers)]
    BY SendFields DEF Typed, t
  <1> QED  BY <1>2, <1>3, <1>4 DEF Typed, t

\* A packet that makes nobody an owner.
LEMMA TellsSend ==
  ASSUME NEW s, Typed(s), NEW to, NEW m \in Answers,
         Grantless(m)
  PROVE  Tells(s, Send(s, to, m))
  <1> DEFINE t == Send(s, to, m)
  <1>1. /\ Typed(t) /\ t.ent = s.ent /\ t.nextId = s.nextId /\ t.leader = s.leader
        /\ t.online = s.online
        /\ \A q \in Players :
             t.down[q] = IF q \in to THEN Append(s.down[q], m) ELSE s.down[q]
    BY SendDown
  <1> HIDE DEF t
  <1>2. ASSUME NEW q \in Players, NEW k
        PROVE  Keeps(k, s.down[q], k, t.down[q])
    <2>1. s.down[q] \in Seq(Answers)
      BY DEF Typed
    <2>2. Keeps(k, s.down[q], k, Append(s.down[q], m)) /\ Keeps(k, s.down[q], k, s.down[q])
      BY <2>1, KeepsAppend, KeepsSame
    <2> QED  BY <1>1, <2>2
  <1>3. Tells(s, t)
    BY <1>1, <1>2 DEF Tells
  <1> QED  BY <1>3 DEF t

\* OnCharacterRemoveEvent.
LEMMA RemovedTells ==
  ASSUME NEW s, Typed(s), IsEntity(s.ent)
  PROVE  Tells(s, Removed(s)) /\ Removed(s).ent = None
  <1> DEFINE m == [type |-> "Remove", id |-> s.ent.id]
             to == s.online \ {s.ent.owner}
             u == Send(s, to, m)
             t == Removed(s)
  <1>1. m \in Answers /\ Grantless(m)
    BY AnswerTypes DEF IsEntity, Grantless
  <1>2. t = [u EXCEPT !.ent = None]
    BY DEF Removed
  <1> HIDE DEF m, to
  <1>3. Tells(s, u)
    BY <1>1, TellsSend
  <1> HIDE DEF u, t
  <1>4. IsServer(t) /\ t.down = u.down /\ t.nextId = u.nextId /\ t.leader = u.leader
          /\ t.ent = None /\ t.online = u.online
    BY <1>2, <1>3 DEF Tells, Typed, IsServer
  <1>5. Tells(s, t)
    BY <1>3, <1>4 DEF Tells, Typed
  <1> QED  BY <1>4, <1>5 DEF t

LEMMA TellsTrans ==
  ASSUME NEW s, NEW u, NEW t, Tells(s, u), Tells(u, t)
  PROVE  Tells(s, t)
  <1>1. ASSUME NEW q \in Players, NEW k
        PROVE  Keeps(k, s.down[q], k, t.down[q])
    <2>1. Keeps(k, s.down[q], k, u.down[q]) /\ Keeps(k, u.down[q], k, t.down[q])
      BY DEF Tells
    <2> QED  BY <2>1, KeepsTrans
  <1> QED  BY <1>1 DEF Tells

\* OnOwnershipTransferEvent, once the owner has let go.
LEMMA TransferredTokens ==
  ASSUME NEW s, Typed(s), s.online \subseteq Players, IsEntity(s.ent),
         s.ent.id < s.nextId, NEW games, Settles(s, games), Free(s.online, s.ent.id, games, s.down),
         NEW t \in Transferred(s)
  PROVE  Settles(t, games) /\ t.leader = s.leader
  <1>1. CASE Candidates(s) = {}
    <2>1. t = Removed(s)
      BY <1>1 DEF Transferred
    <2>2. Tells(s, t)
      BY <2>1, RemovedTells
    <2> QED  BY <2>2, TellsTokens DEF Tells
  <1>2. CASE Candidates(s) # {}
    <2> DEFINE id == s.ent.id
               m == [type |-> "Transfer", id |-> id]
    <2>1. PICK q \in Candidates(s) : t = Send([s EXCEPT !.ent.owner = q], {q}, m)
      BY <1>2 DEF Transferred
    <2> DEFINE u == [s EXCEPT !.ent.owner = q]
    <2>2. q \in Players /\ q \in s.online
      BY DEF Candidates, InRange
    <2>3. /\ IsServer(u) /\ u.down = s.down /\ u.leader = s.leader /\ u.nextId = s.nextId
          /\ u.online = s.online
          /\ u.ent.id = id /\ u.ent.owner = q
      <3> DEFINE e == [s.ent EXCEPT !.owner = q]
      <3>1. u = [s EXCEPT !.ent = e]
        BY DEF Typed, IsServer
      <3>2. e.id = id /\ e.owner = q
        BY DEF IsEntity
      <3> HIDE DEF e, u
      <3> QED  BY <3>1, <3>2 DEF Typed, IsServer
    <2> HIDE DEF u
    <2>4. id \in Nat /\ m \in Answers /\ Gives(m, id)
      BY AnswerTypes DEF IsEntity, Grants, Gives
    <2>5. t = Send(u, {q}, m)
      BY <2>1 DEF u
    <2> HIDE DEF m
    <2>6. /\ t.ent = u.ent /\ t.online = s.online /\ t.nextId = s.nextId /\ t.leader = s.leader
          /\ Reaches(s.down, t.down, q, m)
      <3>1. Typed(u) /\ s.down[q] \in Seq(Answers)
        BY <2>2, <2>3 DEF Typed
      <3>2. /\ t.ent = u.ent /\ t.online = u.online /\ t.nextId = u.nextId /\ t.leader = u.leader
            /\ \A p \in Players :
                 t.down[p] = IF p \in {q} THEN Append(u.down[p], m) ELSE u.down[p]
        BY <2>4, <2>5, <3>1, SendDown
      <3>3. Reaches(s.down, t.down, q, m)
        BY <2>2, <2>3, <3>1, <3>2 DEF Reaches
      <3> QED  BY <2>3, <3>2, <3>3
    <2>7. Tokens(s.online, s.ent, s.nextId, games, s.down) /\ id < s.nextId /\ s.nextId \in Nat
      BY DEF Settles, Tokens
    <2>8. Free(s.online, id, games, s.down)
      OBVIOUS
    <2>9. t.ent.id = id /\ t.ent.owner = q /\ s.nextId <= s.nextId
      BY <2>3, <2>6, <2>7
    <2> HIDE DEF id
    <2>10. Tokens(s.online, t.ent, s.nextId, games, t.down)
      BY <2>2, <2>4, <2>6, <2>7, <2>8, <2>9, GrantTokens
    <2> QED  BY <2>6, <2>10 DEF Settles
  <1> QED  BY <1>1, <1>2

\* CreateCharacter and OnCharacterSpawned: a new entity has a new number.
LEMMA CreatedTokens ==
  ASSUME NEW s, Typed(s), s.nextId \in Nat, s.online \subseteq Players,
         NEW p \in s.online, NEW cookie \in Nat,
         NEW games, Settles(s, games)
  PROVE  LET t == Created(s, p, cookie) IN Settles(t, games) /\ t.leader = s.leader
  <1> DEFINE id == s.nextId
             e == [id |-> id, owner |-> p, invalid |-> {}]
             l == id + 1
             made == [s EXCEPT !.ent = e, !.nextId = l]
             m == [type |-> "Assigned", cookie |-> cookie, id |-> id, owner |-> TRUE]
             w == [type |-> "Spawn", id |-> id]
             first == Send(made, {p}, m)
             t == Created(s, p, cookie)
  <1>1. t = Send(first, InRange(made) \ {p}, w)
    BY DEF Created
  <1>2. m \in Answers /\ Gives(m, id) /\ w \in Answers /\ Grantless(w)
    BY AnswerTypes DEF Grants, Gives, Grantless
  <1>3. e.id = id /\ e.owner = p /\ l \in Nat /\ id < l /\ id <= l /\ id \in Nat
    OBVIOUS
  <1> HIDE DEF e, l
  <1>4. /\ IsServer(made) /\ made.down = s.down /\ made.ent = e /\ made.nextId = l
        /\ made.leader = s.leader /\ made.online = s.online
    <2> DEFINE named == [s EXCEPT !.ent = e]
    <2>1. /\ IsServer(named) /\ named.down = s.down /\ named.ent = e
          /\ named.leader = s.leader /\ named.online = s.online
      BY DEF Typed, IsServer
    <2>2. made = [named EXCEPT !.nextId = l]
      OBVIOUS
    <2> HIDE DEF named, made
    <2> QED  BY <2>1, <2>2 DEF IsServer
  <1> HIDE DEF made, m, w
  <1>5. /\ Typed(first) /\ first.ent = e /\ first.nextId = l /\ first.leader = s.leader
        /\ first.online = s.online
        /\ Reaches(s.down, first.down, p, m)
    <2>1. Typed(made) /\ s.down[p] \in Seq(Answers)
      BY <1>4 DEF Typed
    <2>2. /\ Typed(first) /\ first.ent = made.ent /\ first.nextId = made.nextId
          /\ first.leader = made.leader /\ first.online = made.online
          /\ \A q \in Players :
               first.down[q] = IF q \in {p} THEN Append(made.down[q], m) ELSE made.down[q]
      BY <1>2, <2>1, SendDown
    <2> HIDE DEF first
    <2>3. Reaches(s.down, first.down, p, m)
      BY <1>4, <2>1, <2>2 DEF Reaches
    <2> QED  BY <1>4, <2>2, <2>3
  <1>6. Tokens(s.online, s.ent, id, games, s.down) /\ Free(s.online, id, games, s.down)
    <2>1. Tokens(s.online, s.ent, id, games, s.down)
      BY DEF Settles
    <2>2. ASSUME NEW q \in s.online
          PROVE  ~Held(games[q], s.down[q], id) /\ ~Claiming(games[q].up, id)
      <3>1. ~(id < id)
        BY <1>3
      <3> HIDE DEF id
      <3> QED  BY <1>3, <2>1, <3>1 DEF Tokens
    <2> QED  BY <2>1, <2>2 DEF Free
  <1> HIDE DEF id, first
  <1>7. Tokens(s.online, first.ent, first.nextId, games, first.down)
    BY <1>2, <1>3, <1>5, <1>6, GrantTokens
  <1>8. Tells(first, t)
    BY <1>1, <1>2, <1>5, TellsSend
  <1> HIDE DEF t
  <1>s. first.online \subseteq Players
    BY <1>5
  <1>9. Settles(t, games) /\ t.leader = s.leader
    BY <1>s, <1>5, <1>7, <1>8, TellsTokens DEF Settles, Tells
  <1> QED  BY <1>9 DEF t

\* OnAssignCharacterRequest of somebody who leads no party.
LEMMA AssignTokens ==
  ASSUME NEW s, ServerSound(s), s.leader = None, NEW p \in s.online,
         NEW cookie \in Nat, NEW games, Settles(s, games)
  PROVE  LET t == Assign(s, p, cookie) IN Settles(t, games) /\ t.leader = s.leader
  <1>0. Typed(s) /\ s.nextId \in Nat /\ s.online \subseteq Players
    BY DEF ServerSound, Typed
  <1>1. CASE s.ent = None
    BY <1>0, <1>1, CreatedTokens DEF Assign
  <1>2. CASE s.ent # None
    <2> DEFINE m == [type |-> "Assigned", cookie |-> cookie,
                     id |-> s.ent.id, owner |-> FALSE]
               t == Assign(s, p, cookie)
    <2>1. ~(s.leader = p /\ ~mount)
      BY <1>0, OwnershipAssumption
    <2>2. t = Send(s, {p}, m)
      BY <1>2, <2>1 DEF Assign
    <2>3. m \in Answers /\ Grantless(m)
      BY <1>2, AnswerTypes DEF ServerSound, IsEntity, Grantless
    <2> HIDE DEF m
    <2>4. Tells(s, t)
      BY <1>0, <2>2, <2>3, TellsSend
    <2> HIDE DEF t
    <2>5. Settles(t, games) /\ t.leader = s.leader
      BY <1>0, <2>4, TellsTokens DEF Tells
    <2> QED  BY <2>5 DEF t
  <1> QED  BY <1>1, <1>2

\* HandleInteriorCellEnter.
LEMMA EnteredTells ==
  ASSUME NEW s, ServerSound(s), NEW p \in Players, NEW cell
  PROVE  Tells(s, Entered(s, p, cell))
  <1> DEFINE w == [s.where EXCEPT ![p] = cell]
             moved == [s EXCEPT !.where = w]
             m == [type |-> "Spawn", id |-> s.ent.id]
  <1>0. Typed(s) /\ (s.ent # None => s.ent.id \in Nat)
    BY DEF ServerSound, Typed, IsEntity
  <1>1. Entered(s, p, cell) \in {moved, Send(moved, {p}, m)}
          /\ (s.ent = None => Entered(s, p, cell) = moved)
    BY SMTT(60) DEF Entered
  <1> HIDE DEF w
  <1>2. /\ IsServer(moved) /\ moved.down = s.down /\ moved.nextId = s.nextId
        /\ moved.leader = s.leader /\ moved.ent = s.ent /\ moved.online = s.online
    BY <1>0 DEF Typed, IsServer
  <1> HIDE DEF moved
  <1>3. Tells(s, moved) /\ Typed(moved)
    BY <1>0, <1>2, TellsSame DEF Typed
  <1>4. CASE Entered(s, p, cell) = moved
    BY <1>3, <1>4
  <1>5. CASE Entered(s, p, cell) # moved
    <2>1. m \in Answers /\ Grantless(m) /\ Entered(s, p, cell) = Send(moved, {p}, m)
      BY <1>0, <1>1, <1>5, AnswerTypes DEF Grantless
    <2> HIDE DEF m
    <2> DEFINE t == Send(moved, {p}, m)
    <2>2. Tells(moved, t)
      BY <1>3, <2>1, TellsSend
    <2> HIDE DEF t
    <2>3. Tells(s, t)
      BY <1>3, <2>2, TellsTrans
    <2> QED  BY <2>1, <2>3 DEF t
  <1> QED  BY <1>4, <1>5

\* TransferOwnership by the owner itself tells nobody.
LEMMA ClaimedTells ==
  ASSUME NEW s, ServerSound(s), s.ent # None, NEW p, s.ent.owner = p
  PROVE  Tells(s, Claimed(s, p))
  <1> DEFINE e == [[s.ent EXCEPT !.owner = p] EXCEPT !.invalid = {}]
             t == Claimed(s, p)
  <1>1. t = [s EXCEPT !.ent = e]
    <2>1. t = [s EXCEPT !.ent.owner = p, !.ent.invalid = {}]
      BY DEF Claimed
    <2> HIDE DEF t
    <2> QED  BY <2>1 DEF ServerSound, IsServer
  <1>2. e.id = s.ent.id /\ e.owner = p
    BY DEF ServerSound, IsEntity
  <1> HIDE DEF e, t
  <1>3. /\ IsServer(t) /\ t.down = s.down /\ t.nextId = s.nextId
        /\ t.leader = s.leader /\ t.ent = e /\ t.online = s.online
    BY <1>1 DEF ServerSound, IsServer
  <1>4. Typed(s)
    BY DEF ServerSound, Typed
  <1>5. Tells(s, t)
    BY <1>2, <1>3, <1>4, TellsSame
  <1> QED  BY <1>5 DEF t

\* The refused owner is remembered.
LEMMA RefusedTells ==
  ASSUME NEW s, ServerSound(s), s.ent # None, NEW p
  PROVE  LET u == [s EXCEPT !.ent.invalid = @ \cup {p}]
         IN  /\ Tells(s, u) /\ u.online = s.online /\ u.down = s.down
             /\ IsEntity(u.ent) /\ u.ent.id = s.ent.id
  <1> DEFINE i == s.ent.invalid \cup {p}
             e == [s.ent EXCEPT !.invalid = i]
             u == [s EXCEPT !.ent.invalid = @ \cup {p}]
  <1>1. u = [s EXCEPT !.ent = e]
    BY DEF ServerSound, IsServer
  <1> HIDE DEF i
  <1>2. IsEntity(e) /\ e.id = s.ent.id /\ e.owner = s.ent.owner
    BY DEF ServerSound, IsEntity
  <1> HIDE DEF e, u
  <1>3. /\ IsServer(u) /\ u.down = s.down /\ u.nextId = s.nextId
        /\ u.leader = s.leader /\ u.ent = e /\ u.online = s.online
    BY <1>1 DEF ServerSound, IsServer
  <1>4. Typed(s)
    BY DEF ServerSound, Typed
  <1>5. Tells(s, u)
    BY <1>2, <1>3, <1>4, TellsSame
  <1> QED  BY <1>2, <1>3, <1>5 DEF u

\* Every packet of a player, when nobody leads a party.
LEMMA HandledTokens ==
  ASSUME NEW s, ServerSound(s), s.leader = None, NEW p \in s.online,
         NEW m \in Requests, NEW games, Settles(s, games),
         m.type = "Claim" /\ Has(s, m.id) => s.ent.owner = p,
         m.type = "RequestTransfer" /\ Has(s, m.id) => Free(s.online, m.id, games, s.down),
         NEW t \in Handled(s, p, m)
  PROVE  Settles(t, games)
  <1>0. Typed(s) /\ s.online \subseteq Players
    BY DEF ServerSound, Typed
  <1>1. CASE m.type = "Hello"
    <2> DEFINE a == s.chars \cup {p}
    <2>1. t = [s EXCEPT !.chars = a]
      BY <1>1 DEF Handled
    <2> HIDE DEF a
    <2>2. IsServer(t) /\ t.down = s.down /\ t.nextId = s.nextId
            /\ t.leader = s.leader /\ t.ent = s.ent /\ t.online = s.online
      BY <1>0, <2>1 DEF Typed, IsServer
    <2>3. Tells(s, t)
      BY <1>0, <2>2, TellsSame
    <2> QED  BY <1>0, <2>3, TellsTokens
  <1>2. CASE m.type = "Enter"
    <2>1. t = Entered(s, p, m.cell)
      BY <1>2 DEF Handled
    <2> QED  BY <1>0, <2>1, EnteredTells, TellsTokens
  <1>3. CASE m.type = "Assign"
    <2>1. t = Assign(s, p, m.cookie) /\ m.cookie \in Nat
      BY <1>3 DEF Handled, Requests
    <2> QED  BY <2>1, AssignTokens
  <1>4. CASE m.type = "RequestTransfer"
    <2>1. CASE ~Has(s, m.id)
      <3>1. t = s
        BY <1>4, <2>1 DEF Handled
      <3> QED  BY <3>1
    <2>2. CASE Has(s, m.id)
      <3> DEFINE u == [s EXCEPT !.ent.invalid = @ \cup {p}]
      <3>1. s.ent # None /\ s.ent.id = m.id /\ t \in Transferred(u)
        BY <1>4, <2>2 DEF Handled, Has
      <3>2. /\ Tells(s, u) /\ u.online = s.online /\ u.down = s.down
            /\ IsEntity(u.ent) /\ u.ent.id = s.ent.id
        BY <3>1, RefusedTells
      <3>3. u.ent.id < u.nextId
        BY <3>1, <3>2 DEF Settles, Tokens, Tells
      <3> HIDE DEF u
      <3>4. Typed(u) /\ Settles(u, games) /\ u.online \subseteq Players
        BY <1>0, <3>2, TellsTokens DEF Tells, ServerSound
      <3>5. Free(u.online, u.ent.id, games, u.down)
        BY <1>4, <2>2, <3>1, <3>2
      <3> QED  BY <3>1, <3>2, <3>3, <3>4, <3>5, TransferredTokens
    <2> QED  BY <2>1, <2>2
  <1>5. CASE m.type = "Claim"
    <2>1. CASE ~Has(s, m.id)
      <3>1. t = s
        BY <1>5, <2>1 DEF Handled
      <3> QED  BY <3>1
    <2>2. CASE Has(s, m.id)
      <3>1. t = Claimed(s, p) /\ s.ent # None
        BY <1>5, <2>2 DEF Handled, Has
      <3> QED  BY <1>0, <1>5, <2>2, <3>1, ClaimedTells, TellsTokens
    <2> QED  BY <2>1, <2>2
  <1>6. CASE m.type = "Mount"
    <2> DEFINE a == [type |-> "Mounted", id |-> m.id]
               to == InRange(s) \ {p}
    <2>1. a \in Answers /\ Grantless(a)
      BY <1>6, AnswerTypes DEF Requests, Grantless
    <2>2. t = s \/ t = Send(s, to, a)
      BY <1>6 DEF Handled
    <2> HIDE DEF a, to
    <2>3. Tells(s, Send(s, to, a))
      BY <1>0, <2>1, TellsSend
    <2> QED  BY <1>0, <2>2, <2>3, TellsTokens
  <1> QED  BY <1>1, <1>2, <1>3, <1>4, <1>5, <1>6 DEF Requests

\* OnDisconnection of somebody who leads no party: what the player held is left
\* to whoever gets the actor.
LEMMA DisconnectedTokens ==
  ASSUME NEW s, ServerSound(s), NEW p \in s.online, s.leader # p,
         NEW games, Settles(s, games), NEW t \in Disconnected(s, p)
  PROVE  Settles(t, games)
  <1> DEFINE on == s.online \ {p}
             w == [s.where EXCEPT ![p] = None]
             left == [s EXCEPT !.where = w]
  <1>1. PICK x \in Freed(s, p) : t = Gone(x, p)
    <2>1. PICK h \in PartyLeft(s, p) : \E x \in Freed(h, p) : t = Gone(x, p)
      BY DEF Disconnected
    <2>2. h = s
      BY <2>1, PartyLeftSound
    <2> QED  BY <2>1, <2>2
  <1>2. x \in IF s.ent = None THEN {left}
              ELSE IF p \notin s.chars /\ s.ent.id = 0 THEN {Removed(left)}
              ELSE IF s.ent.owner = p THEN Transferred(left)
              ELSE {left}
    BY DEF Freed
  <1> HIDE DEF w
  <1>3. /\ IsServer(left) /\ left.online = s.online /\ left.ent = s.ent
        /\ left.nextId = s.nextId /\ left.down = s.down /\ left.leader = s.leader
    BY SMTT(60) DEF ServerSound, IsServer
  <1> HIDE DEF left
  <1>4. /\ Typed(left) /\ (s.ent # None => IsEntity(s.ent)) /\ s.nextId \in Nat
        /\ s.down \in [Players -> Seq(Answers)] /\ p \in Players
        /\ s.online \subseteq Players /\ on \subseteq Players
    BY <1>3 DEF ServerSound, Typed
  <1>5. Tokens(s.online, s.ent, s.nextId, games, s.down)
    BY DEF Settles
  <1>6. Tokens(on, s.ent, s.nextId, games, s.down)
    <2>1. \A q \in on : Keeps(games[q], s.down[q], games[q], s.down[q])
      BY KeepsSame
    <2>2. s.ent # None => s.ent # None /\ s.ent.id = s.ent.id /\ s.ent.owner = s.ent.owner
      OBVIOUS
    <2>3. on \subseteq s.online
      OBVIOUS
    <2> HIDE DEF on
    <2> QED  BY <1>5, <2>1, <2>2, <2>3, KeepTokens
  <1>f. s.ent # None /\ s.ent.owner = p => Free(on, s.ent.id, games, s.down)
    BY <1>5 DEF Tokens, Free
  <1>7. ASSUME Typed(x), x.nextId = s.nextId, x.online = s.online,
               Tokens(on, x.ent, s.nextId, games, x.down)
        PROVE  Settles(t, games)
    <2>1. /\ t.online = on /\ t.down = x.down /\ t.nextId = s.nextId
          /\ t.ent # None => x.ent # None /\ t.ent.id = x.ent.id /\ t.ent.owner = x.ent.owner
      BY <1>1, <1>7, GoneFields DEF Typed
    <2>2. \A q \in on : Keeps(games[q], x.down[q], games[q], x.down[q])
      BY KeepsSame
    <2>3. on \subseteq on
      OBVIOUS
    <2> HIDE DEF on
    <2>4. Tokens(on, t.ent, s.nextId, games, x.down)
      BY <1>7, <2>1, <2>2, <2>3, KeepTokens
    <2> QED  BY <2>1, <2>4 DEF Settles
  <1> HIDE DEF on
  <1>8. CASE Tells(left, x)
    <2>1. /\ Typed(x) /\ x.nextId = s.nextId /\ x.online = s.online
          /\ x.ent # None => s.ent # None /\ x.ent.id = s.ent.id /\ x.ent.owner = s.ent.owner
          /\ \A q \in Players : \A k : Keeps(k, s.down[q], k, x.down[q])
      BY <1>3, <1>8 DEF Tells
    <2>2. \A q \in on : Keeps(games[q], s.down[q], games[q], x.down[q])
      BY <1>4, <2>1
    <2>3. on \subseteq on
      OBVIOUS
    <2>4. Tokens(on, x.ent, s.nextId, games, x.down)
      BY <1>6, <2>1, <2>2, <2>3, KeepTokens
    <2> QED  BY <1>7, <2>1, <2>4
  <1>9. CASE x = left
    <2>1. Tells(left, x)
      BY <1>3, <1>4, <1>9, TellsSame
    <2> QED  BY <1>8, <2>1
  <1>10. CASE x = Removed(left) /\ s.ent # None
    <2>1. Tells(left, x)
      BY <1>3, <1>4, <1>10, RemovedTells
    <2> QED  BY <1>8, <2>1
  <1>11. CASE s.ent # None /\ s.ent.owner = p /\ x \in Transferred(left)
    <2>1. CASE Candidates(left) = {}
      <3>1. x = Removed(left)
        BY <1>11, <2>1 DEF Transferred
      <3> QED  BY <1>10, <1>11, <3>1
    <2>2. CASE Candidates(left) # {}
      <3> DEFINE id == s.ent.id
                 m == [type |-> "Transfer", id |-> id]
      <3>1. PICK q \in Candidates(left) : x = Send([left EXCEPT !.ent.owner = q], {q}, m)
        BY <1>3, <1>11, <2>2 DEF Transferred
      <3> DEFINE u == [left EXCEPT !.ent.owner = q]
      <3>2. q \in Players /\ q \in on
        BY <1>3, <1>4, <1>11 DEF Candidates, InRange, on
      <3>3. /\ IsServer(u) /\ u.down = s.down /\ u.nextId = s.nextId
            /\ u.online = s.online /\ u.ent.id = id /\ u.ent.owner = q
        <4> DEFINE e == [s.ent EXCEPT !.owner = q]
        <4>1. u = [left EXCEPT !.ent = e]
          BY <1>3 DEF IsServer
        <4>2. e.id = id /\ e.owner = q
          BY <1>4, <1>11 DEF IsEntity
        <4> HIDE DEF e, u
        <4> QED  BY <1>3, <4>1, <4>2 DEF IsServer
      <3> HIDE DEF u
      <3>4. id \in Nat /\ m \in Answers /\ Gives(m, id)
        BY <1>4, <1>11, AnswerTypes DEF IsEntity, Grants, Gives
      <3>5. x = Send(u, {q}, m)
        BY <3>1 DEF u
      <3> HIDE DEF m
      <3>6. /\ Typed(x) /\ x.ent = u.ent /\ x.nextId = u.nextId /\ x.online = u.online
            /\ \A r \in Players :
                 x.down[r] = IF r \in {q} THEN Append(u.down[r], m) ELSE u.down[r]
        <4>1. Typed(u)
          BY <1>4, <3>3 DEF Typed
        <4> QED  BY <3>4, <3>5, <4>1, SendDown
      <3>7. Reaches(s.down, x.down, q, m)
        <4>1. s.down[q] \in Seq(Answers) /\ x.down[q] = Append(s.down[q], m)
          BY <1>4, <3>2, <3>3, <3>6
        <4>2. \A r \in Players \ {q} : x.down[r] = s.down[r]
          BY <3>2, <3>3, <3>6
        <4> QED  BY <4>1, <4>2 DEF Reaches
      <3>8. x.ent # None => x.ent.id = id /\ x.ent.owner = q
        BY <3>3, <3>6
      <3>9. id < s.nextId /\ s.nextId <= s.nextId /\ Free(on, id, games, s.down)
        <4>1. s.nextId <= s.nextId
          BY <1>4
        <4> QED  BY <1>6, <1>11, <1>f, <4>1 DEF Tokens
      <3> HIDE DEF id
      <3>10. Tokens(on, x.ent, s.nextId, games, x.down)
        BY <1>4, <1>6, <3>2, <3>4, <3>7, <3>8, <3>9, GrantTokens
      <3> QED  BY <1>7, <3>3, <3>6, <3>10
    <2> QED  BY <2>1, <2>2
  <1> QED  BY <1>2, <1>9, <1>10, <1>11

-----------------------------------------------------------------------------
\* A packet of a player makes nobody a leader.
LEMMA TransferredLeader ==
  ASSUME NEW s, Typed(s), IsEntity(s.ent), NEW t \in Transferred(s)
  PROVE  t.leader = s.leader
  <1>1. CASE Candidates(s) = {}
    BY <1>1, RemovedTells DEF Transferred, Tells
  <1>2. CASE Candidates(s) # {}
    <2> DEFINE m == [type |-> "Transfer", id |-> s.ent.id]
    <2>1. PICK q : t = Send([s EXCEPT !.ent.owner = q], {q}, m)
      BY <1>2 DEF Transferred
    <2> DEFINE u == [s EXCEPT !.ent.owner = q]
    <2>2. Typed(u) /\ u.leader = s.leader
      BY DEF Typed, IsServer
    <2>3. m \in Answers /\ t = Send(u, {q}, m)
      BY <2>1, AnswerTypes DEF IsEntity
    <2> HIDE DEF u, m
    <2> QED  BY <2>2, <2>3, SendDown
  <1> QED  BY <1>1, <1>2

\* Nor does the hand-on of a leaving player's actor.
LEMMA FreedLeader ==
  ASSUME NEW s, ServerSound(s), NEW p \in s.online, NEW x \in Freed(s, p)
  PROVE  x.leader = s.leader
  <1> DEFINE w == [s.where EXCEPT ![p] = None]
             left == [s EXCEPT !.where = w]
  <1>1. \/ x = left
        \/ s.ent # None /\ x = Removed(left)
        \/ s.ent # None /\ x \in Transferred(left)
    BY DEF Freed
  <1> HIDE DEF w
  <1>2. /\ IsServer(left) /\ left.ent = s.ent /\ left.down = s.down
        /\ left.leader = s.leader
    BY SMTT(60) DEF ServerSound, IsServer
  <1> HIDE DEF left
  <1>3. Typed(left) /\ (s.ent # None => IsEntity(left.ent))
    BY <1>2 DEF ServerSound, Typed
  <1>4. s.ent # None => Removed(left).leader = s.leader
    BY <1>2, <1>3, RemovedTells DEF Tells
  <1>5. s.ent # None /\ x \in Transferred(left) => x.leader = s.leader
    BY <1>2, <1>3, TransferredLeader
  <1> QED  BY <1>1, <1>2, <1>4, <1>5

LEMMA ClaimedLeader ==
  ASSUME NEW s, ServerSound(s), s.ent # None, NEW p
  PROVE  Typed(Claimed(s, p)) /\ Claimed(s, p).leader = s.leader
  <1> DEFINE m == [type |-> "Relinquish", id |-> s.ent.id]
             told == IF s.ent.owner = p THEN s ELSE Send(s, {s.ent.owner}, m)
             t == Claimed(s, p)
  <1>1. Typed(told) /\ told.leader = s.leader
    <2>1. m \in Answers /\ Typed(s)
      BY AnswerTypes DEF ServerSound, IsEntity, Typed
    <2> HIDE DEF m
    <2> QED  BY <2>1, SendDown
  <1>2. t = [told EXCEPT !.ent.owner = p, !.ent.invalid = {}]
    BY DEF Claimed
  <1> HIDE DEF told, t
  <1>3. Typed(t) /\ t.leader = told.leader
    BY <1>1, <1>2 DEF Typed, IsServer
  <1> QED  BY <1>1, <1>3 DEF t

LEMMA CreatedLeader ==
  ASSUME NEW s, Typed(s), s.nextId \in Nat, NEW p, NEW cookie \in Nat
  PROVE  Created(s, p, cookie).leader = s.leader
  <1> DEFINE id == s.nextId
             e == [id |-> id, owner |-> p, invalid |-> {}]
             l == id + 1
             made == [s EXCEPT !.ent = e, !.nextId = l]
             m == [type |-> "Assigned", cookie |-> cookie, id |-> id, owner |-> TRUE]
             w == [type |-> "Spawn", id |-> id]
             first == Send(made, {p}, m)
             t == Created(s, p, cookie)
  <1>1. t = Send(first, InRange(made) \ {p}, w) /\ m \in Answers /\ w \in Answers
    BY AnswerTypes DEF Created
  <1> HIDE DEF e, l
  <1>2. Typed(made) /\ made.leader = s.leader
    <2> DEFINE named == [s EXCEPT !.ent = e]
    <2>1. Typed(named) /\ named.leader = s.leader
      BY DEF Typed, IsServer
    <2>2. made = [named EXCEPT !.nextId = l]
      OBVIOUS
    <2> HIDE DEF named, made
    <2> QED  BY <2>1, <2>2 DEF Typed, IsServer
  <1> HIDE DEF made, m, w
  <1>3. Typed(first) /\ first.leader = s.leader
    BY <1>1, <1>2, SendDown
  <1> HIDE DEF first, t
  <1>4. t.leader = s.leader
    BY <1>1, <1>3, SendDown
  <1> QED  BY <1>4 DEF t

LEMMA HandledLeader ==
  ASSUME NEW s, ServerSound(s), NEW p \in Players, NEW m \in Requests,
         NEW t \in Handled(s, p, m)
  PROVE  t.leader = s.leader
  <1>0. Typed(s) /\ s.nextId \in Nat
    BY DEF ServerSound, Typed
  <1>1. CASE m.type = "Hello"
    BY <1>0, <1>1 DEF Handled, Typed, IsServer
  <1>2. CASE m.type = "Enter"
    BY <1>2, EnteredTells DEF Handled, Tells
  <1>3. CASE m.type = "Assign"
    <2>1. t = Assign(s, p, m.cookie) /\ m.cookie \in Nat
      BY <1>3 DEF Handled, Requests
    <2>2. CASE s.ent = None
      <3>1. t = Created(s, p, m.cookie)
        BY <2>1, <2>2 DEF Assign
      <3> QED  BY <1>0, <2>1, <3>1, CreatedLeader
    <2>3. CASE s.ent # None
      <3> DEFINE mine == s.leader = p /\ ~mount
                 kept == IF mine THEN Claimed(s, p) ELSE s
                 a == [type |-> "Assigned", cookie |-> m.cookie,
                       id |-> s.ent.id, owner |-> mine]
      <3>1. t = Send(kept, {p}, a)
        BY <2>1, <2>3 DEF Assign
      <3>2. mine \in BOOLEAN /\ s.ent.id \in Nat
        BY <2>3 DEF ServerSound, IsEntity
      <3>3. Typed(kept) /\ kept.leader = s.leader
        BY <1>0, <2>3, ClaimedLeader
      <3> HIDE DEF kept, mine
      <3>4. a \in Answers
        BY <2>1, <3>2, AnswerTypes
      <3> HIDE DEF a
      <3> QED  BY <3>1, <3>3, <3>4, SendDown
    <2> QED  BY <2>2, <2>3
  <1>4. CASE m.type = "RequestTransfer"
    <2>1. CASE ~Has(s, m.id)
      BY <1>4, <2>1 DEF Handled
    <2>2. CASE Has(s, m.id)
      <3> DEFINE u == [s EXCEPT !.ent.invalid = @ \cup {p}]
      <3>1. s.ent # None /\ t \in Transferred(u)
        BY <1>4, <2>2 DEF Handled, Has
      <3>2. Tells(s, u) /\ IsEntity(u.ent)
        BY <3>1, RefusedTells
      <3> HIDE DEF u
      <3> QED  BY <3>1, <3>2, TransferredLeader DEF Tells
    <2> QED  BY <2>1, <2>2
  <1>5. CASE m.type = "Claim"
    BY <1>5, ClaimedLeader DEF Handled, Has
  <1>6. CASE m.type = "Mount"
    <2> DEFINE a == [type |-> "Mounted", id |-> m.id]
               to == InRange(s) \ {p}
    <2>1. a \in Answers
      BY <1>6, AnswerTypes DEF Requests
    <2>2. t = s \/ t = Send(s, to, a)
      BY <1>6 DEF Handled
    <2> HIDE DEF a, to
    <2> QED  BY <1>0, <2>1, <2>2, SendDown
  <1> QED  BY <1>1, <1>2, <1>3, <1>4, <1>5, <1>6 DEF Requests

\* What the invariant is about: while nobody leads a party and the actor is no
\* mount, every entity has at most one holder.
Sole == HandedOnOnly => Settles(srv, cl)
OwnershipInv == Consistent /\ Sole

\* One game changes.
LEMMA GameTokens ==
  ASSUME NEW s, s.online \subseteq Players,
         NEW t, NEW games, games = [q \in Players |-> games[q]],
         Settles(s, games), NEW p \in Players, NEW n,
         t.nextId = s.nextId, t.online = s.online,
         t.ent # None => s.ent # None /\ t.ent.id = s.ent.id /\ t.ent.owner = s.ent.owner,
         p \in s.online => Keeps(games[p], s.down[p], n, t.down[p]),
         \A q \in Players \ {p} : t.down[q] = s.down[q]
  PROVE  Settles(t, [games EXCEPT ![p] = n])
  <1> DEFINE others == [games EXCEPT ![p] = n]
  <1>1. others[p] = n /\ \A q \in Players \ {p} : others[q] = games[q]
    OBVIOUS
  <1> HIDE DEF others
  <1>2. ASSUME NEW q \in s.online
        PROVE  Keeps(games[q], s.down[q], others[q], t.down[q])
    <2>1. CASE q = p
      BY <1>1, <2>1
    <2>2. CASE q # p
      <3>1. others[q] = games[q] /\ t.down[q] = s.down[q]
        BY <1>1, <2>2
      <3> QED  BY <3>1, KeepsSame
    <2> QED  BY <2>1, <2>2
  <1>3. Tokens(s.online, s.ent, s.nextId, games, s.down) /\ s.online \subseteq s.online
    BY DEF Settles
  <1>4. Tokens(s.online, t.ent, s.nextId, others, t.down)
    BY <1>2, <1>3, KeepTokens
  <1> QED  BY <1>4 DEF Settles, others

\* When everybody has left nobody holds anything.
LEMMA NobodyHolds ==
  ASSUME NEW s, ServerSound(s), s.online = {}, NEW games
  PROVE  Settles(s, games)
  <1>1. s.ent = None /\ s.nextId \in Nat
    BY DEF ServerSound
  <1> QED  BY <1>1 DEF Settles, Tokens

\* A severed game over a new connection holds nothing.
LEMMA FreshHolds ==
  ASSUME NEW k, Severed(k), k.up = <<>>
  PROVE  /\ Follows(k, <<>>)
         /\ \A id \in Nat : /\ HeldOnce(k, <<>>, id)
                            /\ ~Held(k, <<>>, id) /\ ~Claiming(k.up, id)
  <1>1. ASSUME NEW id \in Nat
        PROVE  /\ ~Simulated(k.ents, id) /\ ~Asked(<<>>, id) /\ ~Claiming(<<>>, id)
               /\ ~Granted(<<>>, id) /\ InOrder(<<>>, id) /\ OneGrant(<<>>, id)
               /\ OneActor(k.ents, id)
    <2>1. id # None
      BY OwnershipAssumption
    <2> QED  BY <2>1 DEF Severed, Simulated, Asked, Claiming, Granted, InOrder,
                         OneGrant, OneActor
  <1>2. Follows(k, <<>>)
    BY DEF Follows, Ordinary, Severed
  <1> QED  BY <1>1, <1>2 DEF Held, HeldOnce

\* DiscoveryService and CharacterService of a game that comes back.
LEMMA ConnectKeeps ==
  ASSUME NEW p \in Players, Connect(p), ClientTyped(cl[p]), ~cl[p].leads, NEW d,
         NEW g, g.ents = cl[p].ents, g.up = <<>>, ~g.leads
  PROVE  \E n : cl' = [cl EXCEPT ![p] = n] /\ Keeps(g, d, n, d)
  <1> DEFINE k == cl[p]
             m1 == [type |-> "Enter", cell |-> k.here]
             m2 == [type |-> "Hello"]
             yes == TRUE
             v == <<>>
             on == [k EXCEPT !.online = yes, !.up = v]
             i == Post(on, m1)
             j == Post(i, m2)
  <1>1. PICK n : /\ cl' = [cl EXCEPT ![p] = n]
                 /\ n = j \/ \E e \in Loaded(p) : n = ProcessNewEntity(j, e)
    <2>1. cl' = [cl EXCEPT ![p] =
            IF Loaded(p) = {} THEN j
            ELSE ProcessNewEntity(j, CHOOSE e \in Loaded(p) : TRUE)]
      BY DEF Connect
    <2>2. Loaded(p) # {} => (CHOOSE e \in Loaded(p) : TRUE) \in Loaded(p)
      OBVIOUS
    <2> HIDE DEF j
    <2> QED  BY <2>1, <2>2
  <1>2. Loaded(p) \subseteq Actors
    BY DEF Loaded, ClientTyped
  <1>3. ClientTyped(k) /\ ~k.leads /\ g.ents = k.ents
    OBVIOUS
  <1> HIDE DEF k
  <1>4. /\ m1 \in Requests /\ m1.type \notin {"Claim", "RequestTransfer"}
        /\ m2 \in Requests /\ m2.type \notin {"Claim", "RequestTransfer"}
    BY <1>3, RequestTypes DEF ClientTyped
  <1>5. ClientTyped(on) /\ on.online = TRUE /\ Keeps(g, d, on, d) /\ on.leads = k.leads
    <2>1. yes \in BOOLEAN /\ v \in Seq(Requests) /\ g.up = v
      OBVIOUS
    <2> HIDE DEF yes, v
    <2> DEFINE on1 == [k EXCEPT !.online = yes]
    <2>5. /\ IsClient(on1) /\ on1.online = yes /\ on1.here = k.here
          /\ on1.leads = k.leads /\ on1.cookie = k.cookie /\ on1.ents = k.ents
      BY <1>3 DEF ClientTyped, IsClient
    <2>6. on = [on1 EXCEPT !.up = v]
      OBVIOUS
    <2> HIDE DEF on1, on
    <2>2. /\ IsClient(on) /\ on.online = yes /\ on.here = k.here /\ on.leads = k.leads
          /\ on.cookie = k.cookie /\ on.ents = k.ents /\ on.up = v
      BY <2>5, <2>6 DEF IsClient
    <2>3. ClientTyped(on)
      BY <1>3, <2>1, <2>2 DEF ClientTyped
    <2>4. Keeps(g, d, on, d)
      BY <1>3, <2>1, <2>2, KeepsSame
    <2> QED  BY <2>2, <2>3, <2>4 DEF yes
  <1> HIDE DEF m1, m2, on, v
  <1>6. ASSUME NEW o, ClientTyped(o), NEW m \in Requests,
               m.type \notin {"Claim", "RequestTransfer"}
        PROVE  /\ ClientTyped(Post(o, m)) /\ Post(o, m).online = o.online
               /\ Post(o, m).leads = o.leads /\ Keeps(o, d, Post(o, m), d)
    <2> DEFINE h == Post(o, m)
    <2>1. IsClient(o) /\ o.up \in Seq(Requests)
      BY <1>6 DEF ClientTyped
    <2>2. h.up = Append(o.up, m) /\ h.leads = o.leads /\ h.ents = o.ents /\ h.online = o.online
      BY <2>1, PostFields
    <2>3. ClientTyped(h)
      BY <1>6, PostTyped DEF Kept
    <2> HIDE DEF h
    <2>4. Keeps(o, d, h, d)
      BY <1>6, <2>1, <2>2, KeepsPost
    <2> QED  BY <2>2, <2>3, <2>4 DEF h
  <1>7. ClientTyped(i) /\ i.online = TRUE /\ i.leads = k.leads /\ Keeps(on, d, i, d)
    BY <1>4, <1>5, <1>6
  <1> HIDE DEF i
  <1>8. ClientTyped(j) /\ j.online = TRUE /\ j.leads = k.leads /\ Keeps(i, d, j, d)
    BY <1>4, <1>6, <1>7
  <1> HIDE DEF j
  <1>9. Keeps(g, d, j, d)
    BY <1>5, <1>7, <1>8, KeepsTrans
  <1>10. CASE n = j
    BY <1>1, <1>8, <1>9, <1>10 DEF k
  <1>11. CASE n # j
    <2>1. PICK e \in Loaded(p) : n = ProcessNewEntity(j, e)
      BY <1>1, <1>11
    <2>3. Keeps(j, d, n, d)
      BY <1>2, <1>3, <1>8, <2>1, ProcessNewEntityKeeps
    <2>4. Keeps(g, d, n, d)
      BY <1>9, <2>3, KeepsTrans
    <2> QED  BY <1>1, <2>4 DEF k
  <1> QED  BY <1>10, <1>11

\* What a game does by itself: it walks, and its engine loads and unloads the
\* actor.
LEMMA LocalKeeps ==
  ASSUME NEW p \in Players, ClientTyped(cl[p]), ~cl[p].leads, NEW d,
         (\E cell \in Cells : Walk(p, cell)) \/ ActorAdded(p) \/ ActorRemoved(p)
  PROVE  \E n : cl' = [cl EXCEPT ![p] = n] /\ Keeps(cl[p], d, n, d)
  <1>1. ASSUME NEW cell \in Cells, Walk(p, cell)
        PROVE  \E n : cl' = [cl EXCEPT ![p] = n] /\ Keeps(cl[p], d, n, d)
    <2> DEFINE k == cl[p]
               here == [k EXCEPT !.here = cell]
               m == [type |-> "Enter", cell |-> cell]
               n == IF here.online THEN Post(here, m) ELSE here
    <2>1. cl' = [cl EXCEPT ![p] = n]
      BY <1>1 DEF Walk
    <2>2. ClientTyped(k)
      OBVIOUS
    <2> HIDE DEF k
    <2>3. /\ IsClient(here) /\ here.ents = k.ents /\ here.up = k.up
          /\ here.leads = k.leads /\ here.up \in Seq(Requests)
      BY <2>2 DEF ClientTyped, IsClient
    <2>4. m \in Requests /\ m.type \notin {"Claim", "RequestTransfer"}
      BY RequestTypes
    <2> HIDE DEF here, m
    <2>5. Keeps(k, d, here, d)
      BY <2>3, KeepsSame
    <2> DEFINE h == Post(here, m)
    <2>6. h.up = Append(here.up, m) /\ h.leads = here.leads /\ h.ents = here.ents
      BY <2>3, PostFields
    <2>7. n = h \/ n = here
      OBVIOUS
    <2> HIDE DEF h, n
    <2>8. Keeps(here, d, h, d)
      BY <2>3, <2>4, <2>6, KeepsPost
    <2>9. Keeps(k, d, n, d)
      BY <2>5, <2>7, <2>8, KeepsTrans
    <2> QED  BY <2>1, <2>9 DEF k
  <1>2. CASE ActorAdded(p)
    <2>1. PICK n \in ActorAddedTo(cl[p]) : cl' = [cl EXCEPT ![p] = n]
      BY <1>2 DEF ActorAdded
    <2> QED  BY <2>1, ActorAddedKeeps
  <1>3. CASE ActorRemoved(p)
    <2>1. PICK e \in cl[p].ents : cl' = [cl EXCEPT ![p] = ActorRemovedFrom(cl[p], e)]
      BY <1>3 DEF ActorRemoved, Loaded
    <2> QED  BY <2>1, ActorRemovedKeeps
  <1> QED  BY <1>1, <1>2, <1>3

\* The server handles a packet: who asks to hand an entity on has let it go.
LEMMA ServeTokens ==
  ASSUME Consistent, srv.leader = None, Settles(srv, cl), NEW p \in Players, Serve(p)
  PROVE  Settles(srv', cl')
  <1> DEFINE k == cl[p]
             u == Tail(k.up)
             n == [k EXCEPT !.up = u]
             m == Head(k.up)
             games == [cl EXCEPT ![p] = n]
  <1>1. k.up # <<>> /\ srv' \in Handled(srv, p, m) /\ cl' = games
    BY DEF Serve
  <1>2. /\ ClientTyped(k) /\ ServerSound(srv) /\ cl = [q \in Players |-> cl[q]]
        /\ k.up \in Seq(Requests) /\ IsClient(k)
        /\ p \in srv.online /\ srv.online \subseteq Players
    BY DEF Consistent, ClientTyped, ServerSound, Serve
  <1>3. m \in Requests
    BY <1>1, <1>2
  <1>4. n.ents = k.ents /\ n.up = Tail(k.up) /\ n.leads = k.leads
    <2> HIDE DEF k, u
    <2>1. n.ents = k.ents /\ n.up = u /\ n.leads = k.leads
      BY <1>2 DEF IsClient
    <2> QED  BY <2>1 DEF u
  <1>5. games[p] = n /\ \A q \in Players \ {p} : games[q] = cl[q]
    <2> HIDE DEF n
    <2> QED  BY <1>2
  <1> HIDE DEF n, u
  <1>6. /\ Keeps(k, srv.down[p], n, srv.down[p])
        /\ \A id \in Nat : HeldOnce(k, srv.down[p], id) /\ Asks(Head(k.up), id)
             => Held(k, srv.down[p], id) /\ ~Held(n, srv.down[p], id) /\ ~Claiming(n.up, id)
    BY <1>1, <1>2, <1>4, KeepsServe, ZenonT(60)
  <1>7. Settles(srv, games)
    BY <1>2, <1>6, GameTokens
  <1> HIDE DEF games
  <1>8. Tokens(srv.online, srv.ent, srv.nextId, cl, srv.down)
    BY DEF Settles
  <1>9. ASSUME m.type = "Claim", Has(srv, m.id)
        PROVE  srv.ent.owner = p
    <2>1. m.id \in Nat /\ Claims(m, m.id)
      BY <1>3, <1>9 DEF Requests, Claims
    <2>2. Claiming(k.up, m.id) /\ p \in srv.online
      BY <1>1, <1>2, <2>1, UpTail
    <2> QED  BY <1>8, <1>9, <2>1, <2>2 DEF Tokens, Has
  <1>10. ASSUME m.type = "RequestTransfer", Has(srv, m.id)
         PROVE  Free(srv.online, m.id, games, srv.down)
    <2> DEFINE id == m.id
    <2>1. id \in Nat /\ Asks(Head(k.up), id)
      BY <1>3, <1>10 DEF Requests, Asks
    <2>2. HeldOnce(k, srv.down[p], id)
      BY <1>2, <1>8, <2>1 DEF Tokens
    <2>3. Held(k, srv.down[p], id) /\ ~Held(n, srv.down[p], id) /\ ~Claiming(n.up, id)
      BY <1>6, <2>1, <2>2
    <2>4. srv.ent # None /\ srv.ent.id = id
      BY <1>10 DEF Has
    <2> HIDE DEF id
    <2>5. srv.ent.owner = p
      BY <1>2, <1>8, <2>1, <2>3, <2>4 DEF Tokens
    <2>6. ASSUME NEW q \in srv.online \ {p}
          PROVE  ~Held(cl[q], srv.down[q], id) /\ ~Claiming(cl[q].up, id)
      BY <1>8, <2>1, <2>4, <2>5 DEF Tokens
    <2>7. Free(srv.online, id, games, srv.down)
      <3>1. ASSUME NEW q \in srv.online
            PROVE  ~Held(games[q], srv.down[q], id) /\ ~Claiming(games[q].up, id)
        BY <1>2, <1>5, <2>3, <2>6
      <3> QED  BY <3>1 DEF Free
    <2> QED  BY <2>7 DEF id
  <1> HIDE DEF m, k
  <1>11. Settles(srv', games)
    BY <1>1, <1>2, <1>3, <1>7, <1>9, <1>10, HandledTokens
  <1> QED  BY <1>1, <1>11

\* A game reads a packet.
LEMMA ReceiveTokens ==
  ASSUME Consistent, Settles(srv, cl), NEW p \in Players, Receive(p)
  PROVE  Settles(srv', cl') /\ srv'.leader = srv.leader
  <1> DEFINE c == Tail(srv.down[p])
             d == [srv.down EXCEPT ![p] = c]
  <1>1. PICK n \in Received(cl[p], Head(srv.down[p])) :
          /\ srv.down[p] # <<>>
          /\ cl' = [cl EXCEPT ![p] = n]
          /\ srv' = [srv EXCEPT !.down = d]
    BY DEF Receive
  <1>2. /\ ClientTyped(cl[p]) /\ ServerSound(srv) /\ cl = [q \in Players |-> cl[q]]
        /\ srv.down \in [Players -> Seq(Answers)] /\ srv.online \subseteq Players
    BY DEF Consistent, ServerSound
  <1>3. srv.down[p] \in Seq(Answers)
    BY <1>2
  <1>4. d[p] = c /\ \A q \in Players \ {p} : d[q] = srv.down[q]
    BY <1>2
  <1> HIDE DEF d
  <1>5. /\ srv'.down = d /\ srv'.nextId = srv.nextId /\ srv'.ent = srv.ent
        /\ srv'.leader = srv.leader /\ srv'.online = srv.online
    BY <1>1, <1>2 DEF ServerSound, IsServer
  <1>6. p \in srv.online => Follows(cl[p], srv.down[p])
    BY DEF Settles, Tokens
  <1>7. p \in srv.online => Keeps(cl[p], srv.down[p], n, c)
    BY <1>1, <1>2, <1>3, <1>6, ReceivedKeeps
  <1> HIDE DEF c
  <1> DEFINE t == srv'
  <1>8. /\ t.nextId = srv.nextId /\ t.online = srv.online
        /\ t.ent # None => srv.ent # None /\ t.ent.id = srv.ent.id /\ t.ent.owner = srv.ent.owner
        /\ p \in srv.online => Keeps(cl[p], srv.down[p], n, t.down[p])
        /\ \A q \in Players \ {p} : t.down[q] = srv.down[q]
    BY <1>4, <1>5, <1>7
  <1> HIDE DEF t
  <1>9. Settles(t, [cl EXCEPT ![p] = n])
    BY <1>2, <1>8, GameTokens
  <1> QED  BY <1>1, <1>5, <1>9 DEF t

\* A player comes back over a new connection, perhaps in the place of a ghost.
LEMMA ConnectTokens ==
  ASSUME Consistent, Settles(srv, cl), NEW p \in Players, Connect(p)
  PROVE  Settles(srv', cl')
  <1> DEFINE k == cl[p]
             v == <<>>
             g == [k EXCEPT !.up = v]
             o == srv.online \cup {p}
             d == [srv.down EXCEPT ![p] = v]
             named == [srv EXCEPT !.online = o]
             known == [named EXCEPT !.down = d]
             i == (known.ent.invalid \ {Ghost}) \cup {p}
             e == [known.ent EXCEPT !.invalid = i]
  <1>1. /\ ClientTyped(k) /\ Severed(k) /\ IsServer(srv) /\ p \notin srv.online
        /\ cl = [q \in Players |-> cl[q]] /\ (srv.ent # None => IsEntity(srv.ent))
        /\ srv.down \in [Players -> Seq(Answers)] /\ srv.online \subseteq Players
    BY DEF Connect, Consistent, ServerSound
  <1>2. g.ents = k.ents /\ g.up = <<>> /\ g.leads = k.leads
    <2> HIDE DEF k
    <2>1. g.ents = k.ents /\ g.up = v /\ g.leads = k.leads
      BY <1>1 DEF ClientTyped, IsClient
    <2> QED  BY <2>1
  <1> HIDE DEF g
  <1>3. Severed(g) /\ ~k.leads
    BY <1>1, <1>2 DEF Severed
  <1>4. PICK n : cl' = [cl EXCEPT ![p] = n] /\ Keeps(g, <<>>, n, <<>>)
    BY <1>1, <1>2, <1>3, ConnectKeeps
  <1>5. /\ Follows(n, <<>>)
        /\ \A id \in Nat : HeldOnce(n, <<>>, id) /\ ~Held(n, <<>>, id) /\ ~Claiming(n.up, id)
    BY <1>2, <1>3, <1>4, FreshHolds DEF Keeps
  <1>6. srv' = known \/ (srv.ent # None /\ srv' = [known EXCEPT !.ent.invalid = i])
    BY DEF Connect
  <1>7. d[p] = <<>> /\ \A q \in Players \ {p} : d[q] = srv.down[q]
    BY <1>1
  <1> HIDE DEF o, d, k
  <1>8. /\ IsServer(known) /\ known.ent = srv.ent /\ known.nextId = srv.nextId
        /\ known.down = d /\ known.online = o
    <2>1. /\ IsServer(named) /\ named.ent = srv.ent /\ named.nextId = srv.nextId
          /\ named.online = o
      BY <1>1 DEF IsServer
    <2> HIDE DEF named
    <2> QED  BY <2>1 DEF IsServer
  <1> HIDE DEF known, i
  <1>9. srv' = known \/ (srv.ent # None /\ srv' = [known EXCEPT !.ent = e])
    BY <1>6, <1>8 DEF IsServer
  <1>10. srv.ent # None => e.id = srv.ent.id /\ e.owner = srv.ent.owner
    BY <1>1, <1>8 DEF IsEntity
  <1> HIDE DEF e
  <1>11. /\ srv'.down = d /\ srv'.nextId = srv.nextId /\ srv'.online = o
         /\ srv'.ent # None => /\ srv.ent # None /\ srv'.ent.id = srv.ent.id
                               /\ srv'.ent.owner = srv.ent.owner
    BY <1>8, <1>9, <1>10 DEF IsServer
  <1> DEFINE others == [cl EXCEPT ![p] = n]
  <1>12. others[p] = n /\ \A q \in srv.online : others[q] = cl[q] /\ d[q] = srv.down[q]
    BY <1>1, <1>7
  <1> HIDE DEF others
  <1>13. Tokens(srv.online, srv.ent, srv.nextId, cl, srv.down)
    BY DEF Settles
  <1> DEFINE f == srv'.ent
  <1>14. f # None => srv.ent # None /\ f.id = srv.ent.id /\ f.owner = srv.ent.owner
    BY <1>11
  <1> HIDE DEF f
  <1>15. Tokens(srv.online \cup {p}, f, srv.nextId, others, d)
    <2>1. /\ Follows(others[p], d[p])
          /\ \A id \in Nat : /\ HeldOnce(others[p], d[p], id)
                             /\ ~Held(others[p], d[p], id) /\ ~Claiming(others[p].up, id)
      BY <1>5, <1>7, <1>12
    <2>2. p \notin srv.online
      BY <1>1
    <2> DEFINE all == srv.online \cup {p}
    <2>3. /\ srv.nextId \in Nat /\ (f # None => f.id \in Nat /\ f.id < srv.nextId)
          /\ \A q \in all : Follows(others[q], d[q])
      <3>1. \A q \in srv.online : Follows(others[q], d[q])
        BY <1>12, <1>13 DEF Tokens
      <3> QED  BY <1>13, <1>14, <2>1, <3>1 DEF Tokens
    <2>4. ASSUME NEW q \in all, NEW id \in Nat
          PROVE  /\ HeldOnce(others[q], d[q], id)
                 /\ Held(others[q], d[q], id) \/ Claiming(others[q].up, id)
                      => id < srv.nextId /\ (f # None /\ f.id = id => f.owner = q)
      <3>1. CASE q \in srv.online
        <4>1. others[q] = cl[q] /\ d[q] = srv.down[q]
          BY <1>12, <3>1
        <4>2. /\ HeldOnce(others[q], d[q], id)
              /\ Held(others[q], d[q], id) \/ Claiming(others[q].up, id)
                   => /\ id < srv.nextId
                      /\ srv.ent # None /\ srv.ent.id = id => srv.ent.owner = q
          BY <1>13, <3>1, <4>1 DEF Tokens
        <4> QED  BY <1>14, <4>2
      <3>2. CASE q = p
        BY <2>1, <3>2
      <3> QED  BY <3>1, <3>2
    <2>5. ASSUME NEW q \in all, NEW id \in Nat, NEW r \in all \ {q},
                 Held(others[q], d[q], id), Held(others[r], d[r], id)
          PROVE  FALSE
      <3>1. q \in srv.online /\ r \in srv.online
        BY <2>1, <2>5
      <3> QED  BY <1>12, <1>13, <2>5, <3>1 DEF Tokens
    <2> QED  BY <2>3, <2>4, <2>5 DEF Tokens
  <1> QED  BY <1>4, <1>11, <1>15 DEF Settles, f, o, others

\* The server drops a player: either nobody led a party before, or everybody is
\* gone now.
LEMMA DisconnectionTokens ==
  ASSUME Consistent, NEW p \in Players, OnDisconnection(p), srv'.leader = None,
         srv.leader = None => Settles(srv, cl)
  PROVE  Settles(srv', cl')
  <1> DEFINE v == <<>>
             n == [cl[p] EXCEPT !.up = v]
             games == [cl EXCEPT ![p] = n]
             d == IF cl[p].online THEN srv.down[p] ELSE <<>>
  <1>1. /\ p \in srv.online /\ cl' = games
        /\ \E s \in Disconnected(srv, p) : srv' = [s EXCEPT !.down[p] = d]
    BY DEF OnDisconnection
  <1>2. PICK s \in Disconnected(srv, p) : srv' = [s EXCEPT !.down[p] = d]
    BY <1>1
  <1>3. /\ ServerSound(srv) /\ cl = [q \in Players |-> cl[q]]
        /\ srv.down \in [Players -> Seq(Answers)] /\ d \in Seq(Answers)
    BY DEF Consistent, ServerSound
  <1> HIDE DEF d, n
  <1>4. ServerSound(s) /\ s.online = srv.online \ {p}
    BY <1>1, <1>3, DisconnectedSound
  <1>5. IsServer(s) /\ s.down \in [Players -> Seq(Answers)] /\ s.online \subseteq Players
    BY <1>4 DEF ServerSound
  <1>6. PICK r : r = [s EXCEPT !.down[p] = d]
    OBVIOUS
  <1>7. /\ IsServer(r) /\ r.online = s.online /\ r.ent = s.ent
        /\ r.nextId = s.nextId /\ r.leader = s.leader
        /\ r.down \in [Players -> Seq(Answers)]
        /\ \A q \in Players \ {p} : r.down[q] = s.down[q]
    <2>1. /\ IsServer(s) /\ s.down \in [Players -> Seq(Answers)] /\ d \in Seq(Answers)
          /\ p \in Players
      BY <1>3, <1>5
    <2> QED  BY ONLY <2>1, <1>6, ReroutedFields
  <1>8. srv' = r
    BY <1>2, <1>6
  <1>9. Settles(r, games)
    <2>1. CASE srv.leader = None
      <3>1. srv.leader # p
        BY <2>1, OwnershipAssumption
      <3>2. Settles(s, cl)
        BY <1>1, <1>3, <2>1, <3>1, DisconnectedTokens
      <3>3. Tokens(s.online, s.ent, s.nextId, cl, s.down)
        BY <3>2 DEF Settles
      <3>4. ASSUME NEW q \in s.online
            PROVE  Keeps(cl[q], s.down[q], games[q], r.down[q])
        <4>1. q \in Players \ {p}
          BY <1>4, <1>5
        <4>2. games[q] = cl[q] /\ r.down[q] = s.down[q]
          BY <1>3, <1>7, <4>1
        <4> QED  BY <4>2, KeepsSame
      <3>5. r.ent # None => s.ent # None /\ r.ent.id = s.ent.id /\ r.ent.owner = s.ent.owner
        BY <1>7
      <3>6. s.online \subseteq s.online
        OBVIOUS
      <3> HIDE DEF games
      <3>7. Tokens(s.online, r.ent, s.nextId, games, r.down)
        BY <3>3, <3>4, <3>5, <3>6, KeepTokens
      <3> QED  BY <1>7, <3>7 DEF Settles
    <2>2. CASE srv.leader # None
      <3>1. PICK h \in PartyLeft(srv, p) : \E x \in Freed(h, p) : s = Gone(x, p)
        BY DEF Disconnected
      <3>2. PICK x \in Freed(h, p) : s = Gone(x, p)
        BY <3>1
      <3>3. ServerSound(h) /\ h.online = srv.online
              /\ (h.leader = None => srv.leader = None \/ srv.online = {p})
        BY <1>1, <1>3, PartyLeftSound
      <3>4. ServerSound(x) /\ x.leader = h.leader
        BY <1>1, <3>3, FreedSound, FreedLeader
      <3>5. IsServer(x)
        BY <3>4 DEF ServerSound
      <3>6. s.leader = x.leader
        BY <3>2, <3>5, GoneFields
      <3>7. s.leader = None
        BY <1>7, <1>8
      <3>8. srv.online = {p}
        BY <2>2, <3>3, <3>4, <3>6, <3>7
      <3>9. s.online = {}
        BY <1>4, <3>8
      <3>10. ServerSound(r) /\ r.online = {}
        BY <1>4, <1>7, <3>9 DEF ServerSound
      <3> QED  BY <3>10, NobodyHolds
    <2> QED  BY <2>1, <2>2
  <1> QED  BY <1>1, <1>8, <1>9

\* A game notices the loss: what it simulated and was told is gone, and of what
\* it sent a part may still arrive.
LEMMA ForgottenKeeps ==
  ASSUME NEW k, NEW u \in Seq(Requests), k.up = u, NEW j \in 0..Len(u),
         NEW n, Severed(n), n.up = SubSeq(u, 1, j), NEW d
  PROVE  Keeps(k, d, n, <<>>)
  <1> DEFINE v == SubSeq(u, 1, j)
  <1>1. DOMAIN v \subseteq DOMAIN u /\ \A i \in DOMAIN v : v[i] = u[i]
    <2>1. DOMAIN v = 1..j /\ \A i \in 1..j : v[i] = u[i] /\ i \in 1..Len(u)
      OBVIOUS
    <2>2. DOMAIN u = 1..Len(u)
      OBVIOUS
    <2> HIDE DEF v
    <2> QED  BY <2>1, <2>2
  <1>2. n.up = v
    OBVIOUS
  <1> HIDE DEF v
  <1>3. ASSUME NEW id \in Nat
        PROVE  /\ Asked(v, id) => Asked(u, id)
               /\ Claiming(v, id) => Claiming(u, id)
               /\ InOrder(u, id) => InOrder(v, id)
               /\ ~Simulated(n.ents, id) /\ ~Granted(<<>>, id)
               /\ OneGrant(<<>>, id) /\ OneActor(n.ents, id)
    <2>1. id # None
      BY OwnershipAssumption
    <2>2. /\ Asked(v, id) => Asked(u, id)
          /\ Claiming(v, id) => Claiming(u, id)
      BY <1>1 DEF Asked, Claiming
    <2>3. InOrder(u, id) => InOrder(v, id)
      BY <1>1 DEF InOrder
    <2>4. /\ ~Simulated(n.ents, id) /\ ~Granted(<<>>, id)
          /\ OneGrant(<<>>, id) /\ OneActor(n.ents, id)
      BY <2>1 DEF Severed, Simulated, Granted, OneGrant, OneActor
    <2> QED  BY <2>2, <2>3, <2>4
  <1>4. Follows(n, <<>>)
    BY DEF Follows, Ordinary, Severed
  <1> QED  BY <1>2, <1>3, <1>4 DEF Keeps, Held, HeldOnce

LEMMA DisconnectedGameTokens ==
  ASSUME Consistent, Settles(srv, cl), NEW p \in Players, OnDisconnected(p)
  PROVE  Settles(srv', cl')
  <1>1. PICK j \in 0..Len(cl[p].up) :
          cl' = [cl EXCEPT ![p] = Forgotten(cl[p], SubSeq(cl[p].up, 1, j))]
    BY DEF OnDisconnected
  <1> DEFINE k == cl[p]
             u == SubSeq(k.up, 1, j)
             n == Forgotten(k, u)
             d == <<>>
  <1>2. /\ ClientTyped(k) /\ k.up \in Seq(Requests) /\ cl = [q \in Players |-> cl[q]]
        /\ ServerSound(srv)
    BY DEF Consistent, ClientTyped
  <1>3. /\ IsServer(srv) /\ srv.down \in [Players -> Seq(Answers)]
        /\ srv.online \subseteq Players /\ d \in Seq(Answers)
    BY <1>2 DEF ServerSound
  <1>4. u \in Seq(Requests) /\ j \in 0..Len(k.up)
    BY <1>2
  <1>5. Severed(n) /\ n.up = u
    <2> HIDE DEF u, k
    <2> QED  BY <1>2, <1>4, ForgottenFields
  <1>6. cl' = [cl EXCEPT ![p] = n]
    BY <1>1
  <1> HIDE DEF n, k
  <1>7. Keeps(k, srv.down[p], n, <<>>)
    BY <1>2, <1>4, <1>5, ForgottenKeeps
  <1>8. srv' = [srv EXCEPT !.down[p] = d]
    BY DEF OnDisconnected
  <1> HIDE DEF d
  <1>9. PICK t : t = [srv EXCEPT !.down[p] = d]
    OBVIOUS
  <1>10. /\ t.online = srv.online /\ t.ent = srv.ent /\ t.nextId = srv.nextId
         /\ t.down[p] = d /\ \A q \in Players \ {p} : t.down[q] = srv.down[q]
    BY <1>3, <1>9, ReroutedFields
  <1>11. /\ t.ent # None => srv.ent # None /\ t.ent.id = srv.ent.id /\ t.ent.owner = srv.ent.owner
         /\ p \in srv.online => Keeps(cl[p], srv.down[p], n, t.down[p])
    BY <1>7, <1>10 DEF d, k
  <1>12. Settles(t, [cl EXCEPT ![p] = n])
    BY <1>2, <1>3, <1>10, <1>11, GameTokens
  <1> QED  BY <1>6, <1>8, <1>9, <1>12

\* Every step leaves every entity with at most one holder.
LEMMA SoleNext == OwnershipInv /\ [Next]_vars => Sole'
  <1> SUFFICES ASSUME OwnershipInv, [Next]_vars PROVE Sole'
    OBVIOUS
  <1>a. Consistent /\ Sole
    BY DEF OwnershipInv
  <1>u. CASE UNCHANGED vars
    BY <1>a, <1>u DEF vars, Sole, HandedOnOnly, Settles, Tokens
  <1>n. CASE Next
    <2> SUFFICES ASSUME srv'.leader = None, ~mount' PROVE Settles(srv', cl')
      BY DEF Sole, HandedOnOnly, Settles
    <2>0. PICK p \in Players :
            \/ (\E cell \in Cells : Walk(p, cell)) \/ ActorAdded(p) \/ ActorRemoved(p)
            \/ Ride(p) \/ CreateParty(p) \/ Connect(p) \/ OnDisconnection(p)
            \/ OnDisconnected(p) \/ Serve(p) \/ Receive(p)
      BY <1>n DEF Next
    <2>a. ~mount
      BY <2>0 DEF Walk, ActorAdded, ActorRemoved, Ride, CreateParty, Connect,
                  OnDisconnection, OnDisconnected, Serve, Receive
    <2>b. srv.leader = None => Settles(srv, cl)
      BY <1>a, <2>a DEF Sole, HandedOnOnly
    <2>c. /\ ClientTyped(cl[p]) /\ ServerSound(srv) /\ IsServer(srv)
          /\ cl = [q \in Players |-> cl[q]] /\ srv.online \subseteq Players
      BY <1>a DEF Consistent, ServerSound
    <2>1. CASE (\E cell \in Cells : Walk(p, cell)) \/ ActorAdded(p) \/ ActorRemoved(p)
      <3>1. srv' = srv
        BY <2>1 DEF Walk, ActorAdded, ActorRemoved
      <3>2. Settles(srv, cl)
        BY <2>b, <3>1
      <3>3. PICK n : /\ cl' = [cl EXCEPT ![p] = n]
                     /\ p \in srv.online => Keeps(cl[p], srv.down[p], n, srv.down[p])
        <4>1. CASE p \in srv.online
          <5>1. Follows(cl[p], srv.down[p])
            BY <3>2, <4>1 DEF Settles, Tokens
          <5> QED  BY <2>1, <2>c, <5>1, LocalKeeps DEF Follows
        <4>2. CASE p \notin srv.online
          <5>1. \E n : cl' = [cl EXCEPT ![p] = n]
            BY <2>1 DEF Walk, ActorAdded, ActorRemoved
          <5> QED  BY <4>2, <5>1
        <4> QED  BY <4>1, <4>2
      <3>4. Settles(srv, [cl EXCEPT ![p] = n])
        BY <2>c, <3>2, <3>3, GameTokens
      <3> QED  BY <3>1, <3>3, <3>4
    <2>2. CASE Ride(p)
      BY <2>2, <2>a DEF Ride
    <2>3. CASE CreateParty(p)
      <3> DEFINE l == [srv EXCEPT !.leader = p]
                 m == [type |-> "PartyJoined"]
      <3>1. srv' = Send(l, {p}, m)
        BY <2>3 DEF CreateParty
      <3>2. IsServer(l) /\ l.leader = p
        BY <2>c DEF IsServer
      <3> HIDE DEF l, m
      <3>3. srv'.leader = p
        BY <3>1, <3>2, SendFields
      <3> QED  BY <3>3, OwnershipAssumption
    <2>4. CASE Connect(p)
      <3>1. srv'.leader = srv.leader
        <4> DEFINE o == srv.online \cup {p}
                   d == [srv.down EXCEPT ![p] = <<>>]
                   named == [srv EXCEPT !.online = o]
                   known == [named EXCEPT !.down = d]
                   i == (known.ent.invalid \ {Ghost}) \cup {p}
        <4>1. srv' = known \/ srv' = [known EXCEPT !.ent.invalid = i]
          BY <2>4 DEF Connect
        <4> HIDE DEF o, d, i
        <4>2. IsServer(known) /\ known.leader = srv.leader
          <5>1. IsServer(named) /\ named.leader = srv.leader
            BY <2>c DEF IsServer
          <5> HIDE DEF named
          <5> QED  BY <5>1 DEF IsServer
        <4> HIDE DEF known
        <4> QED  BY <4>1, <4>2 DEF IsServer
      <3> QED  BY <1>a, <2>4, <2>b, <3>1, ConnectTokens
    <2>5. CASE OnDisconnection(p)
      BY <1>a, <2>5, <2>b, DisconnectionTokens
    <2>8. CASE OnDisconnected(p)
      <3>1. srv'.leader = srv.leader
        <4> DEFINE d == [srv.down EXCEPT ![p] = <<>>]
        <4>1. srv' = [srv EXCEPT !.down = d]
          BY <2>8 DEF OnDisconnected
        <4> HIDE DEF d
        <4> QED  BY <2>c, <4>1 DEF IsServer
      <3> QED  BY <1>a, <2>8, <2>b, <3>1, DisconnectedGameTokens
    <2>6. CASE Serve(p)
      <3>1. srv'.leader = srv.leader
        <4>1. /\ cl[p].up # <<>> /\ cl[p].up \in Seq(Requests)
              /\ srv' \in Handled(srv, p, Head(cl[p].up))
          BY <2>6, <2>c DEF Serve, ClientTyped
        <4>2. Head(cl[p].up) \in Requests
          BY <4>1
        <4> QED  BY <2>c, <4>1, <4>2, HandledLeader
      <3> QED  BY <1>a, <2>6, <2>b, <3>1, ServeTokens
    <2>7. CASE Receive(p)
      <3>1. srv'.leader = srv.leader
        <4> DEFINE d == [srv.down EXCEPT ![p] = Tail(@)]
        <4>1. srv' = [srv EXCEPT !.down = d]
          BY <2>7 DEF Receive
        <4> HIDE DEF d
        <4> QED  BY <2>c, <4>1 DEF IsServer
      <3> QED  BY <1>a, <2>7, <2>b, <3>1, ReceiveTokens
    <2> QED  BY <2>0, <2>1, <2>2, <2>3, <2>4, <2>5, <2>6, <2>7, <2>8
  <1> QED  BY <1>u, <1>n

\* An entity has at most one holder among the players the server lists as long as
\* ownership is only handed on, whatever is on its way, whoever drops and comes back.
THEOREM Holders == Spec => []OwnershipInv
  <1>1. Init => OwnershipInv
    <2> SUFFICES ASSUME Init PROVE OwnershipInv
      OBVIOUS
    <2>1. Consistent
      BY ConsistentInit
    <2>2. srv.online = {}
      BY DEF Init
    <2>3. Settles(srv, cl)
      BY <2>1, <2>2, NobodyHolds DEF Consistent
    <2> QED  BY <2>1, <2>3 DEF OwnershipInv, Sole
  <1>2. OwnershipInv /\ [Next]_vars => OwnershipInv'
    BY ConsistentNext, SoleNext DEF OwnershipInv
  <1> QED  BY <1>1, <1>2, PTL DEF Spec

\* Two games the server still lists never simulate the same entity while nobody
\* leads a party or rides: a game hands an actor on (OnActorRemoved,
\* OnOwnershipTransfer) after it stopped, and the server names the next owner
\* (OnOwnershipTransferEvent) after it heard so, or after it dropped the last one.
THEOREM OneSimulates == Spec => []OneSimulator
  <1>1. OwnershipInv => OneSimulator
    <2> SUFFICES ASSUME OwnershipInv, HandedOnOnly, NEW p \in srv.online,
                        NEW q \in srv.online, p # q, NEW id \in Locals(p) \cap Locals(q)
                 PROVE  FALSE
      BY DEF OneSimulator
    <2>1. Tokens(srv.online, srv.ent, srv.nextId, cl, srv.down) /\ Consistent
      BY DEF OwnershipInv, Sole, Settles
    <2>2. Simulated(cl[p].ents, id) /\ Simulated(cl[q].ents, id)
      BY DEF Locals, Simulated
    <2>3. id \in Nat
      <3>1. p \in Players
        BY <2>1 DEF Consistent, ServerSound
      <3>2. cl[p].ents \subseteq Actors
        BY <2>1, <3>1 DEF Consistent, ClientTyped
      <3> QED  BY <3>2 DEF Locals, Actors
    <2>4. Held(cl[p], srv.down[p], id) /\ Held(cl[q], srv.down[q], id)
            /\ q \in srv.online \ {p}
      BY <2>2 DEF Held
    <2> QED  BY <2>1, <2>3, <2>4 DEF Tokens
  <1> QED  BY <1>1, Holders, PTL

\* The movements the server reads of a game that simulates its entity are those
\* of the owner: OnReferencesMoveRequest accepts nobody else's.
THEOREM SimulatorOwns == Spec => []LocalIsOwned
  <1>1. OwnershipInv => LocalIsOwned
    <2> SUFFICES ASSUME OwnershipInv, HandedOnOnly, srv.ent # None,
                        NEW p \in srv.online, srv.ent.id \in Locals(p)
                 PROVE  srv.ent.owner = p
      BY DEF LocalIsOwned
    <2>1. Tokens(srv.online, srv.ent, srv.nextId, cl, srv.down)
      BY DEF OwnershipInv, Sole, Settles
    <2>2. Held(cl[p], srv.down[p], srv.ent.id)
      BY DEF Locals, Simulated, Held
    <2> QED  BY <2>1, <2>2 DEF Tokens
  <1> QED  BY <1>1, Holders, PTL
=============================================================================
