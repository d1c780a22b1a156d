--------------------------- MODULE WorldOwnership ---------------------------
(***************************************************************************)
(* Who simulates an actor of the world.  The server keeps one entity for a  *)
(* placed actor, with its owner; a client that has the actor loaded holds   *)
(* it as local (it simulates it and sends its movements), as remote (it     *)
(* replays another client), or waits for the assignment it asked for.       *)
(*                                                                          *)
(* One actor stays in the cell Home.  Players walk in and out of that cell, *)
(* lead the party, ride the actor when it is a mount, lose their connection *)
(* and come back.  Both directions of a connection are reliable and         *)
(* ordered, and as slow as they like; the two ends notice a loss            *)
(* independently, in either order.                                          *)
(***************************************************************************)
EXTENDS Naturals, Sequences, FiniteSets

CONSTANTS Players, None,
          Ghost,        \* a player object that no longer exists
          MaxEntities,  \* bound: entities made for the actor
          MaxMoves,     \* bound: cell changes and rides of all players
          MaxDrops,     \* bound: lost connections
          MaxPending    \* bound: packets a client lets pile up before it acts

ASSUME OwnershipAssumption ==
  /\ IsFiniteSet(Players) /\ None \notin Players \cup Nat /\ Ghost \notin Players
  /\ {MaxEntities, MaxMoves, MaxDrops, MaxPending} \subseteq Nat

VARIABLES srv,   \* the server's registry and what it has sent
          cl,    \* the game of each player and what it has sent
          mount, \* the actor is a mount
          moves, drops
vars == <<srv, cl, mount, moves, drops>>

Cells == {"home", "away"}
Ids == 0..MaxEntities
Cookies == 0..(MaxMoves + MaxDrops + 2 * Cardinality(Players))

\* A client entity: the components it carries.
ClientEntity ==
  [form: BOOLEAN, wait: Cookies \cup {None},
   local: Ids \cup {None}, remote: Ids \cup {None}]
Bare == [form |-> FALSE, wait |-> None, local |-> None, remote |-> None]

Up ==
  [type: {"Hello"}] \cup [type: {"Enter"}, cell: Cells]
    \cup [type: {"Assign"}, cookie: Cookies]
    \cup [type: {"RequestTransfer", "Claim", "Mount"}, id: Ids]
Down ==
  [type: {"Assigned"}, cookie: Cookies, id: Ids, owner: BOOLEAN]
    \cup [type: {"Spawn", "Remove", "Transfer", "Relinquish", "Mounted"}, id: Ids]
    \cup [type: {"PartyJoined", "PartyInfo"}]

-----------------------------------------------------------------------------
(***************************************************************************)
(* The server: CharacterService, and what PlayerService and GameServer do   *)
(* to the actor.                                                            *)
(***************************************************************************)
Send(s, to, m) ==
  [s EXCEPT !.down = [q \in Players |->
     IF q \in to THEN Append(s.down[q], m) ELSE s.down[q]]]

InRange(s) == {q \in s.online : s.where[q] = "home"}

\* OnCharacterRemoveEvent: everybody but the owner is told.
Removed(s) ==
  [Send(s, s.online \ {s.ent.owner}, [type |-> "Remove", id |-> s.ent.id])
     EXCEPT !.ent = None]

Candidates(s) == (InRange(s) \ {s.ent.owner}) \ s.ent.invalid

\* OnOwnershipTransferEvent: the first candidate in the player map becomes the
\* owner before it has agreed; without one the entity goes.
Transferred(s) ==
  IF Candidates(s) = {} THEN {Removed(s)}
  ELSE {Send([s EXCEPT !.ent.owner = q], {q},
             [type |-> "Transfer", id |-> s.ent.id]) : q \in Candidates(s)}

\* TransferOwnership: the claimant owns the actor from now on.
Claimed(s, p) ==
  LET told == IF s.ent.owner = p THEN s
              ELSE Send(s, {s.ent.owner},
                        [type |-> "Relinquish", id |-> s.ent.id])
  IN  [told EXCEPT !.ent.owner = p, !.ent.invalid = {}]

Has(s, id) == s.ent # None /\ s.ent.id = id

\* CreateCharacter and OnCharacterSpawned.
Created(s, p, cookie) ==
  LET made == [s EXCEPT !.ent = [id |-> s.nextId, owner |-> p, invalid |-> {}],
                        !.nextId = @ + 1]
  IN  Send(Send(made, {p}, [type |-> "Assigned", cookie |-> cookie,
                            id |-> s.nextId, owner |-> TRUE]),
           InRange(made) \ {p}, [type |-> "Spawn", id |-> s.nextId])

\* Mutant: whoever asks for a managed actor is told that it is the owner.
AssignAlways(s, p, cookie) ==
  IF s.ent = None THEN Created(s, p, cookie)
  ELSE Send(s, {p}, [type |-> "Assigned", cookie |-> cookie,
                     id |-> s.ent.id, owner |-> TRUE])

\* OnAssignCharacterRequest: the leader of the party takes over an actor that is
\* already managed; anybody else gets it as remote.
Assign(s, p, cookie) ==
  LET mine == s.leader = p /\ ~mount
      kept == IF mine THEN Claimed(s, p) ELSE s
  IN  IF s.ent = None THEN Created(s, p, cookie)
      ELSE Send(kept, {p}, [type |-> "Assigned", cookie |-> cookie,
                            id |-> s.ent.id, owner |-> mine])

\* HandleInteriorCellEnter.
Entered(s, p, cell) ==
  LET moved == [s EXCEPT !.where[p] = cell]
  IN  IF s.ent # None /\ s.ent.owner # p /\ cell = "home"
      THEN Send(moved, {p}, [type |-> "Spawn", id |-> s.ent.id]) ELSE moved

\* The states after the server handled packet m of p.
Handled(s, p, m) ==
  CASE m.type = "Hello"  -> {[s EXCEPT !.chars = @ \cup {p}]}
    [] m.type = "Enter"  -> {Entered(s, p, m.cell)}
    [] m.type = "Assign" -> {Assign(s, p, m.cookie)}
    [] m.type = "RequestTransfer" ->
         IF Has(s, m.id)
         THEN Transferred([s EXCEPT !.ent.invalid = @ \cup {p}]) ELSE {s}
    [] m.type = "Claim"  -> {IF Has(s, m.id) THEN Claimed(s, p) ELSE s}
    [] m.type = "Mount"  ->
         {IF Has(s, m.id)
          THEN Send(s, InRange(s) \ {p}, [type |-> "Mounted", id |-> m.id])
          ELSE s}

\* Mutant: what the leaving player owned is not handed on.
DisconnectedKeepsOwner(s, p) ==
  {[s EXCEPT !.where[p] = None, !.online = @ \ {p}, !.chars = @ \ {p},
             !.leader = IF @ = p THEN None ELSE @]}

\* PlayerLeaveEvent: the party of a leader passes to another player.
PartyLeft(s, p) ==
  IF s.leader # p THEN {s}
  ELSE IF s.online = {p} THEN {[s EXCEPT !.leader = None]}
  ELSE {Send([s EXCEPT !.leader = q], {q}, [type |-> "PartyInfo"]) :
          q \in s.online \ {p}}

\* After it the actor of the leaving player is handed on or removed.  A player
\* without a character yet is taken for the owner of entity 0.
Freed(s, p) ==
  LET left == [s EXCEPT !.where[p] = None]
  IN  IF s.ent = None THEN {left}
      ELSE IF p \notin s.chars /\ s.ent.id = 0 THEN {Removed(left)}
      ELSE IF s.ent.owner = p THEN Transferred(left)
      ELSE {left}

\* The object of a player dies; an invalid owner stays on the list as a ghost.
Without(e, p) ==
  IF e = None \/ p \notin e.invalid THEN e
  ELSE [e EXCEPT !.invalid = (@ \ {p}) \cup {Ghost}]
Gone(s, p) ==
  [s EXCEPT !.online = @ \ {p}, !.chars = @ \ {p}, !.ent = Without(@, p)]

Disconnected(s, p) ==
  {Gone(x, p) : x \in UNION {Freed(h, p) : h \in PartyLeft(s, p)}}

-----------------------------------------------------------------------------
(***************************************************************************)
(* The client: CharacterService, driven by DiscoveryService's view of the   *)
(* loaded actors.                                                           *)
(***************************************************************************)
Post(k, m) == [k EXCEPT !.up = Append(@, m)]

\* An entity without components is nothing to anybody.
Replace(k, old, new) ==
  [k EXCEPT !.ents = (@ \ {old}) \cup ({new} \ {Bare})]

\* TakeOwnership: local at once, the server is told afterwards.
TakeOwnership(k, e) ==
  Post(Replace(k, e, [e EXCEPT !.local = e.remote, !.remote = None]),
       [type |-> "Claim", id |-> e.remote])

\* ProcessNewEntity and RequestServerAssignment of an entity with a form.
ProcessNewEntity(k, e) ==
  IF ~k.online THEN k
  ELSE IF e.remote # None
  THEN IF k.leads /\ ~mount THEN TakeOwnership(k, e) ELSE k
  ELSE IF e.local # None \/ e.wait # None THEN k
  ELSE Post([Replace(k, e, [e EXCEPT !.wait = k.cookie]) EXCEPT !.cookie = @ + 1],
            [type |-> "Assign", cookie |-> k.cookie])

\* OnActorAdded: an entity that was spawned for the form is found again.
ActorAddedTo(k) ==
  LET spawned == {e \in k.ents : e.remote # None}
      formed(e) == [e EXCEPT !.form = TRUE]
      added(e) == ProcessNewEntity(Replace(k, e, formed(e)), formed(e))
  IN  IF spawned = {} THEN {added(Bare)} ELSE {added(e) : e \in spawned}

\* Mutant: an actor that is handed on stays local.
ActorRemovedStaysLocal(k, e) ==
  IF e.remote # None
  THEN Replace(k, e, [e EXCEPT !.remote = None, !.form = FALSE])
  ELSE LET off == Replace(k, e, [Bare EXCEPT !.local = e.local])
       IN  IF e.local = None THEN off
           ELSE Post(off, [type |-> "RequestTransfer", id |-> e.local])

\* OnActorRemoved, with CancelServerAssignment.
ActorRemovedFrom(k, e) ==
  IF e.remote # None
  THEN Replace(k, e, [e EXCEPT !.remote = None, !.form = FALSE])
  ELSE LET off == Replace(k, e, Bare)
       IN  IF e.local = None THEN off
           ELSE Post(off, [type |-> "RequestTransfer", id |-> e.local])

\* OnAssignCharacter.
OnAssigned(k, m) ==
  LET asked == {e \in k.ents : e.wait = m.cookie}
      done(e) == IF m.owner THEN [e EXCEPT !.wait = None, !.local = m.id]
                 ELSE [e EXCEPT !.wait = None, !.remote = m.id]
  IN  IF asked = {} THEN {k} ELSE {Replace(k, e, done(e)) : e \in asked}

\* OnCharacterSpawn.
OnSpawn(k, id) ==
  LET formed == {e \in k.ents : e.form}
      as(e) == Replace(k, e, [e EXCEPT !.remote = id])
  IN  IF \E e \in k.ents : e.remote = id \/ (e.form /\ e.wait # None) THEN {k}
      ELSE IF formed = {} THEN {as(Bare)} ELSE {as(e) : e \in formed}

\* OnOwnershipTransfer: an actor that is not at hand is handed on.
OnTransfer(k, id) ==
  LET known == {e \in k.ents : e.form /\ e.remote = id}
  IN  IF known = {} THEN {Post(k, [type |-> "RequestTransfer", id |-> id])}
      ELSE {TakeOwnership(k, e) : e \in known}

\* OnRemoveCharacter.
OnRemove(k, id) ==
  LET known == {e \in k.ents : e.remote = id}
  IN  IF known = {} THEN {k}
      ELSE {Replace(k, e, [e EXCEPT !.remote = None]) : e \in known}

\* Utils::GetServerId.
ServerId(e) == IF e.local # None THEN e.local ELSE e.remote

\* OnNotifyRelinquishControl, and OnNotifyMount of a mount somebody rides (which
\* does nothing as long as the rider is not known here).
OnRelinquish(k, id) ==
  LET held == {e \in k.ents : e.form /\ e.local = id}
  IN  IF held = {} THEN {k}
      ELSE {Replace(k, e, [e EXCEPT !.local = None, !.remote = id]) : e \in held}

\* OnPartyJoined of a leader, and OnPartyJoinedEvent.
OnPartyJoined(k) ==
  LET leads  == [k EXCEPT !.leads = TRUE]
      formed == {e \in k.ents : e.form}
  IN  IF formed = {} THEN {leads} ELSE {ProcessNewEntity(leads, e) : e \in formed}

Received(k, m) ==
  CASE m.type = "Assigned"    -> OnAssigned(k, m)
    [] m.type = "Spawn"       -> OnSpawn(k, m.id)
    [] m.type = "Transfer"    -> OnTransfer(k, m.id)
    [] m.type = "Remove"      -> OnRemove(k, m.id)
    [] m.type = "Relinquish"  -> OnRelinquish(k, m.id)
    [] m.type = "Mounted"     -> OnRelinquish(k, m.id) \cup {k}
    [] m.type = "PartyJoined" -> OnPartyJoined(k)
    [] m.type = "PartyInfo"   -> {[k EXCEPT !.leads = TRUE]}

\* OnDisconnected: what the session knew of the actor is forgotten.  What has
\* been sent may still arrive.
Forgotten(k, sent) ==
  [k EXCEPT !.online = FALSE, !.leads = FALSE, !.up = sent,
            !.ents = {[Bare EXCEPT !.form = TRUE] : e \in {x \in @ : x.form}}]

-----------------------------------------------------------------------------
Calm(p) == Len(cl[p].up) + Len(srv.down[p]) < MaxPending
Loaded(p) == {e \in cl[p].ents : e.form}

\* The player walks through a door; DiscoveryService tells the server first.
Walk(p, cell) ==
  LET here == [cl[p] EXCEPT !.here = cell]
  IN  /\ cl[p].here # cell /\ moves < MaxMoves /\ Calm(p)
      /\ moves' = moves + 1
      /\ cl' = [cl EXCEPT ![p] =
                 IF here.online THEN Post(here, [type |-> "Enter", cell |-> cell])
                 ELSE here]
      /\ UNCHANGED <<srv, mount, drops>>

\* The engine has loaded, or unloaded, the actor.
ActorAdded(p) ==
  /\ cl[p].here = "home" /\ Loaded(p) = {}
  /\ \E k \in ActorAddedTo(cl[p]) : cl' = [cl EXCEPT ![p] = k]
  /\ UNCHANGED <<srv, mount, moves, drops>>
ActorRemoved(p) ==
  /\ cl[p].here # "home"
  /\ \E e \in Loaded(p) : cl' = [cl EXCEPT ![p] = ActorRemovedFrom(cl[p], e)]
  /\ UNCHANGED <<srv, mount, moves, drops>>

\* OnMountEvent: riding a remote mount takes it over.
Ride(p) ==
  /\ mount /\ cl[p].online /\ cl[p].here = "home" /\ moves < MaxMoves /\ Calm(p)
  /\ moves' = moves + 1
  /\ \E e \in Loaded(p) :
       LET taken == IF e.remote # None THEN TakeOwnership(cl[p], e) ELSE cl[p]
       IN  /\ ServerId(e) # None
           /\ cl' = [cl EXCEPT ![p] =
                       Post(taken, [type |-> "Mount", id |-> ServerId(e)])]
  /\ UNCHANGED <<srv, mount, drops>>

\* OnPartyCreate; the others join the party.
CreateParty(p) ==
  /\ srv.leader = None /\ p \in srv.online
  /\ srv' = Send([srv EXCEPT !.leader = p], {p}, [type |-> "PartyJoined"])
  /\ UNCHANGED <<cl, mount, moves, drops>>

\* An authenticated player, OnConnected of DiscoveryService and then of
\* CharacterService, over a new connection.  A new player object may take the
\* place of an old one.
Connect(p) ==
  LET k == Post(Post([cl[p] EXCEPT !.online = TRUE, !.up = <<>>],
                     [type |-> "Enter", cell |-> cl[p].here]), [type |-> "Hello"])
      known == [srv EXCEPT !.online = @ \cup {p}, !.down[p] = <<>>]
  IN  /\ ~cl[p].online /\ p \notin srv.online
      /\ \/ srv' = known
         \/ /\ srv.ent # None /\ Ghost \in srv.ent.invalid
            /\ srv' = [known EXCEPT !.ent.invalid = (@ \ {Ghost}) \cup {p}]
      /\ cl' = [cl EXCEPT ![p] =
           IF Loaded(p) = {} THEN k
           ELSE ProcessNewEntity(k, CHOOSE e \in Loaded(p) : TRUE)]
      /\ UNCHANGED <<mount, moves, drops>>

\* A loss counts once, at the end that notices it first.
Lost(first) ==
  IF first THEN drops < MaxDrops /\ drops' = drops + 1 ELSE drops' = drops

\* GameServer drops the player: its timeout, a kick, or the end of a session.
\* Nothing of the game is read any more; what was sent to it may still arrive.
OnDisconnection(p) ==
  /\ p \in srv.online /\ Lost(cl[p].online)
  /\ \E s \in Disconnected(srv, p) :
       srv' = [s EXCEPT !.down[p] = IF cl[p].online THEN srv.down[p] ELSE <<>>]
  /\ cl' = [cl EXCEPT ![p].up = <<>>]
  /\ UNCHANGED <<mount, moves>>

\* The game notices the loss, before or after the server.
OnDisconnected(p) ==
  /\ cl[p].online /\ Lost(p \in srv.online)
  /\ \E n \in 0..Len(cl[p].up) :
       /\ p \in srv.online \/ n = 0
       /\ cl' = [cl EXCEPT ![p] = Forgotten(@, SubSeq(cl[p].up, 1, n))]
  /\ srv' = [srv EXCEPT !.down[p] = <<>>]
  /\ UNCHANGED <<mount, moves>>

\* The server handles the oldest packet of p, the client its oldest packet.
Serve(p) ==
  /\ p \in srv.online /\ cl[p].up # <<>>
  /\ srv.nextId < MaxEntities \/ srv.ent # None \/ Head(cl[p].up).type # "Assign"
  /\ \E s \in Handled(srv, p, Head(cl[p].up)) : srv' = s
  /\ cl' = [cl EXCEPT ![p].up = Tail(@)]
  /\ UNCHANGED <<mount, moves, drops>>
Receive(p) ==
  /\ cl[p].online /\ srv.down[p] # <<>>
  /\ \E k \in Received(cl[p], Head(srv.down[p])) : cl' = [cl EXCEPT ![p] = k]
  /\ srv' = [srv EXCEPT !.down[p] = Tail(@)]
  /\ UNCHANGED <<mount, moves, drops>>

-----------------------------------------------------------------------------
\* The first entity of the registry is the actor or something else.
Init ==
  /\ srv \in [ent: {None}, nextId: {0, 1}, online: {{}}, chars: {{}},
              leader: {None}, where: {[p \in Players |-> None]},
              down: {[p \in Players |-> <<>>]}]
  /\ cl \in [Players -> [online: {FALSE}, here: {"away"}, leads: {FALSE},
                         cookie: {0}, ents: {{}}, up: {<<>>}]]
  /\ mount \in BOOLEAN
  /\ moves = 0 /\ drops = 0

Next ==
  \E p \in Players :
    \/ \E cell \in Cells : Walk(p, cell)
    \/ ActorAdded(p) \/ ActorRemoved(p) \/ Ride(p) \/ CreateParty(p)
    \/ Connect(p) \/ OnDisconnection(p) \/ OnDisconnected(p)
    \/ Serve(p) \/ Receive(p)

Spec == Init /\ [][Next]_vars

-----------------------------------------------------------------------------
(***************************************************************************)
(* Properties.                                                              *)
(***************************************************************************)
Entity == [id: Ids, owner: Players, invalid: SUBSET (Players \cup {Ghost})]

\* Registries, entities, cookies and packets have the shape the code gives them;
\* in particular an entity always has an owner.
TypeOK ==
  /\ srv \in [ent: Entity \cup {None}, nextId: 0..MaxEntities + 1,
              online: SUBSET Players, chars: SUBSET Players,
              leader: Players \cup {None}, where: [Players -> Cells \cup {None}],
              down: [Players -> Seq(Down)]]
  /\ \A p \in Players :
       cl[p] \in [online: BOOLEAN, here: Cells, leads: BOOLEAN, cookie: Cookies,
                  ents: SUBSET ClientEntity, up: Seq(Up)]
  /\ mount \in BOOLEAN /\ moves \in 0..MaxMoves /\ drops \in 0..MaxDrops

\* The owner of the actor is connected: whoever leaves hands the actor on or
\* takes it along, so that no packet goes to a player object that is gone.
OwnerIsConnected == srv.ent # None => srv.ent.owner \in srv.online

Locals(p) == {e.local : e \in cl[p].ents} \ {None}

\* Without a party leader and without riders, ownership moves only when the
\* owner leaves.
HandedOnOnly == srv.leader = None /\ ~mount

\* Two clients that the server still lists then never simulate the same entity,
\* however slow the packets are: who hands an actor on has stopped before the
\* next one may start.  (A game that the server has dropped simulates on until it
\* notices; nothing it sends is read.)
OneSimulator ==
  HandedOnOnly => \A p, q \in srv.online :
    p # q => Locals(p) \cap Locals(q) = {}

\* And a listed client that simulates the server's entity is its owner there,
\* while packets are on their way, too: no movement the server reads is thrown
\* away.
LocalIsOwned ==
  HandedOnOnly /\ srv.ent # None =>
    \A p \in srv.online : srv.ent.id \in Locals(p) => srv.ent.owner = p

Settled == \A p \in Players : cl[p].up = <<>> /\ srv.down[p] = <<>>

\* A client that gave up waiting for an assignment has dropped it: once every
\* packet has arrived, the owner of the entity simulates it.
AssignmentIsDropped ==
  Settled /\ srv.ent # None => srv.ent.id \in Locals(srv.ent.owner)

\* A disconnection removes only what the leaving player owned.
CleanupIsOwn ==
  [][\A p \in Players : p \in srv.online \ srv'.online /\ srv.ent # None
        => srv'.ent # None \/ srv.ent.owner = p]_vars
=============================================================================
