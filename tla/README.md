# A verification project for Skyrim Together Reborn Enhanced

Skyrim Together Reborn Enhanced (STRE) lets several players share one Skyrim
campaign.  Its own core is the *campaign*: a sealed roster of players, a server
that owns the shared state and keeps it in SQLite, checkpoints that tie one
native save per player to one shared snapshot, and a *collective recovery* that
rolls everybody back to the last checkpoint when any member is lost.  That core
is what this project models first, because it is where the program makes
promises that a unit test can hardly reach: it spans several processes, a
database, native save files and a network, and each of them can stop at any
moment.  Around it the project models how a campaign begins (the lobby and the
parties it depends on), what happens inside one client process (the gate that
holds the game, native loads, resuming), how a sealed group creates its
characters and starts to play, the *trade* between two players (a
compensating saga over two local inventories and the server's copy of them), and
the *ownership* of the actors of the world: which client simulates whom.

Paths below are relative to the repository root.

## 1. Inventory

| Part | State | Operations | Interacts with |
|---|---|---|---|
| campaign persistence, `Code/campaign_persistence` | the SQLite database: campaign row (revision, core payload, last committed checkpoint), slots, checkpoints with one save per slot, journal, outbox | one transaction each: `CreateCampaign`, `ApplyMutation`, `CreateCheckpointCandidate`, `RecordCheckpointSlotSave`, `CommitCheckpoint`, `RestoreCheckpointSnapshot`, `MarkOutboxDelivered` | called by the runtime service |
| campaign runtime, `Code/campaign_runtime` | `m_activeCheckpoints`, `m_recoveries`: volatile, one entry per campaign | lobby and roster commands, `SetReady`, `BeginCheckpoint`, `RecordCheckpointSave`, `FailCheckpoint`, `BeginRecovery`, `PrepareRecovery`, `RecordRecoveryLoaded`, `RecordRecoverySnapshotApplied`, `ReconstructRecovery` | store below, admission above |
| admission and protocol, `Code/campaign_protocol`, `Code/server/Services/CampaignProtocolService.cpp` | connections and admitted identities, `m_pendingCampaignLoads`, lobby codes, pending alignments | packet handlers, connect and disconnect | runtime service, transport, parties |
| parties, `Code/server/Services/PartyService.cpp` | `m_parties`, the party and the invitations of each player | create, invite, accept, kick, change leader, leave; the campaign's own ensure, align and roll back | protocol service, players joining and leaving |
| client recovery, `Code/campaign_client/CampaignRecoveryState.cpp`, `CampaignRecoveryService.cpp` | stage, correlation (campaign, attempt, checkpoint, revisions), authoritative flag | `Lock`, `ObserveAuthoritativeActive`, `ObserveLoadRequest`, `FinishNativeLoad`, `ObserveSnapshot`, `ObserveComplete` | packets, native loads, the gate |
| client runtime gate, `Code/common/Campaign/CampaignRuntimeGate.cpp` | one atomic state, two owners, the armed load | lock, arm, enter, return, post-load, cancel, release | engine callbacks, recovery and resume services |
| client native load and resume, `CampaignNativeLoadService.cpp`, `CampaignResumeService.cpp` | the load request and its proofs, its deadline; the required resume, the incident shown to the player | request, validate, invoke, observe, fail; select, continue, stay, return to the menu | engine, gate, recovery, admission |
| client checkpoint service and save policies | small state machines polled by engine hooks | save, report | runtime service |
| trade, `Code/common/Trade`, `TradeService.cpp` on both sides | sessions, offers, confirmations, applications, reconciliations, deadlines | invite, offer, confirm, cancel, apply result, reconcile result, leave, tick | inventories, clients |
| character ownership, `CharacterService.cpp` on both sides, `GameServer.cpp` | the server's entities with owner and refused owners; the local, remote and waiting entities of each client | assign, spawn, claim, transfer, relinquish, remove, cell change, disconnect | transport, parties, discovery |
| character builds, `CharacterCreationService.cpp`, `CharacterBuildService.cpp` | phase of the creation, submission under way, accepted revision; the build of each character on the server | submit, accept, apply, acknowledge, finalize, fail, retry | engine, barrier |
| Helgen start barrier, `CampaignHelgenStartBarrier.cpp`, the clients' cache and projection, the quest's script | latch, ready connections; authorization, projection | observe, broadcast, authorize, begin | builds, protocol service |
| remote bodies | materialization lifecycle | materialize, bind, retire | engine, world services |
| identity store | one file per player | load, save atomically | file system |
| world relays (inventories, objects, quests, calendar) | relayed engine state | relay | clients |
| encoding, engine hooks, UI, launcher, admin | none of its own worth modelling | | |

What is hard here:

* **Crashes.** The barriers of a recovery are volatile, its receipts durable.
  A restart may fall between any two transactions of one handler.
* **Ordering.** A save result, a load result or an acknowledgement may belong
  to an earlier session, an earlier attempt or a checkpoint already given up.
* **Partial failure.** Several handlers run two or three transactions; a later
  one may fail after an earlier one was committed.
* **Lost messages.** A drop loses what is in flight both ways; the client
  notices at once, the server later.
* **Liveness.** Everybody waits for everybody, twice, in a recovery.
* **Repetition.** A client repeats a command whose answer it missed, under the
  same mutation identifier, perhaps much later and on another connection.
* **Optimism.** A client acts on ownership before the server agrees.

What makes each part correct: the durable history is append-only and can always
be read back; a committed checkpoint describes one moment; a recovery restores
exactly that moment, once, whatever is repeated or restarted; nobody plays on
while the others roll back; and the roster comes back in the end.  For the
lobby: a repeated command has one effect, and what is sealed is who is there.
For a client: its gate is shut from the moment it must be until the recovery it
waits for, and what it reports as loaded it has loaded.  For the trade: items
are neither lost nor duplicated, and both sides agree on what they confirmed.
For the start: it is everybody's or nobody's, and the character a player has
is the one the server sealed.  For the world: every actor has one simulator.

`PROJECT.json` lists every part under `components` and every hazard at its line
under `hazards`.

## 2. Modules

| Module | Models | State and actions |
|---|---|---|
| `CampaignStore` | the SQLite store | operators from a database value to a database value, one per transaction, and the reading of the core state through the journal |
| `CampaignServer` | runtime, admission and protocol handlers for one sealed campaign | `db` (durable), `active`, `recovery`, `present`, `pendingLoad` (volatile); one action per packet handler, plus `OnPlayerLeave` and `ServerRestart` |
| `CampaignRollback` | what the players are promised | `live`, `saved`, `phase`; `Play`, `Save`, `Lock`, `RollBack`, `Release` |
| `CampaignRecovery` | server, one client per member, ordered transport, drops and restarts | `client`, `world`, `link`, `toServer`, `toClient`, `loadFailed`, `faults` on top of `CampaignServer` |
| `MCCampaignServer` | symmetry for TLC | |
| `CampaignServerProofs`, `CampaignHistoryProofs` | TLAPS proofs about `CampaignServer` | |
| `CampaignRecoveryProofs` | TLAPS proofs about the composition | |
| `TradeDomain` | `Code/common/Trade`: session, plans, results | operators only: for each command a verdict and the session after it |
| `TradeServer` | the server's `TradeService`, and what `InventoryService` does to the counts it reads | the maps and counters of the class, the inventories, `toClient`; one action per handler, `OnPlayerLeave`, `OnUpdate`, `Tick` |
| `TradeSystem` | the clients' `TradeService`, the links, repeated messages, departures, restarts | `client`, `toServer`, `budget` on top of `TradeServer` |
| `MCTradeSystem` | values for TLC | |
| `TradeSystemProofs` | TLAPS proofs about the trade | |
| `PartyService` | the server's parties | operators on one value, `party`: one per handler and per operation the campaign calls |
| `CampaignLobby` | admission, lobby directory and lobby handlers over the journaled roster commands, with `PartyService` | `campaigns` (durable); `admission`, `lobbies`, `pendingResume`, `party`, `invitations`, `online` (volatile); the commands the clients have `sent`; one action per handler, connect, disconnect, restart |
| `MCCampaignLobby` | symmetry for TLC | |
| `CampaignLobbyProofs` | TLAPS proofs about parties and lobby | |
| `CampaignRuntimeGate` | the gate of one client | operators on one record, one per method |
| `CampaignClient` | one client process: gate, native load, recovery, resume and campaign services, with the engine and the server it meets | `c`, `eng`, `srv`, `inbox`; a frame, a loader callback, a packet, a choice of the player are actions |
| `CampaignClientProofs` | TLAPS proofs about the client process | |
| `CharacterStart` | character creation and builds, start barrier, its authorization and the quest's script, for the whole roster | `c`, `srv`, `up`, `down`; one action per step of the creation, per choice of a player, per packet at the server and at a client, loss and return |
| `WorldOwnership` | character services of server and clients around one actor | `srv`, `cl`, `mount`; one action per packet at the server and at a client, per engine event, connection, and end that notices a loss |
| `MCWorldOwnership` | symmetry for TLC | |
| `CharacterStartProofs`, `WorldOwnershipProofs` | TLAPS proofs about these two | |

### The store

A database is a record: the revision, the core state (which slots are ready,
and the revision the payload was encoded at), the checkpoints, the last
committed one, the journal and the pending outbox intents.  Readiness stands
for the shared state: it is the only thing an ordinary command of a sealed
campaign changes, and a set of slots is enough to tell one world from another.
The journal is a set.  Its sequence column adds nothing, because an advancing
row has its own resulting revision and a receipt stands between two of them.  A
`RestoreAttemptId` is a function of the revision at which the attempt was
entered, so attempts are revisions here.  Every mutation identity the server
generates is the tuple of the fields it is built from (`MutationId`).

`DecodeCanonicalCoreState` and the journal scan of `LoadAggregate` are modelled
by what they accept: a payload is readable if the version inside it is the
revision of the newest core-producing row, or an ancestor in the restore
lineage.  This is why `AlwaysLoadable` is worth checking: checkpoints and
recoveries consume revisions without writing a core state.

### The server

Each action is a whole handler, from the packet to the last transaction and the
last volatile assignment, because commands are handled one at a time.  A
rejected command changes nothing and is not an action.  The module does not
track packets: a handler may run at any time for any member, which covers
every repeated, delayed or reordered packet and more.  `Rec` is the attempt
a handler works with: `m_recoveries`, rebuilt by `ReconstructRecovery` when the
process has just started.

`StoreMayFail` lets a transaction fail after an earlier one of the same handler
was committed, and lets the read and the write of `Disconnect` fail.

### The composition

`CampaignRecovery` adds the clients and the wire.  The transport is ordered and
reliable until it drops.  A drop loses everything on its way to the client and a
suffix of what is on its way to the server.  The client closes its fence at
once; the server notices later, after it has handled what had arrived, and only
then can the player register again.  A client restart forgets everything but
the identity and comes back from the main menu asking for the committed
checkpoint.  A server crash takes every link with it.  `world` records where each
player really stands: at the menu, in a game loaded from a checkpoint, or in
play beyond it.  It exists for the properties only; no action reads it.

A native load may fail at any time, as often as it is asked for and whatever
the link does: the artifact differs, the loader or the guard menu refuses, the
watchdog gives up, or the transport is gone.  With a link the client reports
the failure; the server notes it (`loadFailed` is the reason `ClientLoadFailed` of
its attempt), keeps the attempt locked and asks nobody again before a member's
next resume.  Resumes come with new connections, also of restarted processes;
resuming by hand over a live connection is modelled in `CampaignClient` only.

### The trade

`TradeServer` keeps the six maps of the service under the names of the class
(`sessions`, `playerSession`, `applications`, `baselines`, `reconciliations`,
`cleanup`), with `None` or 0 for a missing key.  A handler is one action: the
server handles packets and its sweep on one thread, and what a handler sends is
appended, in the order of the code, to the queue of each player it sends to.
An offer is a function from items to quantities, which is what sorted lines
without duplicates amount to; offers that decoding or canonicalization refuse
are the one value `Malformed`.  An item is *fixed* in an inventory when the code
would refuse to move it: worn, a quest item, customised, or split over several
entries.  Counts are integers because `AddOrRemoveEntry` adds an entry with a
negative count when there is none to take from.

Deadlines are counted down by `Tick`, which may run any number of times before
the sweep that notices, so a late answer meets a deadline on either side.

`TradeSystem` keeps for each player the part of the client that matters to the
protocol: the pending invitation, the active session, the last snapshot, the two
journals, and the real inventory of the game.  A plan that passes the client's
checks is applied item by item through the engine.  An engine failure (one of
`MaxFaults`) leaves the player or an item's form unavailable, or carries out
only part of the plan, which the client then notices.  `ChangeItem` and `ChangeEquipment` are the
game going on beside the trade.  `LeaveGame` is a disconnection; a player id is
never used again.  `Restart` is a new server process which the same client
processes join: nothing of the service is persisted, and the client has no
handler that clears its trade state.  `commits` is a history variable; no action
reads it.

### The lobby

A campaign is its revision, its roster with a slot for each player, its readiness, whether it is
sealed, and its journal.  Every command of a client is remembered in `sent`
when it is first issued and may be delivered again at any later time, on any later connection of the
same player, after a restart of the server as well.  `Verdict` is
`FindMutationReplay` followed by the revision check and the domain rule, in that
order.  Handlers call into the parties exactly where the code does: a creation
ensures a leader's party first and rolls it back if the campaign or its code is
refused; a join by code aligns the player first.  A handler that rejects a
command and undoes what it did is no step.  Party numbers are reused, because
only the number of parties matters; `Dissolved` stands for a number that was
given to a party that is gone.  Display names are left out, and with them the
failure to broadcast a lobby one of whose names is unknown.

### The client process

`CampaignClient` follows a single member in detail.  `c` holds the fields of the
five services under the names of the classes, `eng` what the engine is doing (the
world, the load in progress, the menus), `srv` the campaign as this member's
server sees it: its runtime state, the attempt, whether this member was counted.
A *frame* polls the services in the order in which they subscribe to the update.
Loads arrive between frames.  The other members are two actions of the server:
they leave, they come back.  The checks of a native artifact and the loader may
succeed, fail or never answer.

What it takes for granted: the packets of one server handler arrive before the
next handler runs (`Quiet`); a validation takes at least a frame; buttons of the
UI, connecting and selecting happen only in a resting world; packets of a closed
connection are dropped; the server notices a departure at once (its delay is the
subject of `CampaignRecovery`).

### The start

`CharacterStart` begins where the lobby ends: a sealed roster that is ACTIVE, or
a group that has loaded a checkpoint of a running investigation on a server
process without a latch.  A build (race, class, selections, and the
inventory, spells and hashes the server derives from them) is one value; `worn`
is what the character really carries, `"partial"` after an interrupted wipe or
grant.  The flags of a submission are one value, `seal`, because the code sets
them in exclusive combinations.  Every submission is answered, every
acknowledgement is compared by revision and hash, and the client may have given
up, chosen again and submitted again before an answer comes.

What it takes for granted: both ends notice a loss in one step (the delay is the
subject of `CampaignRecovery`); no checkpoint is committed during creation, so
that a loss there locks the campaign and nothing recovers it; a script repeats its
readiness only after the answer to the last one; the recovery of a group
with a checkpoint is one step.  `evidence` is a history variable; no action reads
it.

### Ownership

One placed actor in an interior cell, the players around it and one more cell
to walk to.  Everybody online is in one party with a leader, who may claim
actors, and the leadership passes on when the leader drops.  A client keeps
entities as sets of components, as the registry does: an entity without a local,
remote or waiting component can still be found by its form.  `InvalidOwners`
holds pointers to players; `Ghost` is the pointer to a player object holds pointers to players; `Ghost` is the pointer to a player object that is
gone, which a new player's object may or may not alias.  Entity 0 exists or does
not exist before the actor, because `OnDisconnection` falls back to it.

The two ends notice a loss independently and in either order: `OnDisconnection` is
the server's handler, `OnDisconnected` the client's.  A game that the server has
dropped (timeout, kick) goes on with what it simulates until it notices, beside the
client that the actor was handed to; nothing it sends is read any more, which is
why the properties are about the players the server lists (`srv.online`).  A
game that has noticed first leaves behind what it had sent, or a prefix of it, and
stays listed until the server notices as well.  A player comes back when both
ends are done; one that reconnects while the server still lists its old connection is
to the server another player, that is, another member of `Players` (the old
one's game then holds nothing).

## 3. Runs

| Run | Instance | Shows |
|---|---|---|
| `campaign_server` | 2 members, 2 checkpoints, 1 artifact, store faults, `MaxRevision` 10 | the nine invariants and three step properties below, 178,616 states |
| `collective_recovery` | 2 members, 1 checkpoint, `MaxFaults` 3 | loads that may fail; client and server together, safety and liveness, 146,769 states |
| `campaign_client` | 3 attempts, 5 upsets, recoveries that may fail to open | gate, native load, resume, 292,474 states |
| `campaign_lobby` | 2 players, 2 campaigns, 3 mutation identifiers, 1 invitation, codes may run out | lobby and parties, 196,627 states |
| `character_start` | 2 members, 3 builds of which 1 is refused, 3 submissions, 1 upset | builds and the collective start, safety and liveness, 174,372 states |
| `world_ownership` | 2 players, 2 entities, 4 moves, 1 lost connection, 3 packets in flight | ownership of one actor, 2,190,777 states |
| `trade_core` | 2 players, 1 item, 1 session, 2 requests in flight, 1 engine failure, 1 departure | the safety of the saga, 628,256 states |
| `trade_upsets` | as above with 1 request in flight and any one upset (below), fair server | the registries, the commit, conservation, release of the players, 362,288 states |
| `wedged_member` | as `collective_recovery`, `MaxFaults` 2 | violated: finding 1 |
| `lobby_sealed_leave` | 2 players, 1 campaign, 5 mutation identifiers | violated: finding 2 |
| `client_active_release` | 2 attempts, 2 upsets | violated: finding 3 |
| `dropped_assignment` | 2 players, 2 moves, no lost connection | violated: finding 4 |

Properties of `CampaignServer`:

* `RestartRebuildsRecovery`: the journal scan never fails and rebuilds the
  attempt, restore and receipts that memory has.
* `AlwaysLoadable`: the campaign and every checkpoint can be decoded.
* `RolledBackExactly`: between restore and completion the core is the last
  committed snapshot, at the restored revision.
* `CheckpointIsConsistentCut`: no core mutation between source and commit.
* `BarriersCountConnected`: what a barrier counted is still connected.
* `CheckpointExcludesRecovery`, `FrozenWhileRecovering`: nothing but the restore
  moves while an attempt is open.
* `HistoryIsImmutable`: append-only journal, immutable commits, monotone
  revision.
* `IntentsDescribeLiveTimeline`: no pending intent is older than a restore.
* `RollsBackToLatestCommit`: an open attempt, in memory or rebuilt from the
  journal, goes back to the checkpoint committed last.
* `ImplementsRollback`: the server refines `CampaignRollback`.

Properties checked with `CampaignRecovery`:

* `LossLocksCampaign`: a member that leaves play leaves a durable attempt behind.
* `PendingLoadWaits`: a request to load the committed checkpoint never survives
  into play.
* `CompletionMeansRolledBack`: at the step that completes an attempt, every
  connected member stands in the native world of that checkpoint with the
  snapshot of that attempt applied.  Nobody is counted on the strength of a
  previous process or session.
* `NobodyPlaysBehindTheFence`: a connected member that plays while an attempt is
  open has the locking packet on its way.
* `ReleasedTogether`: the first gate opens after the last application.
* `RecoversUnlessStuck`: once faults stop, everybody plays again for ever,
  unless a member is wedged (finding 1) or the server has been told of a failed
  load and nobody has resumed since (`LoadRefused`).  A load that fails because
  its link was lost is not such an exception: the returning member is asked
  again.

Properties of `CampaignClient`:

* `LoadedProofIsReal`: the server counts a member as loaded only while it stands
  in the native world of that attempt's checkpoint.
* `RecoveringIsFenced`: a member that was told of a recovery is behind the gate
  until its completion, whatever it was loading, confirming or leaving.
* `FenceEndsInRecovery`: the fence around a save the player loaded is opened by
  the main menu, or through what the recovery service remembers of an earlier
  session (finding 3), and by nothing else.
* `LoadingSettles`: a native load is proven or given up.
* `FencedUntilRecovered`: stated by the documentation and violated (finding 3).

Properties of `CampaignLobby`:

* `PartyIndexIsExact`: the member lists, leaders and each player's own party
  agree.
* `RosterFollowsJournal`: a slot holds what the last row about it put there, no
  two rows share an identifier, and every revision was produced by a row.
* `CodesExpire`: a code leads to a lobby that is not sealed, and not to one that
  everybody left.
* `SealedTogether`: the step that seals a roster finds all its members admitted,
  in one party, and nobody else in it.
* `AlignmentFollowsAdmission`: a campaign handler leaves a player in a party it
  was not in before only with an admission, or with a pending resume that
  remembers how to undo it.
* `LeaveIsPreSeal`: stated by the documentation and violated (finding 2).

Properties of `CharacterStart`:

* `CollectiveStart`: nobody is authorized and no game begins the investigation
  before the barrier latched, and it latched on the proof of every member: an
  Applied build, or a readiness said since the last loss.
* `SealedBuildIsWorn`: what the server holds as Applied is what the character
  wears, however timeouts, late answers and other builds cross; a member that gave
  up and is applying the same build once more may be left with part of it, until
  it is out of the creation.
* `StartReachesAll`: once the barrier latched, every member begins the
  investigation, unless a member is lost, its own script failed, or it had given
  up waiting for its finalization (see the observations).

Properties of `WorldOwnership`:

* `OwnerIsConnected`: whoever drops hands the actor on or takes it along.
* `OneSimulator`: as long as ownership only moves by handing on, two clients that the
  server lists never simulate one entity, however many packets are on their way.
* `LocalIsOwned`: under the same condition, a listed client that simulates the
  server's entity is its owner there, so no movement the server reads is refused.
* `AssignmentIsDropped`: stated by a comment and violated (finding 4).

Properties of `TradeSystem`:

* `IndexIsExact`: the index of busy players holds exactly the participants of
  the sessions that are not over, and of those over whose reconciliation is not
  settled.
* `AppliedIsAgreed`: the plan of an application is the exchange of the offers
  both confirmed at the session's last revision, and stays so.
* `ConfirmedIsSeen`: a snapshot at the current revision, shown or on its way,
  shows the offers in force, so an accepted confirmation is of what was seen.
* `OutcomeIsCommitted`: a session's plan was committed once if it is Completed,
  never otherwise.
* `CommittedOnce`: what of it is true however often players change what they wear:
  no plan is committed twice, a Completed session's was committed, and what was
  committed was reported applied by both and is not being taken back.  It is proved;
  in the runs `OutcomeIsCommitted` says more.
* `TradesConserve`: a step that is neither the game's own traffic nor a new
  process taking the inventories from its clients only moves items between two
  inventories of the server.
* `Converged`: when everything sent has been handled and nothing is being
  applied, the connected clients and the server count the same items, except a
  client that reported that it could not reconcile.
* `PlayersAreReleased`: a player bound by an invitation, an application or a
  reconciliation is bound no more in the end, even when clients stop answering
  (stated as: again and again it is not bound).
* `SessionsAreForgotten`, which no run lists: see the observations.

`ConfirmedIsSeen` does not hold across a restart and is not checked there: a
client may still show the old server's snapshot of a session id that the new
server gives to another trade, at the same revision.  `Converged` is left out of
`trade_upsets` because of the restart (see the observations).  An application
and its result are not repeated there because of the repeated result, and equipment changes once because of
the late commit.

### Bounds

`MaxRevision` stops new work (a readiness change, a candidate, a new attempt)
and never an attempt in progress, so that no recovery is cut short by the bound.
Ten revisions hold a campaign start, a readiness change, a full checkpoint
(candidate, two saves, commit), an attempt with its restore, and one more
operation.  The longer sequences, such as a second checkpoint after a recovery
(one member, two artifacts, `MaxRevision` 12), satisfy the same properties; for
`RolledBackExactly` the proof covers them.  Two checkpoints are needed for an abandoned candidate next to a
committed one.  Two members are the
fewest for which a barrier is half full.  Three faults are one more than the
shortest interesting case (lose one member, lose another one during the
recovery) and include restart-after-drop.  `MaxRevision` 20 is out of reach in
the composed runs: only faults open attempts there.

For the trade, `MaxRevision` 2 lets one offer be made and raced by another or by
a confirmation; `MaxPending` counts the messages under way when a *player* makes
a request (answers and notifications are never held back), and two are enough
for the two players' requests to cross.  One item and one session make every
plan non-trivial, since it may be offered, refused, or taken back; two sessions
only matter for the index, which is exact with three players and two sessions as
well.  An *upset* is an event that the protocol has to survive and the players
did not ask it for; `MaxUpsets` bounds all kinds together, so that one run meets
every kind, at every moment, without their product.  The durations are scaled to one
unit, the retention to two: what matters is that it is longer than the interval
of the sweep, as 5000 ms is longer than 1000 ms.  With durations in the order of
the code (6, 3, 2 and 6 units) the properties of `trade_core` hold as well.
Journals keep two entries, which one session cannot overflow.

In the lobby three mutation identifiers are a create, a join and a start, or any
other command in the place of one of them, each repeated at will; two campaigns
let a player be admitted to one while it repeats a command of the other.  For a
client, an upset is a lost link, a server crash, other members leaving or the
player's own way out; five are enough to be lost, to leave for the menu, to come
back, and to be lost again during the load of the second attempt.  For ownership,
four moves take one player out and back while the other crosses it, and three
packets in flight let an assignment, a claim and a transfer cross; replies are
never held back by the bound.

For the start, three submissions let a member submit, give up, submit another
build and return to the first while the other member submits once less; the upset
is a failed step of an engine or script, a timeout, an emergency exit or a lost
link, which may fall anywhere, with a checkpoint or without.  One build is refused
by the server; two that are not can supersede each other.  One upset beside one
loss (1,404,456 states), and three upsets of one member, satisfy the same
properties; for the two invariants the proof covers every bound.

Deadlock is checked in `campaign_server` and in the runs of the trade.  The
others set it aside: when everybody plays and no fault is left, when the
identifiers are used up, or when nobody moves any more, there is nothing to do.

### Fairness

Weak fairness per member of: handling the next packet at a client and at the
server, ending a native load, noticing a loss, and coming back after it.  The
code justifies the first three with its update loops (packets are drained every
frame, the native load is polled every frame and fails when the transport is
gone) and the fourth with the transport's timeout.  The last is a statement
about players: the recovery is defined to wait for them without limit.  Faults
have no fairness and are bounded.

For the trade only the server's loop is fair: time passes and the sweep is made.
Clients may stop reading and answering for ever; that is what the deadlines are
for.

For the client process only one thing is fair: while a native load has a
deadline, frames go on and the clock reaches it (`DeadlineFrame`).  The deadline is
polled by `OnUpdate` in every frame.  Nothing is assumed of the loader, the
artifact check, the guard menu or the server.

For the start, packets arrive at both ends, and each client's frames
(`ProjectHelgenStart`) and script timer (`BeginInvestigation`, `SignalReady`) go on.
No player has to act, and neither the creation nor the application of a build is
fair: `StartReachesAll` begins when the barrier has latched.

### Findings

1. *A wedged member* (`wedged_member`).  A member applies the snapshot of
   attempt A and loses its link before it hears of the completion.  While it is
   away another member is lost and attempt B opens.  On its return it is still
   in `SnapshotApplied` of A; `Lock` forgets a correlation only from `Idle` or
   `Completed`, and `ObserveLoadRequest` rejects an attempt that does not match.
   B can never finish until that game process is restarted.  The run sets aside
   behaviours that end with a reported load failure (`LoadRefused`), which is how
   the code is meant to stop; `RecoversUnlessStuck` shows that these two are the
   only ways not to come back.
2. *A leave after the seal* (`lobby_sealed_leave`).  A player leaves the lobby,
   joins again and the campaign is started.  The repeated leave finds its row in
   the journal, before anything looks at the seal, and `LeaveCampaign` takes the
   replay for a removal: the member of a sealed roster is connected, admitted
   nowhere, and no recovery is opened.
3. *An ACTIVE snapshot opens a resumed world* (`client_active_release`).  The
   server is lost in play, which locks the client provisionally; the player goes
   to the main menu and loads a campaign save, which is fenced until a recovery.
   The recovery state survived the menu, so that a plain `ACTIVE` snapshot (the
   server could not open the recovery; or, with `MaxUpsets` 4 and a store that never
   fails, others completed it) is taken to end the provisional lock and opens the gate
   around the save.
4. *An assignment nobody drops* (`dropped_assignment`).  The actor is unloaded
   while the client waits for its assignment.  `CancelAssignmentRequest` has no
   handler in the server, which goes on to make the client the owner; the answer
   finds no cookie.  Nobody simulates the actor, and when the owner comes back
   it is given to it as somebody else's.

### Observations

Weaker than findings, or not contradicting a text; each can be reproduced by
the instance in brackets.

Campaign server:

* `Disconnect` forgets the connection and ignores a failure of `BeginRecovery`; if
  the state cannot even be read it takes the campaign to have been waiting.
  After one SQLite failure at that moment a member has left a live campaign and
  no attempt is durable (`LossLocksCampaign` in `MCCampaignServer` with two slots,
  two checkpoints, `MaxRevision` 9, `StoreMayFail`).  In the same way a pending
  load may survive into play.

Trade (the constants of `MCTrade.cfg` with `MaxPending` 1, `MaxFaults` 0,
`MaxLeaves` 0, `MaxUpsets` 1, changed as given):

* `RecordResult` accepts a repeated success without change, and the handler goes
  on to test `AllSucceeded` and commits again: a result delivered twice applies
  the plan to the server's inventories twice while the completed session is
  retained (`OutcomeIsCommitted`, `Repeatable` `{"ApplyResult"}`, `MaxRepeats` 1).

* Identities start at 1 in every server process and the journals of the clients
  outlive it: the first trade on a new server may be answered from the journal,
  as a success, without being applied (`Converged`, `MaxRestarts` 1, `MaxUpsets` 1).
* Each sweep finds a reconciliation past its deadline and moves the removal of
  its session 5 s ahead, every second (`SessionsAreForgotten`, `FairSpec`,
  `MaxLeaves` 1, `MaxUpsets` 1).
* An application times out while an item of its plan is worn, so that no
  reconciliation can be planned; the session is reported Failed and its
  application stays, and a late success commits it (`OutcomeIsCommitted`,
  `MaxWears` 2, `MaxUpsets` 2).  It is committed once and never taken back: both
  clients keep what they applied, and only the state shown is wrong (`CommittedOnce`; any
  two upsets of `MCTradeUpsets.cfg` with `MaxWears` 2, 6,557,770 states).
* Reconciliation targets are absolute and are read before a change the client
  has already made arrives: client and server then differ until the player joins
  again (`Converged`, `MaxChanges` 1, `MaxFaults` 1, `MaxUpsets` 2).

Lobby:

* A leave that is repeated before the seal, after the player joined again, ends
  the admission of a rostered member (`AdmittedIsRostered`; three players, one
  campaign, five identifiers, no automatic parties).
* `OnPartyKick` does not look at the party of the kicked player: a leader can take
  anybody out of any party.
* `LeaveCampaign` does not leave the party, which then holds one more than the
  roster, so that Start stays refused until the player leaves it too.
* A join by code repeated after a reconnection is an `IdempotencyConflict`,
  because its expected revision is read by the server when it arrives.

Client:

* Leaving for the main menu before the answer to a resume leaves the transport
  open; a `RECOVERY_LOCK` that is then handled locks the gate in the menu
  (`MenuIsUsable`; 2 attempts, 1 upset, recoveries that open).
* A load request that is still being validated when the menu opens is invoked
  there, without an owner.
* A completion replayed for an attempt remembered through the menu can open a
  fenced world (3 attempts, 5 upsets); this is the second disjunct of `Remembered`.
* A request left in `Completed` makes the next `RequestForRecovery` fail once;
  an outcome equal to the previous one is not shown, because it has the same
  token.

Start:

* If the timeout of the finalization fires while the Applied notice is on its way,
  the server has sealed the build and the client has dropped its revision.
  Every retry is `RejectedAlreadyApplied`: the member stays in the creation, with
  the emergency exit, while the others start.  This is the last disjunct of
  `StartReachesAll`.
* The answer to a submission that was given up fails the next one when that has
  another build, because a response names no request.
* When the cleanup quest cannot be started or projected, `BeginInvestigation`
  returns with nothing pending and nobody calls it again.

Ownership:

* A leader's claim and a transfer that cross leave two simulators for good:
  `OnOwnershipTransfer` looks for a remote entity and answers for one it already
  holds as local as if it did not know it.  The same happens to a rider.  This is
  why `HandedOnOnly` guards two properties.
* `OnDisconnection` falls back to entity 0 when the player has no character
  yet, and removes it whoever owns it (`CleanupIsOwn`).
* When no other player qualifies, a refused transfer removes the entity and tells
  everybody but its owner, which keeps a remote entity that is never assigned
  again.

## 4. Proofs

Each theorem holds for every value of the constants: any roster, any number of
checkpoints, attempts, builds, submissions, parties, campaigns, players, items,
trades, faults and packets in flight.

| Module | Theorem | Statement |
|---|---|---|
| `CampaignServerProofs` | `TypeCorrect` | `Spec => []TypeOK` |
| | `CheckpointExclusion` | `Spec => []CheckpointExcludesRecovery` |
| | `ExactRollback` | `Spec => []RolledBackExactly` |
| | `Frozen` | `Spec => FrozenWhileRecovering` |
| | `Immutable` | `Spec => HistoryIsImmutable` |
| | `Refinement` | `Spec => ImplementsRollback` |
| `CampaignHistoryProofs` | `ConsistentCut` | `Spec => []CheckpointIsConsistentCut` |
| | `LatestCommit` | `Spec => []RollsBackToLatestCommit` |
| | `LiveIntents` | `Spec => []IntentsDescribeLiveTimeline` |
| | `Loadable` | `Spec => []AlwaysLoadable` |
| | `ConnectedBarriers` | `Spec => []BarriersCountConnected` |
| | `RestartRebuilds` | `Spec => []RestartRebuildsRecovery` |
| | `PendingLoad` | `~StoreMayFail` gives `Spec => []PendingLoadWaits` |
| | `LossLocks` | `~StoreMayFail` gives `Spec => LossLocksCampaign` |
| `CampaignRecoveryProofs` | `EndToEnd` | `NetSpec => []NetInv` |
| | `FenceReaches` | `NetSpec => []NobodyPlaysBehindTheFence` |
| | `ReleaseTogether` | `NetSpec => []ReleasedTogether` |
| | `CompletedTogether` | `NetSpec => CompletionMeansRolledBack` |
| | `PendingLoadEndToEnd` | `~StoreMayFail` gives `NetSpec => []PendingLoadWaits` |
| | `LossLocksEndToEnd` | `~StoreMayFail` gives `NetSpec => LossLocksCampaign` |
| `CampaignClientProofs` | `Fence` | `Spec => []RecoveringIsFenced` |
| | `LoadedProof` | `Spec => []LoadedProofIsReal` |
| | `FenceEnds` | `Spec => FenceEndsInRecovery` |
| `CharacterStartProofs` | `StartTogether` | `Spec => []CollectiveStart` |
| | `SealedBuild` | `Spec => []SealedBuildIsWorn` |
| `WorldOwnershipProofs` | `Owners` | `Spec => []OwnerIsConnected` |
| | `Holders` | `Spec => []OwnershipInv` |
| | `OneSimulates` | `Spec => []OneSimulator` |
| | `SimulatorOwns` | `Spec => []LocalIsOwned` |
| `CampaignLobbyProofs` | `Parties` | `Spec => []PartyIndexIsExact` |
| | `Journals` | `Spec => []RosterFollowsJournal` |
| | `LiveCodes` | `Spec => []CodesExpire` |
| | `SealsTogether` | `Spec => SealedTogether` |
| | `AlignsTogether` | `Spec => AlignmentFollowsAdmission` |
| `TradeSystemProofs` | `Index` | `Spec => []IndexIsExact` |
| | `Agreements` | `Spec => []AppliedIsAgreed` |
| | `Seen` | `MaxRestarts = 0` gives `Spec => []ConfirmedIsSeen` |
| | `Conserves` | `Spec => TradesConserve` |
| | `Commits` | no repeated order to apply and no repeated report on it give `Spec => []CommittedOnce` |

The modules about the client, the lobby and the trade also prove the type invariant of
their specification (`ClientTypes`, `LobbyTypes`, `TradeTypes`).

Assumptions are those the modules state of their constants, which TLC evaluates in
every run: the roster is not empty, and where members are followed over the network it
is finite; `None` is not one of the values it stands beside; bounds are natural numbers, and a client that is in play has an attempt
behind it (`MaxAttempts > 0`); the players of a party are finitely many, since
a party lists them; what players own and offer has the types the packets give it.
`PendingLoad` and `LossLocks`, and their forms over the network, need a store that does
not fail, and the observations of section 3 say what happens otherwise.  `Seen` needs a server that is not restarted,
because a new process numbers its sessions from 1 again under clients that still show
the old ones; the other theorems about the trade hold across restarts.  `Commits` needs
links that deliver the order to apply and the report on it once, which is what the
transport does; an observation of section 3 shows a session committed twice without
that.  It assumes nothing of what players own and wear in the meantime.

None of the properties is inductive.

### The server's attempt (`CampaignServerProofs`)

`RolledBackExactly`, for instance, needs
to know that the attempt in memory rolls back to the *last* commit, that no
commit can move that while it is open, and that the attempt a restart rebuilds
from the journal is the same.  The inductive invariant `IInv` adds:

* `RevisionBounds`: no row and no attempt comes from a revision not yet written.
  Hence a new attempt is fresh: it cannot be one that was completed.
* `ReceiptsNameSlots`: what a restart counts are slots.
* `OneAttempt`: attempts never overlap.
* `RecoveryIsOpen`: the attempt in memory is the open one, its rollback point is
  the last commit, and if it applies a snapshot its restore is durable.
* `CheckpointInProgress`: the active candidate still equals the live world and no
  attempt is open, so that the commit is the abstract `Save`.
* `LastIsCommitted`.

The argument has three layers.  The first is what each transaction writes
(`AdvanceFields` to `RestoreFields`).  The second is what one more row means for
the open attempt (`BenignEntry`, `BeginEntry`, `CompleteEntry`, `RestoreEntry`).
The third has one lemma per handler, each showing that `IInv` is kept and that
the step is one of the abstract campaign, frozen where it must be and
append-only (`StepOK`).  Handlers that only move volatile state or add receipts
share `SameWorldStep`; the two ways to open an attempt share `BeginStep`.

### The durable history (`CampaignHistoryProofs`)

`History` relates the journal to the checkpoints, the outbox and the core payload:
rows are written revisions, a snapshot is labelled with its source, commits are
ordered by their source and the campaign row names the newest (`CommitsSealed`),
the candidate in progress is newer than every core mutation (`CandidateNewest`),
intents are no older than the newest restore (`IntentsLive`), and the payload
carries the newest core revision or one the restore lineage leads to.  It is
stated of a database and the active checkpoint, not of the variables, so that a
handler that runs two transactions is two uses of a lemma.

### What a restart reads (`CampaignHistoryProofs`)

`BarriersOpen` says which slots a barrier may have counted, and that a restart
counts nobody.  `Scannable` is what the journal scan needs: openings are ordered and
each is followed by its own receipts only (`BeginsOrdered`, `RestoresMatch`,
`AcksMatch`); `MemoryMatches` is that memory holds what the scan would find.
Each kind of row has one lemma about the scan.  `LoadsWait` adds that a pending load
implies an open attempt or a campaign that is not in play.  `LossOpens` is the step of
`LossLocksCampaign` by itself, so that it can be used again over the network.

### The members over the network (`CampaignRecoveryProofs`)

The composition conjoins the server's handlers with what happens to one member's client
and to its two queues.  Every step of it is a step of `CampaignServer` or leaves the
server alone (`NetIsNext`), so the server's invariants hold of it without a new proof;
it begins with a campaign that has its first checkpoint, and `NetInitOK` shows that
this state satisfies them.

What is new is stated of one slot (`SlotOK`), against the set of attempts the journal has
completed:

* `ClientOK`: a client stands in the native world it says it has loaded; one that is
  released was released from a completed attempt, and one that still names a completed attempt
  has applied its snapshot.
* `InboxOK`: a completion under way is of a completed attempt, and no load request under
  way can take a client back into an attempt it has left.
* `OutboxOK` and `CountedOK`: an acknowledgement of an uncompleted attempt under way,
  and one the second barrier has counted, is true of the client (`Stands`): it stands in
  the world of that checkpoint as long as its connection is up, and without the connection
  it has at most forgotten the attempt.
* `LinkOK`: nothing is under way to or from a client the server does not serve.
* `Fenced`: while an attempt is open, a client that plays has a packet coming that locks
  it, and every packet that could release it is followed by one that locks it again.

`NobodyPlaysBehindTheFence` alone is not inductive, for instance: a snapshot that says
`ACTIVE` and was sent before the loss would release a client that the load request behind
it has yet to lock, so the order in the queue has to be part of the invariant.  Nor is
`CompletionMeansRolledBack` a matter of the last acknowledgement: it speaks of
everyone counted before, and needs that none of them has moved since.

The lemmas follow the packets: what each of them makes of a client (`PacketMove`), what a
queue looks like after its head is read (`ReceiveOK`) and after more is sent (`InboxGrow`,
`FenceGrow`, `FenceLock`), and what each handler of the server writes to the journal,
counts and sends to whom (`ResumeEffect` to `AppliedEffect`).  Then there is one lemma per
action.  `NetInv` is proved together with the server's invariants `CurrentBarriers` and
`CurrentMemory`, because what an attempt in memory counts is what the members sent.

### The client (`CampaignClientProofs`)

`ClientInv` relates three things that only meet in the code through callbacks: the
services, the engine, and the attempt of the server.

* `Sound` and `Fenced` are about the services alone: proofs are gathered in order and
  by a request that is open, an open request belongs to a recovery that is loading,
  and a member that was told of a recovery is behind a gate that the recovery *owns*.
  Ownership is what `IsLocked` lacks to be inductive: a load that is cancelled or
  refused gives a gate back to its owner, and opens one that has none.
* `Honest` is about the engine.  It claims something only while the attempt the client
  holds is the one the server has open (not `Past`): a member may be stuck in an attempt
  that was completed without it, and then the player may walk away from the loaded
  world.  While the attempt is open, `Real` says that a load which entered the
  engine is still arriving there, and that one whose world arrived left the player standing
  in it, behind the gate.  For this the player must have no way to the main menu
  (`Captive`, `Kept`), now or after the link is lost, which is when the incident UI
  appears: the fact that recovery progress takes the choice away in the same frame that
  begins the load (`ResumeUpdate` after `NativeLoadUpdate`) is needed here.
* `Burst` and `Linked` are about the wire.  The server sends to a member whose last burst
  was read, so what is in flight says what the server says now; and a load request is
  never read before the snapshot that locks the client.
* `Counted`: what the server counted, the client still holds for the same attempt.

A frame is the long step.  `Polled` reads any number of packets, so the claim about them
is an induction over the packets read (`PolledWithin`), which the prover can do
because it is stated of one predicate, `Within`, by well-founded induction on the
naturals (`AllNumbers`).  After it come one lemma for each of the three updates,
`NativeLoadSettles`, `RecoveryUpdateIs` and `ResumeUpdateFinishes`, and `FrameInv`
puts the frame, the proofs the server hears in it and the answer together.  Every
other action is one lemma.  Each shows that a locked gate stays locked
unless the client remembers a recovery (`Holds`), which gives `FenceEndsInRecovery`.

### The start (`CharacterStartProofs`)

The invariant is a statement about one member at a time, `Member`: its process, the
build the server holds for it, and the two queues between them.  `Revisions` and
`Ordered` say that revisions only grow from what is acknowledged, to what the
process holds, to what is offered to it, to what the server holds; `Truthful` that an
acknowledgement under way, and a seal, are true of the character.  A client step that
sends nothing is one case of `Moves`; each packet has a lemma of its own; a
server handler is `Handled`.  `Evident` ties the latch to the evidence.

Trying to prove `SealedBuildIsWorn` showed that its first form, which knew nothing of
a build that is being applied again, is false with three upsets: a member gives up
twice, a duplicate of the acceptance reaches it late, it applies the build that is
already sealed once more, and a grant fails.  The run's bound hid it.  The
property now says what is true: no other build is ever worn, and none is missing
outside the creation.

### Ownership (`WorldOwnershipProofs`)

`Consistent` is what holds whatever the ends have noticed.  The registry names only
players it lists: the owner, the leader and the characters (`ServerSound`); a
game that has noticed a loss leads no party and simulates nothing (`Severed`).
Every operator on the server's record has a lemma that says it stays
sound; ownership may then move anywhere without leaving the listed players.

Who simulates is about packets.  `Tokens` says it for one entity id at a time: a player
that the server lists *holds* the id if its client simulates it, if its request to transfer it is on its way to
the server, or if a transfer or an assignment that makes it the owner is on its way to the
client (`Held`).  A player holds it once (`HeldOnce`: one of the three, and in one
packet), at most one player holds it, and that player, as well as one that has
claimed it, is the owner if the server has the entity; ids not yet given out are held
by nobody.  Handing on moves the holding from one place to the next: the client that
stops simulating asks in the same step, the server that hears so names the next owner
in the same step, and the next client simulates when it reads that.  Neither
property is inductive without it, because a step that makes a second simulator reads a
packet that was sent long before.

The claim is only about worlds without a party leader and without riders
(`HandedOnOnly`), since a leader's claim takes an actor whose owner has not stopped (see
the observations).  There may have been a leader earlier,
so the invariant has to hold again when that regime returns: a leader disappears
without an heir only when the last player leaves (`FreedLeader`), and then nobody is
listed and nobody holds anything (`NobodyHolds`).  When the server drops a player, its
holding passes to the heir in the same step, whatever its game still does
(`DisconnectionTokens`); when a game notices first, it gives up what it simulates and
keeps of its requests what is still under way (`ForgottenKeeps`), so that the actor
waits for the server.

### Parties and lobby (`CampaignLobbyProofs`)

The invariant is about three values.  `Grouped` is about the party table: every party
is listed by exactly the players that joined it, once each, and led by one of them;
every operator of `PartyService` has a lemma that keeps it, most of them through
`Regroup`, which says what it is to replace one party.  `Recorded` is about a stored
campaign: `Historic` numbers the rows, and `Rostered` says that the roster is what the
rows that still stand put there.  `Codes` is about the directory and the stored campaigns:
a code belongs to an open campaign with somebody in it.  `Shapes` is what the lobby
service keeps between packets.  Every handler has one lemma, which shows that the
invariant is kept together with the two action properties (`LobbyStep`), because a
handler that fails has undone what it did to the parties: the proof of
`AlignmentFollowsAdmission` is that the undo is exact.

### The trade (`TradeSystemProofs`)

The invariant of the server is about one session id at a time.  `Entry` relates the
session, its application, its reconciliation and the players indexed to it: an
application exists from the moment the session is applied, with the plan of the terms
both confirmed (`Agreed`); a reconciliation exists only for a session that is over; the
index points at the session exactly as long as `IndexIsExact` allows (`Indexed`).
`Numbered` says that identities are given out once.  `Delivered` says of every snapshot
under way that its revision is not ahead of its session, and that it shows the offers
in force if the revisions are equal (`Tells`).

Nearly every handler touches one session, so most lemmas show that one `Entry` is kept
and that the others are untouched (`Touches`); the sweep, which acts on many at once, and
the clock have their own.  A step of the server also never lets a session go back
(`AllAge`): a revision grows or the offers are the same.  That is what keeps the snapshots
true which clients already show (`Views`), and hence proves `ConfirmedIsSeen`.

`TradesConserve` needs `Agreed`: the plan that is committed is antisymmetric only
because it is the exchange of two offers of two different players.  It also needs the
checks that precede the commit, because `AddOrRemoveEntry` drops an entry whose count
would become negative.  The first attempt at this proof failed on an entry that is
negative already and that the plan does not mention: the model applied the plan to every
item, and the code only to those the plan lists.  The model now does what the code
does.

`CommittedOnce` is about late reports.  `OnTradeApplyResultRequest` does not ask
whether the session is still being applied: a report that completes the successes
commits, also of a session that has failed or is completed already.  `OnceInv` says
why the plan is still not committed twice, or committed and taken back.

* A report is recorded once.  `Ordered` follows each application at each participant: its order
  to apply or the report on it is on its way, at most one of them and once (`Token`),
  and meanwhile nothing is recorded of that participant (`Awaited`).  A client that reads
  the order and answers turns the one into the other (`TokenMoves`), and the server that
  records the report takes it off the link (`ReportTaken`).  So the last success
  completes the set only once.
* What was committed had its set complete and no reconciliation, and stays so
  (`Committed`): as long as a report is missing nothing was committed (`NotYet`),
  the sweep and a departure begin a reconciliation only then, and one that was begun is
  answered before the reports are looked at.

Whatever else is repeated, taken from a link or lost with a leaving player
only thins the links (`Thinned`: of the messages that matter, some of those that were there,
in the same order), so a step that sends no order and records no report has one
lemma (`Mild`, `QuietOnce`).

### Only model-checked

* `Converged`: it does not hold for every value of the constants.  The observations of
  section 3 give the sequences that break it, and the bounds of the run leave those
  out.  Within them it is a sum of the counts over all that is in flight, an induction over
  data that the prover cannot do.
* `OutcomeIsCommitted`, with one change of equipment: with two it is false (see the
  observations), and what is true of any number is `CommittedOnce`.
* All liveness: the prover has neither fairness nor `ENABLED`.

## 5. What is not modelled

* `ReplaceRosterSlot` and `TransferSessionManager`, which no packet reaches.
* Commands of clients in the sealed session other than `SetReady`, and the receipt of
  a `SetReady` that is accepted and changes nothing (`PersistAcceptedNoOp`: a
  row of the journal that does not advance the revision); their replay is the subject of the lobby.
* The spatial condition of Helgen: which players stand in which cells, a pure
  predicate that later stages of the quest read; and those stages.
* Of the creation: race and appearance, previews, the standing slots and seats,
  the bodies other clients see, the bootstrap menus before stage 20.
* The checkpoint service of the client and its save policies: the server takes
  any report at any time.
* Character builds and adapter states inside a checkpoint's snapshot: restored by the same
  transaction, in the same way as the core.
* Several sealed campaigns on one server: the maps are keyed by campaign and share
  nothing but the connection's admission, which the lobby models.
* Of ownership: actor data and movement, summons, temporary actors, dragons, the
  exterior grid; several actors, which the services handle independently.
* Of the trade: the menu, the item preview and the outgoing invitation the menu
  shows; activity ticks and terminal error codes, which are only displayed; the
  64-line limit beyond `Malformed`; int32 limits of counts and the wrap-around of
  64-bit ids; a reconnection under a new player id; the world entities that a
  pickup consumes, and pickups the server refuses because of them.
* Codecs, SQL statements, UI, engine hooks.

The map covers a small part of the repository by lines.  Most of its lines are
run-time type tables and layouts of the engine, hooks, rendering and UI,
encodings of packets, services that forward an engine event to the others in
range, and third-party headers: they hold no protocol state, and a module about
them would say nothing that could be wrong.

## 6. Plan

1. `CampaignStore`, `CampaignServer`, `CampaignRollback`, `CampaignRecovery`,
   `CampaignServerProofs`: done.
2. `TradeDomain`, `TradeServer`, `TradeSystem`, `TradeSystemProofs`: done.
3. `PartyService`, `CampaignLobby`, `CampaignLobbyProofs`: done.
4. `CampaignRuntimeGate`, `CampaignClient`, `CampaignClientProofs`: done.
5. `WorldOwnership`, `CharacterStart` and their proofs: done.
6. `CampaignRecoveryProofs`, over the packets in flight: done.
7. To model: `RemoteMaterializationLifecycle`, the identity store's file replacement,
   the dialogue gate.
