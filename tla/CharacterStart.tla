--------------------------- MODULE CharacterStart ---------------------------
(***************************************************************************)
(* From the sealed roster to the investigation of Helgen.                   *)
(*                                                                          *)
(* Every member of a campaign that just became ACTIVE is led through the    *)
(* creation of a character (CharacterCreationService), submits a build,     *)
(* puts on what the server accepted and acknowledges it                     *)
(* (CharacterBuildService).  When every build of the exact roster is        *)
(* Applied, the barrier (CampaignHelgenStartBarrier) latches and each       *)
(* client is authorized to start the investigation in its own game          *)
(* (HelgenStartProjection, CampaignHelgenStateCache, the quest's script).   *)
(* A group that loaded a checkpoint of a running investigation has no       *)
(* builds; for it the barrier opens when every connection said it is ready. *)
(*                                                                          *)
(* A build (race, class, selections, and the inventory, spells and hashes   *)
(* the server derives from them) is one value.  Links keep order; the loss  *)
(* of one drops what is in flight.  No checkpoint is committed during       *)
(* creation, so a loss there locks the campaign for good (PrepareRecovery   *)
(* finds nothing to go back to); with a checkpoint the campaign recovers,   *)
(* as CampaignRecovery shows.                                               *)
(***************************************************************************)
EXTENDS Naturals, Sequences, FiniteSets

CONSTANTS
  Members,      \* the sealed roster
  Builds,       \* what a player can submit
  Refused,      \* those the server's catalogue or load order refuses
  None,
  MaxUpsets,    \* failed engine steps, timeouts, emergency exits, lost links
  MaxSubmissions \* builds sent to the server, by all members

ASSUME StartAssumption ==
  /\ IsFiniteSet(Members) /\ Members # {}
  /\ Refused \subseteq Builds
  /\ None \notin Builds
  /\ MaxUpsets \in Nat /\ MaxSubmissions \in Nat

VARIABLES
  c,        \* c[m]: the process of member m
  srv,      \* the server process
  up,       \* up[m]: the packets of m on their way to the server
  down,     \* down[m]: the packets of the server on their way to m
  upsets, sent,
  evidence  \* history: whose proof stood when the barrier latched

vars == <<c, srv, up, down, upsets, sent, evidence>>

(* Inactive before and after a creation are different phases: Gate is the   *)
(* locked stage 20, Done the finalized creation, Free the emergency exit.   *)
(* RaceMenu is both waits for the menu, Menus the class and equipment.      *)
Phases == {"Gate", "Placing", "RaceMenu", "Menus", "Summary", "Error",
           "Done", "Free", "Left"}

(* Which of the flags of a submission is set: m_serverBuildRequestPending,  *)
(* m_serverBuildAccepted with m_buildApplicationPending, the latter alone   *)
(* (no server), m_waitingForServerFinalization.                             *)
Seals == {"idle", "requested", "applying", "local", "finalizing"}

Worn == Builds \cup {"imported", "partial"}

NoProjection == [campaign |-> FALSE, finalized |-> FALSE,
                 authorized |-> FALSE, issued |-> FALSE]

Client ==
  [phase: Phases, seal: Seals, pick: Builds \cup {None}, rev: Nat,
   accepted: Builds \cup {None}, worn: Worn,
   online: BOOLEAN, active: BOOLEAN, locked: BOOLEAN,
   auth: BOOLEAN, required: BOOLEAN,
   proj: [campaign: BOOLEAN, finalized: BOOLEAN, authorized: BOOLEAN,
          issued: BOOLEAN],
   quest: {"none", "pending", "projecting", "begun", "failed"}]

\* CharacterBuildComponent.
Component == [rev: Nat, build: Builds, applied: BOOLEAN]
ASSUME ComponentAssumption == None \notin Component

Server ==
  [build: [Members -> Component \cup {None}], next: Nat, here: SUBSET Members,
   lost: BOOLEAN, checkpoint: BOOLEAN, started: BOOLEAN, ready: SUBSET Members]

-----------------------------------------------------------------------------
(* Packets.                                                                 *)

Request(b)    == [type |-> "Request", build |-> b]
Applied(r, b) == [type |-> "Applied", rev |-> r, build |-> b]
Ready         == [type |-> "Ready"]

Accepted(k)   == [type |-> "Accepted", rev |-> k.rev, build |-> k.build]
Rejected      == [type |-> "Rejected"]
Finalized(k)  == [type |-> "Finalized", rev |-> k.rev]
Snapshot(a)   == [type |-> "Snapshot", active |-> a]
Helgen(s)     == [type |-> "Helgen", started |-> s.started]

Packets ==
  [type: {"Request"}, build: Builds] \cup {Ready, Rejected}
  \cup [type: {"Applied", "Accepted"}, rev: Nat, build: Builds]
  \cup [type: {"Finalized"}, rev: Nat] \cup [type: {"Snapshot"}, active: BOOLEAN]
  \cup [type: {"Helgen"}, started: BOOLEAN]

Tell(q, who, p) == [n \in Members |-> IF n \in who THEN Append(q[n], p) ELSE q[n]]

-----------------------------------------------------------------------------
(* The server.  Handlers map the server to [s, down].                       *)

\* BroadcastHelgenState, to the admitted connections or to one.
BroadcastHelgenState(s, q, who) == Tell(q, who \cap s.here, Helgen(s))

\* ReadHelgenBuild, of a member whose character is its own.
ReadHelgenBuild(s, m) ==
  IF s.build[m] = None THEN "Missing"
  ELSE IF s.build[m].applied THEN "Applied" ELSE "Pending"

RosterRuns(s) == ~s.lost /\ s.here = Members

\* CampaignHelgenStartBarrier::Observe.
Observe(s, m, readiness) ==
  LET all(e) == \A n \in Members : ReadHelgenBuild(s, n) = e
      counts == readiness /\ ~all("Applied") /\ all("Missing") /\ s.checkpoint
      ready  == IF counts THEN s.ready \cup {m} ELSE s.ready
      may    == all("Applied") \/ (counts /\ ready = Members)
  IN  IF ~RosterRuns(s) THEN [s |-> s, outcome |-> "Rejected"]
      ELSE IF s.started THEN [s |-> s, outcome |-> "AlreadyStarted"]
      ELSE [s |-> [s EXCEPT !.ready = ready, !.started = may],
            outcome |-> IF may THEN "Started" ELSE "Waiting"]

\* Mutant: only the member whose build completed the roster is told.
TellsTheLast(s, q, m) ==
  LET o == Observe(s, m, FALSE)
  IN  [s |-> o.s, down |-> IF o.outcome = "Started"
                           THEN BroadcastHelgenState(o.s, q, {m}) ELSE q]

\* OnCharacterBuildApplied.
OnCharacterBuildApplied(s, q, m) ==
  LET o == Observe(s, m, FALSE)
  IN  [s |-> o.s, down |-> IF o.outcome = "Started"
                           THEN BroadcastHelgenState(o.s, q, Members) ELSE q]

\* OnHelgenInvestigationReady.
OnHelgenInvestigationReady(s, q, m) ==
  LET o == Observe(s, m, TRUE)
  IN  [s |-> o.s,
       down |-> CASE o.outcome = "Started" -> BroadcastHelgenState(o.s, q, Members)
                  [] o.outcome = "AlreadyStarted" -> BroadcastHelgenState(o.s, q, {m})
                  [] OTHER -> q]

\* OnCharacterBuildRequest: a new or different proposal gets a revision and is
\* announced; the announcement of Accepted changes nothing in a client.
OnCharacterBuildRequest(s, q, m, b) ==
  LET old  == s.build[m]
      new  == [rev |-> s.next, build |-> b, applied |-> FALSE]
      same == old # None /\ old.build = b
      reply(k) == Tell(q, {m}, k)
  IN  IF b \in Refused \/ (old # None /\ old.applied)
      THEN [s |-> s, down |-> reply(Rejected)]
      ELSE IF same THEN [s |-> s, down |-> reply(Accepted(old))]
      ELSE [s |-> [s EXCEPT !.build[m] = new, !.next = @ + 1],
            down |-> reply(Accepted(new))]

\* OnCharacterBuildAppliedRequest: the revision and both hashes must be those
\* of the pending build.
OnCharacterBuildAppliedRequest(s, q, m, p) ==
  LET k == s.build[m]
      sealed == [s EXCEPT !.build[m].applied = TRUE]
  IN  IF k = None THEN [s |-> s, down |-> Tell(q, {m}, Rejected)]
      ELSE IF k.rev # p.rev \/ k.build # p.build
      THEN [s |-> s, down |-> Tell(q, {m}, Rejected)]
      ELSE IF k.applied THEN [s |-> s, down |-> Tell(q, {m}, Finalized(k))]
      ELSE OnCharacterBuildApplied(sealed, Tell(q, {m}, Finalized(k)), m)

ServerHandles(s, q, m, p) ==
  CASE p.type = "Request" -> OnCharacterBuildRequest(s, q, m, p.build)
    [] p.type = "Applied" -> OnCharacterBuildAppliedRequest(s, q, m, p)
    [] p.type = "Ready"   -> OnHelgenInvestigationReady(s, q, m)

\* Mutant: the readiness of the others survives a loss.
KeepsReadiness(s) == s

\* CampaignHelgenStartBarrier::Disconnect: readiness is rebuilt by everyone.
ForgetReadiness(s) == [s EXCEPT !.ready = {}]

\* OnPlayerLeave, with the removal of the player's character and the
\* admission's Disconnect, which locks the sealed campaign.
OnPlayerLeave(s, q, m) ==
  LET gone == [ForgetReadiness(s) EXCEPT !.here = @ \ {m}, !.lost = TRUE,
                                         !.build[m] = None]
      told == Tell(q, gone.here, Snapshot(FALSE))
  IN  [s |-> gone,
       down |-> IF s.started THEN BroadcastHelgenState(gone, told, Members) ELSE told]

-----------------------------------------------------------------------------
(* The client.                                                              *)

\* ResetNetworkBuildState with ResetBuildApplicationState.
ResetSeal(k) == [k EXCEPT !.seal = "idle", !.rev = 0, !.accepted = None]

\* ResetLoadoutState.
ResetLoadoutState(k) == [ResetSeal(k) EXCEPT !.pick = None]

\* Fail: the player stays locked, with a retry and an emergency exit.  The
\* choices it leaves are cleared when the retried race menu closes.
Fail(k) == [ResetLoadoutState(k) EXCEPT !.phase = "Error"]

OpenRaceMenu(k) == [k EXCEPT !.phase = "RaceMenu"]

\* FinalizeCompletedBuild, on the update that follows ShowBuildConfirmed; the
\* choices of a finalized creation are not read again.
FinalizeCompletedBuild(k, unlocks) ==
  IF ~unlocks THEN Fail(k)
  ELSE [ResetLoadoutState(k) EXCEPT !.phase = "Done", !.proj.finalized = TRUE]

\* OnCharacterBuildResponse.
OnCharacterBuildResponse(k, p) ==
  IF p.type = "Rejected"
  THEN IF k.seal \in {"requested", "finalizing"} THEN Fail(k) ELSE k
  ELSE IF k.seal # "requested" THEN k
  ELSE IF p.build # k.pick THEN Fail(k)
  ELSE [k EXCEPT !.seal = "applying", !.rev = p.rev, !.accepted = p.build]

\* OnNotifyCharacterBuildState, of the local player.
OnNotifyCharacterBuildState(k, p, unlocks) ==
  IF k.seal = "finalizing" /\ p.rev = k.rev
  THEN FinalizeCompletedBuild(k, unlocks) ELSE k

\* CampaignService::OnHelgenState: the cache keeps an authorization, and its
\* rising edge is what OnHelgenStartAuthorized hears.
OnHelgenState(k, p) ==
  IF p.started /\ ~k.auth
  THEN [k EXCEPT !.auth = TRUE, !.proj.authorized = @ \/ k.proj.campaign]
  ELSE k

\* OnSnapshot of CampaignService and OnCampaignSnapshot of
\* CampaignRecoveryService: ACTIVE releases the gate, anything else locks it.
OnCampaignSnapshot(k, p) == [k EXCEPT !.active = p.active, !.locked = ~p.active]

ClientHandles(k, p, unlocks) ==
  CASE p.type \in {"Accepted", "Rejected"} -> OnCharacterBuildResponse(k, p)
    [] p.type = "Finalized" -> OnNotifyCharacterBuildState(k, p, unlocks)
    [] p.type = "Helgen"    -> OnHelgenState(k, p)
    [] p.type = "Snapshot"  -> OnCampaignSnapshot(k, p)

\* IsHelgenInvestigationStartAuthorized: the cache and the canonical ACTIVE
\* snapshot of the exact roster.
StartAuthorized(k) == k.active /\ k.auth

\* OnDisconnected of CharacterCreationService, CampaignService (the cache and
\* the snapshot go, the campaign stays required) and CampaignRecoveryService
\* (a member that saw the campaign run is fenced).
OnDisconnected(k) ==
  LET gone == [k EXCEPT !.proj = NoProjection, !.online = FALSE,
                        !.active = FALSE, !.auth = FALSE,
                        !.locked = @ \/ k.active]
  IN  IF k.phase = "Placing" \/ k.seal \in {"requested", "applying", "finalizing"}
      THEN Fail(gone) ELSE gone

-----------------------------------------------------------------------------
(* Steps.                                                                   *)

Step(m, k) == c' = [c EXCEPT ![m] = k]
Keeps == UNCHANGED <<srv, up, down, sent, evidence>>
Local(m, k) == Step(m, k) /\ Keeps /\ UNCHANGED upsets
Upset == upsets < MaxUpsets /\ upsets' = upsets + 1
Goes(m, k) == Upset /\ Step(m, k) /\ Keeps

\* What a wipe or a grant that did not finish leaves on the character.
Interrupted(k) == IF k.seal \in {"applying", "local"}
                  THEN {[k EXCEPT !.worn = w] : w \in {k.worn, "partial"}} ELSE {k}

\* OnCampaignBootstrapAuthorized: the bootstrap service saw the sealed roster
\* ACTIVE; PlaceStandingForCreation reserves the position.
CampaignBootstrapAuthorized(m) ==
  /\ c[m].phase = "Gate" /\ c[m].online /\ c[m].active
  /\ LET k == [c[m] EXCEPT !.proj = [NoProjection EXCEPT !.campaign = TRUE]]
     IN  \/ Local(m, [k EXCEPT !.phase = "Placing"])
         \/ Goes(m, Fail(k))

\* AdvanceCreationPlacement: arrival, or one of the reasons to refuse.
AdvanceCreationPlacement(m) ==
  /\ c[m].phase = "Placing"
  /\ \/ ~c[m].locked /\ c[m].active /\ Local(m, OpenRaceMenu(c[m]))
     \/ c[m].locked /\ Local(m, Fail(c[m]))
     \/ Goes(m, Fail(c[m]))

\* OnUpdate and ShowRaceReview: the menu was closed, or never opened.
RaceMenuCloses(m) ==
  /\ c[m].phase = "RaceMenu"
  /\ \/ Local(m, [ResetLoadoutState(c[m]) EXCEPT !.phase = "Menus"])
     \/ Goes(m, Fail(c[m]))

\* SelectClass to ConfirmLoadout and ShowBuildSummary.
ConfirmLoadout(m, b) ==
  /\ c[m].phase = "Menus"
  /\ Local(m, [c[m] EXCEPT !.phase = "Summary", !.pick = b])

\* ModifyRace, ReopenClassSelection and ReopenLoadoutSelection: not while a
\* submission is under way.
ModifyRace(m) ==
  /\ c[m].phase \in {"Menus", "Summary"} /\ c[m].seal = "idle"
  /\ Local(m, OpenRaceMenu(ResetLoadoutState(c[m])))
Reopen(m) ==
  /\ c[m].phase = "Summary" /\ c[m].seal = "idle"
  /\ Local(m, [c[m] EXCEPT !.phase = "Menus", !.pick = None])

\* ConfirmBuild: to the server, or applied here when there is none.
ConfirmBuild(m) ==
  /\ c[m].phase = "Summary" /\ c[m].seal = "idle"
  /\ IF c[m].online
     THEN /\ sent < MaxSubmissions /\ sent' = sent + 1
          /\ Step(m, [c[m] EXCEPT !.seal = "requested"])
          /\ up' = [up EXCEPT ![m] = Append(@, Request(c[m].pick))]
          /\ UNCHANGED <<srv, down, upsets, evidence>>
     ELSE Local(m, [c[m] EXCEPT !.seal = "local"])

\* Mutant: what was granted is not compared with the canonical build.
AppliesUnchecked(m) ==
  /\ c[m].phase = "Summary" /\ c[m].seal = "applying"
  /\ \E k \in Interrupted([c[m] EXCEPT !.worn = c[m].accepted]) :
       Step(m, [k EXCEPT !.seal = "finalizing"])
  /\ up' = [up EXCEPT ![m] = Append(@, Applied(c[m].rev, c[m].accepted))]
  /\ UNCHANGED <<srv, down, upsets, sent, evidence>>

\* AdvanceBuildApplication: the staged wipe, the grants and the check of what
\* is really there; then the acknowledgement, or the end of an offline creation.
AppliesBuild(m) ==
  LET k == c[m]
  IN  \/ /\ k.phase = "Summary" /\ k.seal = "applying"
         /\ Step(m, [k EXCEPT !.seal = "finalizing", !.worn = k.accepted])
         /\ up' = [up EXCEPT ![m] = Append(@, Applied(k.rev, k.accepted))]
         /\ UNCHANGED <<srv, down, upsets, sent, evidence>>
      \/ /\ k.phase = "Summary" /\ k.seal = "local"
         /\ LET worn == [k EXCEPT !.worn = k.pick]
            IN  \/ Local(m, FinalizeCompletedBuild(worn, TRUE))
                \/ Goes(m, FinalizeCompletedBuild(worn, FALSE))
BuildFails(m) ==
  /\ c[m].phase = "Summary" /\ c[m].seal \in {"applying", "local"}
  /\ \E k \in Interrupted(c[m]) : Goes(m, Fail(k))
AdvanceBuildApplication(m) == AppliesBuild(m) \/ BuildFails(m)

\* OnUpdate: kServerBuildTimeoutSeconds without an answer.
ServerBuildTimeout(m) ==
  /\ c[m].phase = "Summary" /\ c[m].seal \in {"requested", "finalizing"}
  /\ Goes(m, Fail(c[m]))

RetryRaceMenu(m) ==
  /\ c[m].phase = "Error"
  /\ Local(m, OpenRaceMenu(c[m]))

\* RecoverControls: the emergency exit of the error screen.
RecoverControls(m) ==
  /\ c[m].phase = "Error"
  /\ Goes(m, [ResetLoadoutState(c[m]) EXCEPT !.phase = "Free"])

\* ProjectHelgenStart with HelgenStartProjection::Consume: stage 10 of the
\* quest is set once, and its fragment calls BeginInvestigation.
ProjectHelgenStart(m) ==
  LET k == c[m]
  IN  /\ k.proj.finalized /\ ~k.proj.issued /\ ~k.locked
      /\ IF k.proj.campaign
         THEN k.online /\ StartAuthorized(k) /\ k.proj.authorized
         ELSE ~k.online
      /\ Local(m, [k EXCEPT !.proj.issued = TRUE,
                            !.quest = IF @ = "none" THEN "pending" ELSE @])

\* BeginInvestigation of the quest's script, called again every 5 s while the
\* start is withheld; its latent calls separate the two looks at the fence.  When
\* the cleanup of the old Helgen fails, it returns and is not called again.
BeginInvestigation(m) ==
  LET k == c[m]
      withheld == (k.online \/ k.required) /\ ~StartAuthorized(k)
  IN  \/ /\ k.quest = "pending" /\ ~withheld
         /\ Local(m, [k EXCEPT !.quest = "projecting"])
      \/ /\ k.quest = "projecting"
         /\ \/ Local(m, [k EXCEPT !.quest = IF withheld THEN "pending" ELSE "begun"])
            \/ Goes(m, [k EXCEPT !.quest = "failed"])

\* SignalHelgenInvestigationReady, on the script's timer; a new signal is only
\* sent when the answer to the last one is there.
SignalReady(m) ==
  /\ c[m].quest = "begun" /\ c[m].online /\ c[m].active
  /\ up[m] = <<>> /\ down[m] = <<>>
  /\ up' = [up EXCEPT ![m] = <<Ready>>]
  /\ UNCHANGED <<c, srv, down, upsets, sent, evidence>>

\* OnPlayerLocationChanged.
PlayerLocationChanged(m) ==
  /\ m \in srv.here /\ srv.started /\ \A n \in Members : down[n] = <<>>
  /\ down' = BroadcastHelgenState(srv, down, Members)
  /\ UNCHANGED <<c, srv, up, upsets, sent, evidence>>

ServerReceives(m) ==
  /\ up[m] # <<>>
  /\ LET p == Head(up[m])
         r == ServerHandles(srv, down, m, p)
         proofs == {n \in Members : r.s.build[n] # None /\ r.s.build[n].applied}
     IN  /\ srv' = r.s /\ down' = r.down
         /\ evidence' = LET heard == IF p.type = "Ready" /\ srv.checkpoint /\ RosterRuns(srv)
                                     THEN evidence.heard \cup {m} ELSE evidence.heard
                        IN  [heard |-> heard,
                             start |-> IF ~(r.s.started /\ ~srv.started) THEN evidence.start
                                       ELSE IF proofs # {} THEN proofs ELSE heard]
  /\ up' = [up EXCEPT ![m] = Tail(@)]
  /\ UNCHANGED <<c, upsets, sent>>

\* The packet, and the update of the same frame.
ClientReceives(m) ==
  /\ down[m] # <<>>
  /\ down' = [down EXCEPT ![m] = Tail(@)]
  /\ \/ Step(m, ClientHandles(c[m], Head(down[m]), TRUE)) /\ UNCHANGED upsets
     \/ Head(down[m]).type = "Finalized" /\ Upset
        /\ Step(m, ClientHandles(c[m], Head(down[m]), FALSE))
  /\ UNCHANGED <<srv, up, sent, evidence>>

\* The link of m is gone, by itself or because the player went to the main
\* menu, which ends the game.
Disconnects(m) ==
  /\ c[m].online /\ Upset
  /\ LET r == OnPlayerLeave(srv, [down EXCEPT ![m] = <<>>], m)
     IN  srv' = r.s /\ down' = r.down
  /\ up' = [up EXCEPT ![m] = <<>>]
  /\ evidence' = [evidence EXCEPT !.heard = {}]
  /\ \/ \E k \in Interrupted(c[m]) : Step(m, OnDisconnected(k))
     \/ Step(m, [OnDisconnected(c[m]) EXCEPT !.phase = "Left", !.quest = "none",
                                             !.required = FALSE])
  /\ UNCHANGED sent

\* The member is back, authenticated and admitted to its slot.
Returns(m) ==
  /\ ~c[m].online /\ c[m].phase # "Left"
  /\ Step(m, [c[m] EXCEPT !.online = TRUE])
  /\ srv' = [srv EXCEPT !.here = @ \cup {m}]
  /\ down' = [down EXCEPT ![m] = <<Snapshot(FALSE)>>]
  /\ UNCHANGED <<up, upsets, sent, evidence>>

\* The collective recovery from the committed checkpoint: every member has
\* answered on its new or old link, and nothing else is under way on it.
RecoveryCompletes ==
  /\ srv.lost /\ srv.checkpoint /\ srv.here = Members
  /\ \A m \in Members : up[m] = <<>> /\ down[m] = <<>>
  /\ srv' = [srv EXCEPT !.lost = FALSE]
  /\ down' = Tell(down, Members, Snapshot(TRUE))
  /\ UNCHANGED <<c, up, upsets, sent, evidence>>

-----------------------------------------------------------------------------
\* A lobby that was just sealed, each player at its stage 20; or a group whose
\* checkpoint holds a begun investigation, on a server process without latch.
Fresh == [phase |-> "Gate", seal |-> "idle", pick |-> None, rev |-> 0,
          accepted |-> None, worn |-> "imported", online |-> TRUE,
          active |-> FALSE, locked |-> FALSE, auth |-> FALSE,
          required |-> TRUE, proj |-> NoProjection, quest |-> "none"]

Init ==
  /\ \E resumed \in BOOLEAN :
       /\ c = [m \in Members |-> IF resumed THEN [Fresh EXCEPT !.phase = "Done",
                                                               !.quest = "begun"]
                                 ELSE Fresh]
       /\ srv = [build |-> [m \in Members |-> None], next |-> 1,
                 here |-> Members, lost |-> FALSE, checkpoint |-> resumed,
                 started |-> FALSE, ready |-> {}]
  /\ up = [m \in Members |-> <<>>]
  /\ down = [m \in Members |-> <<Snapshot(TRUE)>>]
  /\ upsets = 0 /\ sent = 0
  /\ evidence = [heard |-> {}, start |-> {}]

PlayerActs(m) ==
  \/ \E b \in Builds : ConfirmLoadout(m, b)
  \/ ModifyRace(m) \/ Reopen(m) \/ ConfirmBuild(m)
  \/ RetryRaceMenu(m) \/ RecoverControls(m) \/ PlayerLocationChanged(m)

ClientUpdates(m) ==
  \/ CampaignBootstrapAuthorized(m) \/ AdvanceCreationPlacement(m)
  \/ RaceMenuCloses(m) \/ AdvanceBuildApplication(m) \/ ServerBuildTimeout(m)
  \/ ProjectHelgenStart(m) \/ BeginInvestigation(m) \/ SignalReady(m)

Next ==
  \/ \E m \in Members : PlayerActs(m) \/ ClientUpdates(m) \/ ServerReceives(m)
                        \/ ClientReceives(m) \/ Disconnects(m) \/ Returns(m)
  \/ RecoveryCompletes

\* Packets arrive, frames and the script's timer run; no player has to act.
Fairness ==
  \A m \in Members :
    /\ WF_vars(ServerReceives(m)) /\ WF_vars(ClientReceives(m))
    /\ WF_vars(ProjectHelgenStart(m)) /\ WF_vars(BeginInvestigation(m))
    /\ WF_vars(SignalReady(m))

Spec == Init /\ [][Next]_vars /\ Fairness

-----------------------------------------------------------------------------
(* Properties.                                                              *)

\* Processes, server and packets have the shape the classes and messages declare.
TypeOK ==
  /\ c \in [Members -> Client]
  /\ srv \in Server
  /\ \A m \in Members : \A q \in {up[m], down[m]} :
       \A i \in DOMAIN q : q[i] \in Packets
  /\ upsets \in 0..MaxUpsets /\ sent \in 0..MaxSubmissions
  /\ evidence \in [heard: SUBSET Members, start: SUBSET Members]

\* The investigation starts for the whole roster: no game begins it and no
\* client is authorized before the barrier latched, and when it did, every
\* member had an Applied build, or, for a loaded checkpoint, every member had
\* said it is ready since the last loss of a connection
\* (CampaignHelgenStartBarrier::Observe and Disconnect, BeginInvestigation).
CollectiveStart ==
  /\ srv.started => evidence.start = Members
  /\ \A m \in Members : c[m].auth \/ (c[m].quest = "begun" /\ ~srv.checkpoint)
                          => srv.started

\* What the server holds as an Applied build is what the character of that
\* member wears, however submissions, late answers, timeouts and retries of the
\* same connection cross (OnCharacterBuildAppliedRequest and
\* AdvanceBuildApplication).  A late answer can make a member that had given up
\* apply the same build again; while that is not finished, because a grant
\* failed half-way, part of the build may be missing.  No other build is ever
\* worn, and a character that left the creation wears all of it.
SealedBuildIsWorn ==
  \A m \in srv.here : srv.build[m] # None /\ srv.build[m].applied
    => \/ c[m].worn = srv.build[m].build
       \/ c[m].worn = "partial" /\ c[m].phase # "Done"

\* Once the barrier latched, every member's game gets authorized and begins the
\* investigation, unless a member is lost, its own quest script failed, or it is
\* no longer waiting for the finalization of what it acknowledged: it gave up
\* after the timeout, and every retry is refused (BroadcastHelgenState,
\* OnHelgenState, ProjectHelgenStart).
StartReachesAll ==
  \A m \in Members :
    srv.started ~> \/ StartAuthorized(c[m]) /\ c[m].quest = "begun"
                   \/ srv.lost \/ c[m].quest = "failed"
                   \/ c[m].phase # "Done" /\ c[m].seal # "finalizing"

=============================================================================
