---------------------------- MODULE CampaignClient ----------------------------
(***************************************************************************)
(* One game process of a sealed campaign: the runtime gate, the native load *)
(* request, the recovery and resume services, the disconnect incident and   *)
(* the admission, driven by the engine's callbacks (Load_Impl,              *)
(* TESLoadGameEvent, the main menu) and by the server's packets.            *)
(*                                                                          *)
(* Everything runs on the game thread.  A frame is BeforeWorldUpdate and    *)
(* then the UpdateEvent, whose subscribers run in the order World builds    *)
(* them; a native load is entered and returns within one call, but the      *)
(* loaded world may come frames later, or never.  The server and the other  *)
(* members are reduced to what they make this client see; modules           *)
(* CampaignServer and CampaignRecovery hold them in full.                   *)
(***************************************************************************)
EXTENDS CampaignRuntimeGate, Sequences

CONSTANTS None,
          MaxAttempts,    \* bound: restore attempts of the campaign
          MaxUpsets,      \* bound: lost links, server crashes, departures
          RecoveryMayFail \* BeginRecovery may fail, and then nothing is locked

ASSUME ClientAssumption ==
  /\ {MaxAttempts, MaxUpsets} \subseteq Nat /\ MaxAttempts > 0
  /\ RecoveryMayFail \in BOOLEAN

VARIABLES c,      \* the campaign services of the client
          eng,    \* the Skyrim engine
          srv,    \* the server, as far as this client can tell
          inbox,  \* packets on their way to the client, oldest first
          upsets
vars == <<c, eng, srv, inbox, upsets>>

RequestStates == {"Idle", "ValidatingArtifact", "Invoking", "AwaitingPostLoad",
                  "AwaitingSafetyProof", "Completed", "Failed"}
Stages == {"Idle", "RecoveryLocked", "LoadingNativeSave", "NativeSaveLoaded",
           "SnapshotApplied", "Completed", "Failed"}
Runtimes == {"Waiting", "Active", "Lock", "Restoring"}
Proofs == {"entered", "accepted", "postload", "guard", "transport"}
Attempts == 0..MaxAttempts

Client ==
  [gate: Gate,
   firstUpdate: BOOLEAN,          \* m_firstWorldUpdatePending
   request: RequestStates, proof: SUBSET Proofs,
   stage: Stages, attempt: Attempts, authoritative: BOOLEAN, protect: BOOLEAN,
   required: BOOLEAN, observed: BOOLEAN, \* m_resumeRequired, m_recoveryObserved
   identity: BOOLEAN,             \* m_loadedSaveIdentity is set
   continuing: BOOLEAN,           \* a Continue was accepted by the engine
   mode: {"Hidden", "DisconnectIncident", "ExistingRecovery"},
   sawActive: BOOLEAN, menuRequested: BOOLEAN,
   online: BOOLEAN, admitted: BOOLEAN, candidate: BOOLEAN,
   wantsRestore: BOOLEAN,         \* m_resumeRequiresCheckpointRestore
   snapshot: Runtimes \cup {None},
   says: SUBSET {"loaded", "applied"}]  \* sent in the current frame

\* A process that has just started.
Booted ==
  [gate |-> OpenGate, firstUpdate |-> FALSE, request |-> "Idle", proof |-> {},
   stage |-> "Idle", attempt |-> 0, authoritative |-> FALSE, protect |-> FALSE,
   required |-> FALSE, observed |-> FALSE, identity |-> FALSE,
   continuing |-> FALSE, mode |-> "Hidden", sawActive |-> FALSE,
   menuRequested |-> FALSE, online |-> FALSE, admitted |-> FALSE,
   candidate |-> FALSE, wantsRestore |-> FALSE,
   snapshot |-> None, says |-> {}]

\* A member in play, after the recovery of attempt 1.
Playing ==
  [Booted EXCEPT !.protect = TRUE, !.online = TRUE, !.admitted = TRUE,
                 !.candidate = TRUE, !.snapshot = "Active", !.sawActive = TRUE]

-----------------------------------------------------------------------------
(***************************************************************************)
(* CampaignNativeLoadRequest: a load is complete when it was accepted, its  *)
(* world arrived under a locked gate, the guard menu paused the game, and   *)
(* the transport is alive.                                                  *)
(***************************************************************************)
IsActive(k) == k.request \notin {"Idle", "Completed", "Failed"}

FailRequest(k) ==
  IF IsActive(k) THEN [k EXCEPT !.request = "Failed", !.proof = {}] ELSE k

CompleteIfProven(k) ==
  IF {"accepted", "postload", "guard", "transport"} \subseteq k.proof
  THEN [k EXCEPT !.request = "Completed", !.proof = {}] ELSE k

Proven(k, fact) == CompleteIfProven([k EXCEPT !.proof = @ \cup {fact}])

\* OnNativeLoadReturn of the request, after the gate's.
RequestReturned(k, accepted) ==
  IF ~accepted
  THEN [FailRequest(k) EXCEPT !.gate = CancelArmedLoad(@)]
  ELSE Proven([k EXCEPT !.request = IF "postload" \in k.proof
                 THEN "AwaitingSafetyProof" ELSE "AwaitingPostLoad"], "accepted")

RequestPostLoad(k) ==
  IF IsActive(k) /\ "entered" \in k.proof /\ "postload" \notin k.proof
  THEN Proven([k EXCEPT !.request = "AwaitingSafetyProof"], "postload")
  ELSE k

\* CampaignResumeService::OnPostLoad.
ResumePostLoad(k) ==
  IF k.identity /\ ~k.required
  THEN [k EXCEPT !.required = TRUE, !.observed = FALSE, !.continuing = FALSE]
  ELSE k

\* TESLoadGameEvent: only a load the gate was armed for is anybody's.
OnPostLoad(k) ==
  IF k.gate.state # "ArmedDuringLoad" THEN k
  ELSE ResumePostLoad(RequestPostLoad(
         [k EXCEPT !.gate = PostLoaded(@), !.firstUpdate = TRUE]))

\* BeforeWorldUpdate and OnPostLoadSafetyObserved.  guarded: the guard menu is
\* open and the game paused.
BeforeWorldUpdate(k, guarded) ==
  LET held == [k EXCEPT !.gate = Hold(@), !.firstUpdate = FALSE]
  IN  IF ~IsLocked(k.gate) THEN k
      ELSE IF ~(k.firstUpdate /\ IsActive(k) /\ "postload" \in k.proof) THEN held
      ELSE IF guarded THEN Proven(held, "guard") ELSE FailRequest(held)

\* OnTransportUpdate.
TransportUpdate(k) ==
  IF ~(IsLocked(k.gate) /\ IsActive(k) /\ "postload" \in k.proof) THEN k
  ELSE IF k.online THEN Proven(k, "transport") ELSE FailRequest(k)

\* BeginNativeInvocation and the correlated Load_Impl it runs.  The world may
\* arrive before Load_Impl returns.
BeginNativeInvocation(k, result) ==
  LET armed   == [k EXCEPT !.request = "Invoking", !.gate = ArmNextLoad(@)]
      entered == [armed EXCEPT !.proof = {"entered"}, !.gate = LoadEntered(@)]
  IN  IF ~CanArm(k.gate) THEN FailRequest(k)
      ELSE CASE result = "unavailable" ->
                  FailRequest([armed EXCEPT !.gate = CancelArmedLoad(@)])
             [] result = "refused" ->
                  RequestReturned([entered EXCEPT !.gate = LoadRefused(@)], FALSE)
             [] result = "accepted" -> RequestReturned(entered, TRUE)
             [] result = "loaded" -> RequestReturned(OnPostLoad(entered), TRUE)

\* What a frame may bring to a load request made before it: nothing, the
\* deadline, a failed artifact validation, or a successful one and the outcome
\* of the invocation.
Invocations == {"unavailable", "refused", "accepted", "loaded"}
LoadSteps == {"wait", "deadline", "invalid"} \cup Invocations
Possible(k, step) ==
  CASE step = "wait" -> TRUE
    [] step = "deadline" -> IsActive(k)
    [] OTHER -> k.request = "ValidatingArtifact"
\* Mutant: only the artifact validation has a deadline.
NativeLoadUpdateNoWatchdog(k, step) ==
  IF step = "wait" \/ k.request # "ValidatingArtifact" THEN k
  ELSE IF step \in Invocations THEN BeginNativeInvocation(k, step)
  ELSE FailRequest(k)

NativeLoadUpdate(k, step) ==
  IF step = "wait" \/ ~IsActive(k) THEN k
  ELSE IF step \in Invocations THEN BeginNativeInvocation(k, step)
  ELSE FailRequest(k)

-----------------------------------------------------------------------------
(***************************************************************************)
(* CampaignRecoveryService, with CampaignRecoveryState.                     *)
(***************************************************************************)
Lock(k, authoritative) ==
  LET fresh == k.stage \in {"Idle", "Completed"}
  IN  [k EXCEPT !.stage = IF fresh THEN "RecoveryLocked" ELSE @,
                !.attempt = IF fresh THEN 0 ELSE @,
                !.authoritative = (~fresh /\ @) \/ authoritative,
                !.gate = LockForRecovery(@)]

\* ObserveAuthoritativeActive and what the service does with its answer.
ObserveAuthoritativeActive(k) ==
  IF k.stage = "SnapshotApplied" THEN [k EXCEPT !.says = @ \cup {"applied"}]
  ELSE IF k.stage = "RecoveryLocked" /\ k.attempt = 0 /\ ~k.authoritative
  THEN [k EXCEPT !.stage = "Idle", !.gate = Release(@)]
  ELSE k

\* CampaignService::ApplySnapshot, then OnCampaignSnapshot.
OnCampaignSnapshot(k, runtime) ==
  LET seen == [k EXCEPT !.snapshot = runtime, !.protect = runtime # "Waiting"]
  IN  IF ~k.admitted THEN [k EXCEPT !.snapshot = runtime]
      ELSE CASE runtime = "Active" -> ObserveAuthoritativeActive(seen)
             [] runtime \in {"Lock", "Restoring"} ->
                  Lock([seen EXCEPT !.wantsRestore = FALSE], TRUE)
             [] OTHER -> seen

\* ResetForRecoveryRetry after a failure, then RequestForRecovery: the artifact
\* must be the committed one (intact), and no other request may be open.
RequestForRecovery(k, intact) ==
  LET ready == IF k.request = "Failed"
               THEN [k EXCEPT !.request = "Idle", !.proof = {},
                              !.gate = CancelArmedLoad(@)]
               ELSE k
  IN  IF intact /\ ready.request = "Idle"
      THEN [ready EXCEPT !.request = "ValidatingArtifact", !.proof = {}]
      ELSE [ready EXCEPT !.stage = "Failed"]

\* Mutant: a member that loaded answers any later request from memory.
OnLoadRequestFromMemory(k, attempt, intact) ==
  LET locked == Lock(k, TRUE)
  IN  IF ~k.admitted THEN k
      ELSE IF locked.stage \in {"RecoveryLocked", "Failed"}
      THEN RequestForRecovery([locked EXCEPT !.stage = "LoadingNativeSave",
                                             !.attempt = attempt], intact)
      ELSE IF locked.stage \in {"NativeSaveLoaded", "SnapshotApplied"}
      THEN [locked EXCEPT !.says = @ \cup {"loaded"}, !.attempt = attempt]
      ELSE locked

OnLoadRequest(k, attempt, intact) ==
  LET locked == Lock(k, TRUE)
  IN  IF ~k.admitted THEN k
      ELSE IF \/ locked.stage = "RecoveryLocked"
              \/ locked.stage = "Failed" /\ locked.attempt = attempt
      THEN RequestForRecovery([locked EXCEPT !.stage = "LoadingNativeSave",
                                             !.attempt = attempt], intact)
      ELSE IF /\ locked.stage \in {"NativeSaveLoaded", "SnapshotApplied"}
              /\ locked.attempt = attempt
      THEN [locked EXCEPT !.says = @ \cup {"loaded"}]
      ELSE locked

\* OnRecoverySnapshot: applied only by a member that loaded for this attempt.
OnRecoverySnapshot(k, attempt) ==
  IF k.attempt # attempt THEN k
  ELSE IF k.stage = "NativeSaveLoaded" /\ k.admitted
  THEN [k EXCEPT !.stage = "SnapshotApplied", !.snapshot = "Restoring",
                 !.says = @ \cup {"applied"}]
  ELSE IF k.stage = "SnapshotApplied"
  THEN [k EXCEPT !.says = @ \cup {"applied"}]
  ELSE k

\* ReleaseForRecovery: the gate opens and the request is forgotten.
ReleaseForRecovery(k) ==
  IF ~IsLocked(k.gate) \/ k.request # "Completed"
       \/ k.gate.state = "ArmedDuringLoad" THEN k
  ELSE [k EXCEPT !.gate = CancelArmedLoad(Release(@)), !.request = "Idle",
                 !.proof = {}]

OnRecoveryComplete(k, attempt) ==
  IF k.attempt = attempt /\ k.stage \in {"SnapshotApplied", "Completed"}
  THEN [ReleaseForRecovery(k) EXCEPT !.stage = "Completed", !.protect = TRUE,
                                     !.wantsRestore = FALSE]
  ELSE k

\* CampaignRecoveryService::OnUpdate.
RecoveryUpdate(k) ==
  IF k.stage # "LoadingNativeSave" THEN k
  ELSE CASE k.request = "Completed" ->
              [k EXCEPT !.stage = "NativeSaveLoaded", !.says = @ \cup {"loaded"}]
         [] k.request = "Failed" -> [k EXCEPT !.stage = "Failed"]
         [] OTHER -> k

-----------------------------------------------------------------------------
(***************************************************************************)
(* CampaignResumeService, with CampaignRecoveryUiState.                     *)
(***************************************************************************)
\* Complete of the incident UI.
CloseUi(k) ==
  [k EXCEPT !.mode = "Hidden", !.sawActive = FALSE, !.menuRequested = FALSE]

Recovering == {"Lock", "Restoring"}

\* ObserveSnapshot of the incident UI: a campaign seen active and now
\* recovering has lost somebody.
ObserveSnapshot(k) ==
  IF k.mode # "Hidden" \/ ~k.admitted THEN k
  ELSE IF k.snapshot = "Active" THEN [k EXCEPT !.sawActive = TRUE]
  ELSE IF k.snapshot \in Recovering /\ k.sawActive
  THEN [k EXCEPT !.mode = "DisconnectIncident", !.menuRequested = FALSE]
  ELSE k

\* The incident is over when the campaign is active again and the gate open.
CloseIncident(k) ==
  IF /\ k.mode # "Hidden" /\ k.snapshot = "Active"
     /\ k.stage \in {"Completed", "Idle"} /\ ~IsLocked(k.gate)
  THEN CloseUi(k) ELSE k

\* A load that requires a resume is over only after a recovery was seen.
CloseResume(k) ==
  IF /\ k.required /\ k.observed
     /\ k.snapshot = "Active" /\ ~IsLocked(k.gate)
  THEN [CloseUi(k) EXCEPT !.required = FALSE, !.identity = FALSE,
                          !.wantsRestore = FALSE]
  ELSE k

ObserveCanonicalState(k) ==
  IF k.snapshot = None THEN k
  ELSE LET ui   == ObserveSnapshot(k)
           seen == [ui EXCEPT !.observed = @ \/ (ui.required /\
                                                 ui.snapshot \in Recovering)]
       IN  CloseResume(CloseIncident(seen))

\* OnUpdate: recovery progress takes the choice of the main menu away.
ResumeUpdate(k) ==
  LET o == ObserveCanonicalState(k)
  IN  IF /\ o.mode = "DisconnectIncident" /\ ~o.menuRequested
         /\ o.stage \in {"LoadingNativeSave", "NativeSaveLoaded",
                         "SnapshotApplied", "Failed"}
      THEN [o EXCEPT !.mode = "ExistingRecovery"] ELSE o

-----------------------------------------------------------------------------
(***************************************************************************)
(* The transport.                                                           *)
(***************************************************************************)
\* The handlers of a packet: OnCommandResponse of a Resume and
\* ProcessCommandOutcome, and those of CampaignRecoveryService.
Receive(k, m, intact) ==
  CASE m.type = "Response" -> [k EXCEPT !.admitted = TRUE, !.candidate = TRUE]
    [] m.type = "Rejected" -> [k EXCEPT !.wantsRestore = FALSE]
    [] m.type = "Snapshot" -> OnCampaignSnapshot(k, m.runtime)
    [] m.type = "Load"     -> OnLoadRequest(k, m.attempt, intact)
    [] m.type = "Restored" -> OnRecoverySnapshot(k, m.attempt)
    [] m.type = "Complete" -> OnRecoveryComplete(k, m.attempt)

\* OnDisconnected of CampaignService, CampaignRecoveryService and
\* CampaignResumeService, in a game that did not ask for it.
OnDisconnected(k) ==
  LET gone   == [k EXCEPT !.online = FALSE, !.admitted = FALSE,
                          !.candidate = @ \/ k.admitted, !.snapshot = None]
      locked == IF k.protect THEN Lock(gone, FALSE) ELSE gone
  IN  IF k.mode = "Hidden" /\ k.sawActive
      THEN [locked EXCEPT !.mode = "DisconnectIncident", !.menuRequested = FALSE]
      ELSE locked

\* OnMainMenuEntered of CampaignService (a session in progress is closed, and
\* its DisconnectedEvent fences nothing) and of CampaignResumeService.
OnMainMenuEntered(k) ==
  LET departed == k.admitted \/ k.candidate
      gone == [k EXCEPT !.admitted = FALSE, !.candidate = FALSE,
                        !.wantsRestore = FALSE, !.snapshot = None,
                        !.online = @ /\ ~departed,
                        !.protect = @ /\ ~(k.online /\ departed)]
  IN  IF k.mode = "Hidden" THEN CloseUi(gone)
      ELSE [CloseUi(gone) EXCEPT !.gate = IF IsLocked(@) THEN Release(@) ELSE @]

-----------------------------------------------------------------------------
(***************************************************************************)
(* The server, reduced to this member and the others as one.                *)
(***************************************************************************)
Server ==
  [dur: {"Active", "Lock", "Restoring"},   \* the durable runtime state
   attempt: Attempts,                      \* the last restore attempt
   stage: {"wait", "load", "apply"},       \* the barrier of an open attempt
   here: BOOLEAN, others: BOOLEAN,         \* who is present
   pending: BOOLEAN,                       \* m_pendingCampaignLoads
   hello: {"none", "plain", "restore"},    \* a Resume on its way
   loaded: BOOLEAN, applied: BOOLEAN]      \* this member's proofs

Wire(s) == IF s.dur = "Active" /\ ~(s.here /\ s.others) THEN "Waiting" ELSE s.dur
SnapshotMsg(s) == <<[type |-> "Snapshot", runtime |-> Wire(s)]>>

\* BeginRecovery opens the next attempt; losing somebody reopens both barriers.
Begun(s) ==
  [s EXCEPT !.dur = "Lock", !.attempt = @ + 1, !.stage = "wait",
            !.pending = FALSE, !.loaded = FALSE, !.applied = FALSE]
Relocked(s) == [s EXCEPT !.stage = "wait", !.loaded = FALSE, !.applied = FALSE]
Lost(s, left) ==
  CASE s.dur # "Active" -> Relocked(left)
    [] Wire(s) = "Active" -> Begun(left)
    [] OTHER -> left
CanLose(s) == Wire(s) = "Active" => s.attempt < MaxAttempts

\* This member's connection ends.
SrvGone(s) ==
  LET left == [s EXCEPT !.here = FALSE, !.hello = "none"]
  IN  IF s.here THEN Lost(s, left) ELSE left

\* PrepareRecovery and what AdvanceRecovery sends.
Prepared(s) ==
  IF s.dur # "Active" /\ s.here /\ s.others /\ s.stage = "wait"
  THEN [s EXCEPT !.stage = "load"] ELSE s
Dispatch(s) ==
  CASE s.dur # "Active" /\ s.stage = "load" ->
         <<[type |-> "Load", attempt |-> s.attempt]>>
    [] s.dur # "Active" /\ s.stage = "apply" ->
         <<[type |-> "Restored", attempt |-> s.attempt]>>
    [] OTHER -> <<>>
Advance(s) == SnapshotMsg(Prepared(s)) \o Dispatch(Prepared(s))

Upset == upsets < MaxUpsets /\ upsets' = upsets + 1
Send(msgs) == inbox' = inbox \o msgs
Quiet == inbox = <<>>   \* bound on the packets in flight: one burst

\* OnResume.  A restore is wanted only by a member that was not yet admitted;
\* it waits for the roster, and an open recovery satisfies it.
SrvResume ==
  LET came   == [srv EXCEPT !.here = TRUE, !.hello = "none",
                   !.pending = srv.dur = "Active" /\
                               (@ \/ (~srv.here /\ srv.hello = "restore"))]
      wanted == Wire(came) = "Active" /\ came.pending
  IN  /\ srv.hello # "none" /\ Quiet
      /\ \E next \in (IF wanted THEN {Begun(came)} ELSE {came})
                       \cup (IF RecoveryMayFail THEN {came} ELSE {}) :
           /\ next.attempt <= MaxAttempts
           /\ srv' = Prepared(next)
           /\ Send(<<[type |-> "Response"]>> \o Advance(next))
      /\ UNCHANGED <<c, eng, upsets>>

\* A Resume of a member that is not in the party of the campaign, or a store
\* that does not answer.
SrvReject ==
  /\ srv.hello # "none" /\ ~srv.here /\ Quiet
  /\ srv' = [srv EXCEPT !.hello = "none"]
  /\ Send(<<[type |-> "Rejected"]>>)
  /\ UNCHANGED <<c, eng, upsets>>

SrvOthersLeave ==
  LET next == Lost(srv, [srv EXCEPT !.others = FALSE])
  IN  /\ Upset
      /\ srv.others /\ Quiet /\ CanLose(srv)
      /\ srv' = next
      /\ IF srv.here THEN Send(SnapshotMsg(next)) ELSE UNCHANGED inbox
      /\ UNCHANGED <<c, eng>>

\* The others resume, without asking for a restore.
SrvOthersReturn ==
  LET came == [srv EXCEPT !.others = TRUE]
      next == IF Wire(came) = "Active" /\ came.pending THEN Begun(came) ELSE came
  IN  /\ ~srv.others /\ Quiet
      /\ next.attempt <= MaxAttempts
      /\ srv' = Prepared(next)
      /\ IF srv.here THEN Send(Advance(next)) ELSE UNCHANGED inbox
      /\ UNCHANGED <<c, eng, upsets>>

\* The last native load is proven: the checkpoint is restored.
SrvRestore ==
  LET next == [srv EXCEPT !.dur = "Restoring", !.stage = "apply"]
  IN  /\ srv.stage = "load" /\ srv.loaded /\ Quiet
      /\ srv' = next
      /\ Send(SnapshotMsg(next) \o Dispatch(next))
      /\ UNCHANGED <<c, eng, upsets>>

\* The last member applied the snapshot: the campaign plays again.
SrvComplete ==
  LET next == [srv EXCEPT !.dur = "Active", !.stage = "wait",
                          !.loaded = FALSE, !.applied = FALSE]
  IN  /\ srv.stage = "apply" /\ srv.applied /\ Quiet
      /\ srv' = next
      /\ Send(<<[type |-> "Complete", attempt |-> srv.attempt]>>
                 \o SnapshotMsg(next))
      /\ UNCHANGED <<c, eng, upsets>>

\* What the client said in a frame reaches the server; a proof counts for the
\* attempt it names, at the barrier it is for.
Heard(s, k) ==
  LET right == k.online /\ s.here /\ s.dur # "Active" /\ k.attempt = s.attempt
  IN  [s EXCEPT !.loaded = @ \/ (right /\ s.stage = "load" /\ "loaded" \in k.says),
                !.applied = @ \/ (right /\ s.stage = "apply" /\ "applied" \in k.says)]

\* A completion is replayed from the journal to a member that still asks.
Replayed(s, k) ==
  IF k.online /\ s.here /\ s.dur = "Active" /\ "applied" \in k.says
       /\ k.attempt \in 1..s.attempt
  THEN <<[type |-> "Complete", attempt |-> k.attempt]>> \o SnapshotMsg(s)
  ELSE <<>>

-----------------------------------------------------------------------------
(***************************************************************************)
(* The engine: the world the player stands in, with the attempt whose       *)
(* checkpoint it was loaded for (0: the player loaded it), the load under   *)
(* way, and a requested return to the main menu.                            *)
(***************************************************************************)
Kinds == {"ordinary", "campaign"}
Engine ==
  [world: {"menu", "loading"} \cup Kinds, of: Attempts,
   load: [kind: Kinds, of: Attempts] \cup {None}, reset: BOOLEAN]

\* Nothing seen and nothing loading are no snapshot and no load.
ASSUME NoneAssumption ==
  None \notin Runtimes \cup [kind: Kinds, of: Attempts]

InWorld == eng.world \in Kinds
Resting == eng.load = None /\ ~eng.reset

Loading(kind, of) == [eng EXCEPT !.load = [kind |-> kind, of |-> of]]
Arrived(kind, of) ==
  [world |-> kind, of |-> of, load |-> None, reset |-> FALSE]
\* The engine after a native load that was refused, accepted or finished.
AfterLoad(result, kind, of) ==
  CASE result = "accepted" -> Loading(kind, of)
    [] result = "loaded" -> Arrived(kind, of)
    [] OTHER -> eng

\* The client after the transport update of a frame with n packets, and after
\* the updates of the native load, the recovery and the resume service.
Polled(n, intact, guarded) ==
  LET packets[i \in 0..n] == IF i = 0 THEN BeforeWorldUpdate(c, guarded)
                             ELSE Receive(packets[i - 1], inbox[i], intact)
  IN  TransportUpdate(packets[n])
Updated(alive, step) == ResumeUpdate(RecoveryUpdate(NativeLoadUpdate(alive, step)))

\* One frame: BeforeWorldUpdate; the packets that have arrived; the updates; and
\* the main menu the player asked for, which comes before the next frame.
Frame(n, step, intact, guarded) ==
  LET alive == Polled(n, intact, guarded)
      done  == Updated(alive, step)
      armed == step \in Invocations /\ IsActive(alive) /\ CanArm(alive.gate)
      menu  == done.mode = "DisconnectIncident" /\ done.menuRequested
      after == IF armed THEN AfterLoad(step, "campaign", alive.attempt) ELSE eng
  IN  /\ ~eng.reset /\ n <= Len(inbox)
      /\ Possible(c, step)
      /\ c.firstUpdate \/ guarded
      /\ intact \/ \E i \in 1..n : inbox[i].type = "Load"
      /\ c' = [done EXCEPT !.says = {}]
      /\ eng' = [after EXCEPT !.reset = menu]
      /\ srv' = Heard(srv, done)
      /\ inbox' = SubSeq(inbox, n + 1, Len(inbox)) \o Replayed(srv, done)
      /\ UNCHANGED upsets
AnyFrame ==
  \E n \in 0..Len(inbox), step \in LoadSteps, intact, guarded \in BOOLEAN :
     Frame(n, step, intact, guarded)

\* TESLoadGameEvent.
WorldArrives ==
  /\ eng.load # None /\ eng.world # "menu" /\ ~eng.reset
  /\ eng' = Arrived(eng.load.kind, eng.load.of)
  /\ c' = OnPostLoad(c)
  /\ UNCHANGED <<srv, inbox, upsets>>

\* EvaluateCampaignLoadPolicy lets the player load nothing while the runtime is
\* sensitive.
PlayerMayLoad == Resting /\ ~c.admitted /\ ~IsLocked(c.gate)

\* A campaign save chosen by the player, through Load_Impl: the resume service
\* names it and arms the gate before the engine sees it.
ManagedLoad(k, result) ==
  LET named   == [k EXCEPT !.identity = TRUE, !.continuing = FALSE,
                           !.gate = LoadEntered(ArmResumeRequiredLoad(@))]
  IN  CASE result = "refused" ->
             [named EXCEPT !.gate = LoadRefused(@), !.identity = FALSE]
        [] result = "accepted" -> named

PlayerLoad(kind, result) ==
  /\ PlayerMayLoad /\ eng.world # "loading"
  /\ kind = "campaign" => CanArm(c.gate)
  /\ c' = IF kind = "campaign" THEN ManagedLoad(c, result) ELSE c
  /\ eng' = AfterLoad(result, kind, 0)
  /\ UNCHANGED <<srv, inbox, upsets>>

\* Continue in the main menu never reaches Load_Impl: the fence waits for the
\* main menu to close.
ContinueLoad(accepted) ==
  /\ PlayerMayLoad /\ eng.world = "menu"
  /\ c' = [c EXCEPT !.continuing = accepted, !.identity = accepted]
  /\ eng' = IF accepted THEN Loading("campaign", 0) ELSE eng
  /\ UNCHANGED <<srv, inbox, upsets>>

\* CommitContinueMainMenuClosed.
CommitContinueMainMenuClosed(k) ==
  LET armed == ArmResumeRequiredLoad(k.gate)
  IN  IF ~k.continuing THEN k
      ELSE IF CanArm(k.gate) /\ CanCommit(armed)
      THEN ResumePostLoad(
             [k EXCEPT !.continuing = FALSE, !.firstUpdate = TRUE,
                       !.gate = CommitResumeRequiredTransition(armed)])
      ELSE [k EXCEPT !.continuing = FALSE, !.identity = FALSE,
                     !.gate = IF CanArm(k.gate) THEN CancelArmedLoad(armed) ELSE @]

MainMenuCloses ==
  /\ eng.world = "menu" /\ eng.load # None
  /\ eng' = [eng EXCEPT !.world = "loading"]
  /\ c' = CommitContinueMainMenuClosed(c)
  /\ UNCHANGED <<srv, inbox, upsets>>

\* The main menu opens: the player quit, or asked for it in the incident UI.
\* The input of a fenced game is locked, so its player cannot quit.
MainMenuOpens ==
  /\ Upset
  /\ eng.reset \/ (InWorld /\ Resting /\ ~IsLocked(c.gate))
  /\ c.online => CanLose(srv)
  /\ eng' = [world |-> "menu", of |-> 0, load |-> None, reset |-> FALSE]
  /\ c' = OnMainMenuEntered(c)
  /\ IF c'.online \/ ~c.online THEN UNCHANGED <<srv, inbox>>
     ELSE srv' = SrvGone(srv) /\ inbox' = <<>>

\* OnConnected, from a loaded world: a reconnect resumes by itself.
Connect ==
  /\ ~c.online /\ InWorld /\ Resting
  /\ c' = [c EXCEPT !.online = TRUE]
  /\ srv' = [srv EXCEPT !.hello =
               IF ~c.candidate THEN "none"
               ELSE IF c.wantsRestore THEN "restore" ELSE "plain"]
  /\ UNCHANGED <<eng, inbox, upsets>>

\* Select in the resume UI, and Retry after a failed recovery.
Select ==
  /\ InWorld /\ Resting
  /\ c.online /\ srv.hello = "none" /\ inbox = <<>>
  /\ ~c.admitted \/ (c.required /\ c.stage = "Failed")
  /\ c' = [c EXCEPT !.wantsRestore = TRUE]
  /\ srv' = [srv EXCEPT !.hello = "restore"]
  /\ UNCHANGED <<eng, inbox, upsets>>

\* The buttons of the incident UI.
ReturnToMainMenu ==
  /\ InWorld /\ Resting /\ c.mode = "DisconnectIncident" /\ ~c.menuRequested
  /\ c' = [c EXCEPT !.menuRequested = TRUE]
  /\ UNCHANGED <<eng, srv, inbox, upsets>>
StayAndRecover ==
  /\ InWorld /\ Resting /\ c.mode = "DisconnectIncident" /\ ~c.menuRequested
  /\ c' = [c EXCEPT !.mode = "ExistingRecovery"]
  /\ UNCHANGED <<eng, srv, inbox, upsets>>

\* The connection is lost, alone or with the server process.
Disconnection(server) ==
  /\ c.online /\ Upset
  /\ c' = OnDisconnected(c)
  /\ srv' = server
  /\ inbox' = <<>>
  /\ UNCHANGED eng
LinkLost == CanLose(srv) /\ Disconnection(SrvGone(srv))
ServerCrash ==
  Disconnection([Relocked(srv) EXCEPT !.here = FALSE, !.others = FALSE,
                                      !.pending = FALSE, !.hello = "none"])

-----------------------------------------------------------------------------
Init ==
  /\ \/ c = Booted /\ eng = [world |-> "menu", of |-> 0, load |-> None, reset |-> FALSE]
     \/ c = Playing /\ eng = Arrived("campaign", 1)
  /\ srv = [dur |-> "Active", attempt |-> 1, stage |-> "wait",
            here |-> c.admitted, others |-> TRUE, pending |-> FALSE,
            hello |-> "none", loaded |-> FALSE, applied |-> FALSE]
  /\ inbox = <<>> /\ upsets = 0

Next ==
  \/ AnyFrame \/ WorldArrives \/ MainMenuCloses \/ MainMenuOpens
  \/ \E kind \in Kinds, result \in {"refused", "accepted"} :
        PlayerLoad(kind, result)
  \/ \E accepted \in BOOLEAN : ContinueLoad(accepted)
  \/ Connect \/ Select \/ ReturnToMainMenu \/ StayAndRecover
  \/ SrvResume \/ SrvReject \/ SrvOthersLeave \/ SrvOthersReturn
  \/ SrvRestore \/ SrvComplete
  \/ LinkLost \/ ServerCrash

Spec == Init /\ [][Next]_vars

\* Frames keep coming, and steady_clock passes every deadline.  The formula is
\* weak fairness of DeadlineFrame, with DeadlineDue for what enables it.
DeadlineFrame == IsActive(c) /\ Frame(0, "deadline", TRUE, TRUE)
DeadlineDue ==
  /\ IsActive(c) /\ ~eng.reset
  /\ [Updated(Polled(0, TRUE, TRUE), "deadline") EXCEPT !.says = {}] # c
FairSpec == Spec /\ ([]<>~DeadlineDue \/ []<><<DeadlineFrame>>_vars)

-----------------------------------------------------------------------------
(***************************************************************************)
(* Properties.                                                              *)
(***************************************************************************)
Messages ==
  [type: {"Response", "Rejected"}] \cup [type: {"Snapshot"}, runtime: Runtimes]
    \cup [type: {"Load", "Restored", "Complete"}, attempt: Attempts]

\* Every service, engine and server state has the shape its class declares;
\* proofs belong to an open load request and an admission to a connection.
TypeOK ==
  /\ c \in Client /\ eng \in Engine /\ srv \in Server
  /\ c.proof # {} => IsActive(c)
  /\ c.admitted => c.online
  /\ inbox \in Seq(Messages) /\ upsets \in 0..MaxUpsets

\* A campaign save the player loaded is fenced from its arrival until a
\* collective recovery replaced its world.
FencedUntilRecovered ==
  eng.world = "campaign" /\ eng.of = 0 => IsLocked(c.gate)

\* The fence around a save the player loaded goes away in the main menu, or
\* through what the recovery service remembers of an earlier session: a
\* provisional lock, or an attempt that was completed without it.  No other
\* packet, frame or load result opens it.
Remembered(k) ==
  \/ k.stage = "RecoveryLocked" /\ ~k.authoritative
  \/ k.stage = "SnapshotApplied"
FenceEndsInRecovery ==
  [][eng.world = "campaign" /\ eng.of = 0
       /\ IsLocked(c.gate) /\ ~IsLocked(c'.gate)
       => eng'.world = "menu" \/ Remembered(c)]_vars

\* The server counts a member as loaded only while that member stands in the
\* native world of the attempt's checkpoint.
LoadedProofIsReal ==
  srv.loaded => eng.world = "campaign" /\ eng.of = srv.attempt

\* A fence nobody owns does not survive in the main menu.
MenuIsUsable == eng.world = "menu" /\ eng.load = None => ~IsLocked(c.gate)

\* A member that was told of a recovery is behind the gate until the
\* completion of that recovery, whatever it was loading, confirming or leaving
\* when the snapshot came.
RecoveringIsFenced ==
  c.admitted /\ c.snapshot \in Recovering /\ c.stage # "Completed"
    => IsLocked(c.gate)

\* A native load that was asked for is proven or given up: no artifact check,
\* lost world or missing guard menu holds the barrier for ever.
LoadingSettles ==
  c.stage = "LoadingNativeSave" ~> c.stage # "LoadingNativeSave" \/ eng.reset
=============================================================================
