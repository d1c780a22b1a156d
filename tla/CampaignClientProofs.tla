------------------------- MODULE CampaignClientProofs -------------------------
(***************************************************************************)
(* One client process, for any number of attempts, lost links, crashes and  *)
(* departures.                                                              *)
(*                                                                          *)
(* The invariant relates the services of the client to the engine and to    *)
(* the attempt of the server.  What it says of a native load it says only   *)
(* while the attempt of that load is open (~Past): a member may stay in an  *)
(* attempt that is over, and then its world proves nothing.                 *)
(***************************************************************************)
EXTENDS CampaignClient, WellFoundedInduction, TLAPS

-----------------------------------------------------------------------------
(* The invariant.                                                           *)

LoadedStages == {"NativeSaveLoaded", "SnapshotApplied"}

\* The services by themselves: proofs are gathered in order and by an open
\* request, which the recovery is loading for; a gate locked for a recovery
\* is owned by one.
Sound(k) ==
  /\ k \in Client
  /\ k.proof # {} => IsActive(k) /\ "entered" \in k.proof
  /\ k.request = "ValidatingArtifact" => k.proof = {}
  /\ "guard" \in k.proof \/ "transport" \in k.proof => "postload" \in k.proof
  /\ IsActive(k) => k.stage = "LoadingNativeSave"
  /\ k.gate.state = "RecoveryLocked" => k.gate.recovery

\* A member that was told of a recovery is behind a gate the recovery owns.
Owned(g) == g.recovery /\ IsLocked(g)
Fenced(k) ==
  /\ k.admitted => k.online
  /\ ~k.admitted => k.snapshot = None
  /\ k.admitted /\ k.snapshot \in Recovering /\ k.stage # "Completed" => Owned(k.gate)

\* Attempt a of server s is over.
Past(s, a) == s.attempt > a \/ (s.attempt = a /\ s.dur = "Active")

\* The player has no way to the main menu, now or after losing the link.
Captive(k) == k.mode # "DisconnectIncident" /\ ~(k.mode = "Hidden" /\ k.sawActive)

Arriving(k, e) ==
  /\ e.load = [kind |-> "campaign", of |-> k.attempt] /\ ~e.reset
  /\ k.gate.state = "ArmedDuringLoad"
Standing(k, e) ==
  /\ e.world = "campaign" /\ e.of = k.attempt /\ e.load = None /\ ~e.reset
  /\ IsLocked(k.gate)

\* What a load has proven is so.
Real(k, e) ==
  /\ k.stage = "LoadingNativeSave" =>
       /\ "entered" \in k.proof /\ "postload" \notin k.proof => Arriving(k, e)
       /\ "postload" \in k.proof \/ k.request = "Completed" => Standing(k, e)
  /\ k.stage \in LoadedStages => Standing(k, e) /\ Captive(k)
\* A load is under way with the player captive; out: or has not begun.
Kept(k, out) ==
  k.stage = "LoadingNativeSave" => Captive(k) \/ (k.request = "ValidatingArtifact" /\ out)
Honest(k, s, e, out) ==
  /\ k.attempt <= s.attempt
  /\ k.snapshot = "Active" => Past(s, k.attempt)
  /\ ~Past(s, k.attempt) => Real(k, e) /\ Kept(k, out)

\* What is on the wire is what the server says now: a burst is sent on an
\* empty wire.
Fits(m, s) ==
  /\ m.type = "Snapshot" => m.runtime = Wire(s)
  /\ m.type = "Load" => m.attempt = s.attempt /\ s.dur # "Active"
  /\ m.type = "Restored" => m.attempt = s.attempt /\ s.dur # "Active"
  /\ m.type = "Complete" => m.attempt <= s.attempt /\ s.dur = "Active"
\* The order within a burst.
Burst(q, s) ==
  \A j \in 1..Len(q) :
    /\ Fits(q[j], s)
    /\ q[j].type \in {"Response", "Rejected"} => j = 1
    /\ q[j].type \in {"Load", "Restored"} /\ j > 1 => q[j - 1].type = "Snapshot"
    /\ q[j].type = "Snapshot" /\ s.dur = "Active" => j = Len(q)
    /\ q[j].type = "Complete" => j = Len(q) - 1

\* What the client knows of the burst, and the server of the client.
Linked(k, s, q) ==
  /\ ~k.online => ~s.here /\ q = <<>> /\ s.hello = "none"
  /\ k.admitted => s.here
  /\ s.here /\ ~k.admitted => q # <<>> /\ q[1].type = "Response"
  /\ ~s.here /\ q # <<>> => Len(q) = 1 /\ q[1].type = "Rejected"
  /\ q # <<>> /\ q[1].type \in {"Load", "Restored"} => k.snapshot \in Recovering
  /\ \A j \in 1..Len(q) : q[j].type = "Complete" => k.stage = "SnapshotApplied"
Counted(k, s) ==
  /\ s.loaded \/ s.applied => s.here /\ s.dur # "Active" /\ k.attempt = s.attempt
  /\ s.loaded => k.stage \in LoadedStages
  /\ s.applied => k.stage = "SnapshotApplied"

ClientInv ==
  /\ Sound(c) /\ Fenced(c) /\ c.says = {}
  /\ Honest(c, srv, eng, eng.reset)
  /\ eng \in Engine /\ srv \in Server /\ srv.attempt > 0
  /\ inbox \in Seq(Messages) /\ Burst(inbox, srv)
  /\ Linked(c, srv, inbox) /\ Counted(c, srv)
  /\ upsets \in 0..MaxUpsets

-----------------------------------------------------------------------------
(* The gate.                                                                *)

LEMMA GateTypes ==
  ASSUME NEW g \in Gate
  PROVE  /\ Hold(g) \in Gate /\ LockForRecovery(g) \in Gate
         /\ ArmNextLoad(g) \in Gate /\ ArmResumeRequiredLoad(g) \in Gate
         /\ CancelArmedLoad(g) \in Gate /\ CommitResumeRequiredTransition(g) \in Gate
         /\ LoadEntered(g) \in Gate /\ LoadRefused(g) \in Gate
         /\ PostLoaded(g) \in Gate /\ Release(g) \in Gate
  BY DEF Gate, GateStates, Hold, LetGo, LockForRecovery, ArmNextLoad, ArmResumeRequiredLoad,
         CancelArmedLoad, Disarmed, CommitResumeRequiredTransition, LoadEntered, LoadRefused,
         PostLoaded, Release

\* A lock the recovery marks as its own.
Marked(g) == g.state = "RecoveryLocked" => g.recovery

\* What keeps a gate locked, and who owns it then.
LEMMA GateHeld ==
  ASSUME NEW g \in Gate
  PROVE  /\ Hold(g).state = g.state /\ Hold(g).recovery = g.recovery
         /\ Hold(g).resume = g.resume /\ (IsLocked(Hold(g)) <=> IsLocked(g))
         /\ Owned(LockForRecovery(g)) /\ Marked(LockForRecovery(g))
         /\ IsLocked(LockForRecovery(g)) /\ LockForRecovery(g).recovery
         /\ g.state \notin {"Open", "Released"} => LockForRecovery(g).state = g.state
         /\ Marked(g) => Marked(Hold(g)) /\ Marked(CancelArmedLoad(g))
         /\ Marked(Release(g)) \/ ~Marked(g)
         /\ g.recovery /\ IsLocked(g) => Owned(CancelArmedLoad(g))
         /\ IsLocked(PostLoaded(g)) /\ Marked(PostLoaded(g))
         /\ PostLoaded(g).recovery = g.recovery
         /\ PostLoaded(g).state = "LockedAfterLoad"
  BY DEF Gate, GateStates, Hold, LockForRecovery, IsLocked, Owned, Marked, CancelArmedLoad,
         Disarmed, Release, LetGo, PostLoaded

-----------------------------------------------------------------------------
(* The services keep their types.                                           *)

LEMMA RequestTypes ==
  ASSUME NEW k \in Client
  PROVE  /\ FailRequest(k) \in Client /\ CompleteIfProven(k) \in Client
         /\ \A fact \in Proofs : Proven(k, fact) \in Client
  <1>0. ASSUME NEW n \in Client, NEW r \in RequestStates
        PROVE  [n EXCEPT !.request = r, !.proof = {}] \in Client
    BY DEF Client
  <1>f. "Failed" \in RequestStates /\ "Completed" \in RequestStates
    BY DEF RequestStates
  <1>1. FailRequest(k) \in Client
    <2>1. [k EXCEPT !.request = "Failed", !.proof = {}] \in Client
      BY <1>0, <1>f
    <2> QED  BY <2>1 DEF FailRequest
  <1>2. ASSUME NEW n \in Client PROVE CompleteIfProven(n) \in Client
    <2>1. [n EXCEPT !.request = "Completed", !.proof = {}] \in Client
      BY <1>0, <1>f
    <2> QED  BY <2>1 DEF CompleteIfProven
  <1>3. ASSUME NEW fact \in Proofs PROVE [k EXCEPT !.proof = @ \cup {fact}] \in Client
    BY DEF Client
  <1> QED  BY <1>1, <1>2, <1>3 DEF Proven

LEMMA ReturnTypes ==
  ASSUME NEW k \in Client, NEW accepted \in BOOLEAN
  PROVE  RequestReturned(k, accepted) \in Client
  <1>1. ASSUME NEW n \in Client PROVE [n EXCEPT !.gate = CancelArmedLoad(@)] \in Client
    BY GateTypes DEF Client
  <1>2. [k EXCEPT !.request = IF "postload" \in k.proof
                   THEN "AwaitingSafetyProof" ELSE "AwaitingPostLoad"] \in Client
    BY DEF Client, RequestStates
  <1>3. "accepted" \in Proofs
    BY DEF Proofs
  <1> QED  BY <1>1, <1>2, <1>3, RequestTypes DEF RequestReturned

LEMMA PostLoadTypes ==
  ASSUME NEW k \in Client
  PROVE  RequestPostLoad(k) \in Client /\ ResumePostLoad(k) \in Client /\ OnPostLoad(k) \in Client
  <1>1. "postload" \in Proofs
    BY DEF Proofs
  <1>2. ASSUME NEW n \in Client PROVE RequestPostLoad(n) \in Client
    <2>1. [n EXCEPT !.request = "AwaitingSafetyProof"] \in Client
      BY DEF Client, RequestStates
    <2> QED  BY <1>1, <2>1, RequestTypes DEF RequestPostLoad
  <1>3. ASSUME NEW n \in Client PROVE ResumePostLoad(n) \in Client
    <2>1. [n EXCEPT !.required = TRUE, !.observed = FALSE, !.continuing = FALSE] \in Client
      BY DEF Client
    <2> QED  BY <2>1 DEF ResumePostLoad
  <1>4. [k EXCEPT !.gate = PostLoaded(@), !.firstUpdate = TRUE] \in Client
    BY GateTypes DEF Client
  <1> QED  BY <1>2, <1>3, <1>4 DEF OnPostLoad

LEMMA UpdateTypes ==
  ASSUME NEW k \in Client
  PROVE  /\ \A guarded \in BOOLEAN : BeforeWorldUpdate(k, guarded) \in Client
         /\ TransportUpdate(k) \in Client
         /\ RecoveryUpdate(k) \in Client
         /\ ResumeUpdate(k) \in Client
  <1>1. [k EXCEPT !.gate = Hold(@), !.firstUpdate = FALSE] \in Client
    BY GateTypes DEF Client
  <1>2. "guard" \in Proofs /\ "transport" \in Proofs
    BY DEF Proofs
  <1>3. ASSUME NEW guarded \in BOOLEAN PROVE BeforeWorldUpdate(k, guarded) \in Client
    BY <1>1, <1>2, RequestTypes DEF BeforeWorldUpdate
  <1>4. TransportUpdate(k) \in Client
    BY <1>2, RequestTypes DEF TransportUpdate
  <1>5. RecoveryUpdate(k) \in Client
    <2>1. [k EXCEPT !.stage = "NativeSaveLoaded", !.says = @ \cup {"loaded"}] \in Client
      BY DEF Client, Stages
    <2>2. [k EXCEPT !.stage = "Failed"] \in Client
      BY DEF Client, Stages
    <2> QED  BY <2>1, <2>2 DEF RecoveryUpdate
  <1>6. ASSUME NEW n \in Client PROVE ObserveSnapshot(n) \in Client
    <2>1. [n EXCEPT !.sawActive = TRUE] \in Client
      BY DEF Client
    <2>2. [n EXCEPT !.mode = "DisconnectIncident", !.menuRequested = FALSE] \in Client
      BY DEF Client
    <2> QED  BY <2>1, <2>2 DEF ObserveSnapshot
  <1>7. ASSUME NEW n \in Client, NEW x \in BOOLEAN PROVE [n EXCEPT !.observed = x] \in Client
    BY DEF Client
  <1>8. ASSUME NEW n \in Client PROVE CloseUi(n) \in Client
    BY DEF Client, CloseUi
  <1>9. ASSUME NEW n \in Client PROVE CloseIncident(n) \in Client
    BY <1>8 DEF CloseIncident
  <1>10. ASSUME NEW n \in Client PROVE CloseResume(n) \in Client
    <2>0. ASSUME NEW u \in Client
          PROVE  [u EXCEPT !.required = FALSE, !.identity = FALSE, !.wantsRestore = FALSE] \in Client
      BY ZenonT(60) DEF Client
    <2>1. [CloseUi(n) EXCEPT !.required = FALSE, !.identity = FALSE, !.wantsRestore = FALSE] \in Client
      BY <1>8, <2>0
    <2> QED  BY <2>1 DEF CloseResume
  <1>11. ASSUME NEW n \in Client PROVE ObserveCanonicalState(n) \in Client
    <2> DEFINE ui == ObserveSnapshot(n)
               x == ui.observed \/ (ui.required /\ ui.snapshot \in Recovering)
               seen == [ui EXCEPT !.observed = x]
    <2>1. ui \in Client
      BY <1>6
    <2> HIDE DEF ui
    <2>2. x \in BOOLEAN
      BY <2>1 DEF Client
    <2> HIDE DEF x
    <2>3. seen \in Client
      BY <2>1, <2>2, <1>7
    <2> HIDE DEF seen
    <2>4. ObserveCanonicalState(n) = IF n.snapshot = None THEN n ELSE CloseResume(CloseIncident(seen))
      BY DEF ObserveCanonicalState, seen, x, ui
    <2> QED  BY <2>3, <2>4, <1>9, <1>10
  <1>12. ASSUME NEW n \in Client PROVE [n EXCEPT !.mode = "ExistingRecovery"] \in Client
    BY DEF Client
  <1>13. ResumeUpdate(k) \in Client
    BY <1>11, <1>12 DEF ResumeUpdate
  <1> QED  BY <1>3, <1>4, <1>5, <1>13

LEMMA InvocationTypes ==
  ASSUME NEW k \in Client, NEW step \in LoadSteps
  PROVE  NativeLoadUpdate(k, step) \in Client
  <1> DEFINE armed   == [k EXCEPT !.request = "Invoking", !.gate = ArmNextLoad(@)]
             entered == [armed EXCEPT !.proof = {"entered"}, !.gate = LoadEntered(@)]
  <1>1. armed \in Client
    BY GateTypes DEF Client, RequestStates
  <1> HIDE DEF armed
  <1>2. entered \in Client
    BY <1>1, GateTypes DEF Client, Proofs
  <1> HIDE DEF entered
  <1>3. [armed EXCEPT !.gate = CancelArmedLoad(@)] \in Client
    BY <1>1, GateTypes DEF Client
  <1>4. [entered EXCEPT !.gate = LoadRefused(@)] \in Client
    BY <1>2, GateTypes DEF Client
  <1>5. ASSUME NEW result \in Invocations PROVE BeginNativeInvocation(k, result) \in Client
    <2>1. FailRequest(k) \in Client /\ FailRequest([armed EXCEPT !.gate = CancelArmedLoad(@)]) \in Client
      BY <1>3, RequestTypes
    <2>2. RequestReturned([entered EXCEPT !.gate = LoadRefused(@)], FALSE) \in Client
      BY <1>4, ReturnTypes
    <2>3. RequestReturned(entered, TRUE) \in Client /\ RequestReturned(OnPostLoad(entered), TRUE) \in Client
      BY <1>2, ReturnTypes, PostLoadTypes
    <2> QED  BY <2>1, <2>2, <2>3 DEF BeginNativeInvocation, Invocations, armed, entered
  <1> QED  BY <1>5, RequestTypes DEF NativeLoadUpdate

LEMMA LockTypes ==
  ASSUME NEW k \in Client, NEW authoritative \in BOOLEAN
  PROVE  Lock(k, authoritative) \in Client
  <1> DEFINE fresh == k.stage \in {"Idle", "Completed"}
             st == IF fresh THEN "RecoveryLocked" ELSE k.stage
             at == IF fresh THEN 0 ELSE k.attempt
             au == (~fresh /\ k.authoritative) \/ authoritative
             g == LockForRecovery(k.gate)
  <1>1. st \in Stages
    BY DEF Client, Stages
  <1>2. at \in Attempts
    BY ClientAssumption DEF Client, Attempts
  <1>3. au \in BOOLEAN
    OBVIOUS
  <1>4. g \in Gate
    BY GateTypes DEF Client
  <1>5. Lock(k, authoritative) =
          [k EXCEPT !.stage = st, !.attempt = at, !.authoritative = au, !.gate = g]
    BY DEF Lock
  <1> HIDE DEF st, at, au, g
  <1>6. [k EXCEPT !.stage = st, !.attempt = at, !.authoritative = au, !.gate = g] \in Client
    BY <1>1, <1>2, <1>3, <1>4 DEF Client
  <1> QED  BY <1>5, <1>6

LEMMA SnapshotTypes ==
  ASSUME NEW k \in Client, NEW runtime \in Runtimes
  PROVE  OnCampaignSnapshot(k, runtime) \in Client
  <1>1. [k EXCEPT !.snapshot = runtime] \in Client
    BY DEF Client
  <1> DEFINE seen == [k EXCEPT !.snapshot = runtime, !.protect = runtime # "Waiting"]
  <1>2. seen \in Client
    BY DEF Client
  <1> HIDE DEF seen
  <1>3. Lock([seen EXCEPT !.wantsRestore = FALSE], TRUE) \in Client
    <2>1. [seen EXCEPT !.wantsRestore = FALSE] \in Client
      BY <1>2 DEF Client
    <2> QED  BY <2>1, LockTypes
  <1>4. ObserveAuthoritativeActive(seen) \in Client
    <2>1. [seen EXCEPT !.says = @ \cup {"applied"}] \in Client
      BY <1>2 DEF Client
    <2>2. [seen EXCEPT !.stage = "Idle", !.gate = Release(@)] \in Client
      BY <1>2, GateTypes DEF Client, Stages
    <2> QED  BY <1>2, <2>1, <2>2 DEF ObserveAuthoritativeActive
  <1>5. OnCampaignSnapshot(k, runtime) \in
          {[k EXCEPT !.snapshot = runtime], seen, ObserveAuthoritativeActive(seen),
           Lock([seen EXCEPT !.wantsRestore = FALSE], TRUE)}
    BY DEF OnCampaignSnapshot, seen
  <1> QED  BY <1>1, <1>2, <1>3, <1>4, <1>5

LEMMA LoadTypes ==
  ASSUME NEW k \in Client, NEW attempt \in Attempts, NEW intact \in BOOLEAN
  PROVE  OnLoadRequest(k, attempt, intact) \in Client
  <1>1. ASSUME NEW n \in Client PROVE RequestForRecovery(n, intact) \in Client
    <2> DEFINE ready == IF n.request = "Failed"
                        THEN [n EXCEPT !.request = "Idle", !.proof = {},
                                       !.gate = CancelArmedLoad(@)]
                        ELSE n
    <2>1. [n EXCEPT !.request = "Idle", !.proof = {}, !.gate = CancelArmedLoad(@)] \in Client
      BY GateTypes DEF Client, RequestStates
    <2>2. ready \in Client
      BY <2>1
    <2> HIDE DEF ready
    <2>3. [ready EXCEPT !.request = "ValidatingArtifact", !.proof = {}] \in Client
      BY <2>2 DEF Client, RequestStates
    <2>4. [ready EXCEPT !.stage = "Failed"] \in Client
      BY <2>2 DEF Client, Stages
    <2> QED  BY <2>3, <2>4 DEF RequestForRecovery, ready
  <1> DEFINE locked == Lock(k, TRUE)
  <1>2. locked \in Client
    BY LockTypes
  <1> HIDE DEF locked
  <1>3. [locked EXCEPT !.stage = "LoadingNativeSave", !.attempt = attempt] \in Client
    BY <1>2 DEF Client, Stages
  <1>4. [locked EXCEPT !.says = @ \cup {"loaded"}] \in Client
    BY <1>2 DEF Client
  <1>5. OnLoadRequest(k, attempt, intact) \in
          {k, locked, [locked EXCEPT !.says = @ \cup {"loaded"}],
           RequestForRecovery([locked EXCEPT !.stage = "LoadingNativeSave",
                                             !.attempt = attempt], intact)}
    BY DEF OnLoadRequest, locked
  <1> QED  BY <1>1, <1>2, <1>3, <1>4, <1>5

LEMMA RestoredTypes ==
  ASSUME NEW k \in Client, NEW attempt \in Attempts
  PROVE  /\ OnRecoverySnapshot(k, attempt) \in Client
         /\ OnRecoveryComplete(k, attempt) \in Client
  <1>1. [k EXCEPT !.stage = "SnapshotApplied", !.snapshot = "Restoring",
                  !.says = @ \cup {"applied"}] \in Client
    BY DEF Client, Stages, Runtimes
  <1>2. [k EXCEPT !.says = @ \cup {"applied"}] \in Client
    BY DEF Client
  <1>3. ReleaseForRecovery(k) \in Client
    <2>1. [k EXCEPT !.gate = CancelArmedLoad(Release(@)), !.request = "Idle", !.proof = {}] \in Client
      BY GateTypes DEF Client, RequestStates
    <2> QED  BY <2>1 DEF ReleaseForRecovery
  <1>4. [ReleaseForRecovery(k) EXCEPT !.stage = "Completed", !.protect = TRUE,
                                      !.wantsRestore = FALSE] \in Client
    BY <1>3 DEF Client, Stages
  <1> QED  BY <1>1, <1>2, <1>4 DEF OnRecoverySnapshot, OnRecoveryComplete

LEMMA ReceiveTypes ==
  ASSUME NEW k \in Client, NEW m \in Messages, NEW intact \in BOOLEAN
  PROVE  Receive(k, m, intact) \in Client
  <1>1. [k EXCEPT !.admitted = TRUE, !.candidate = TRUE] \in Client
    BY DEF Client
  <1>2. [k EXCEPT !.wantsRestore = FALSE] \in Client
    BY DEF Client
  <1>3. CASE m \in [type: {"Response", "Rejected"}]
    BY <1>1, <1>2, <1>3 DEF Receive
  <1>4. CASE m \in [type: {"Snapshot"}, runtime: Runtimes]
    BY <1>4, SnapshotTypes DEF Receive
  <1>5. CASE m \in [type: {"Load", "Restored", "Complete"}, attempt: Attempts]
    BY <1>5, LoadTypes, RestoredTypes DEF Receive
  <1> QED  BY <1>3, <1>4, <1>5 DEF Messages

LEMMA OtherTypes ==
  ASSUME NEW k \in Client
  PROVE  /\ OnDisconnected(k) \in Client
         /\ OnMainMenuEntered(k) \in Client
         /\ CommitContinueMainMenuClosed(k) \in Client
         /\ \A result \in {"refused", "accepted"} : ManagedLoad(k, result) \in Client
  <1>1. OnDisconnected(k) \in Client
    <2> DEFINE gone == [k EXCEPT !.online = FALSE, !.admitted = FALSE,
                                 !.candidate = @ \/ k.admitted, !.snapshot = None]
               locked == IF k.protect THEN Lock(gone, FALSE) ELSE gone
    <2>0. ASSUME NEW x \in BOOLEAN
          PROVE  [k EXCEPT !.online = FALSE, !.admitted = FALSE,
                           !.candidate = x, !.snapshot = None] \in Client
      BY DEF Client
    <2>1. gone \in Client
      BY <2>0 DEF Client
    <2> HIDE DEF gone
    <2>2. locked \in Client
      BY <2>1, LockTypes
    <2> HIDE DEF locked
    <2>3. [locked EXCEPT !.mode = "DisconnectIncident", !.menuRequested = FALSE] \in Client
      BY <2>2 DEF Client
    <2> QED  BY <2>2, <2>3 DEF OnDisconnected, locked, gone
  <1>2. OnMainMenuEntered(k) \in Client
    <2> DEFINE departed == k.admitted \/ k.candidate
               gone == [k EXCEPT !.admitted = FALSE, !.candidate = FALSE,
                                 !.wantsRestore = FALSE, !.snapshot = None,
                                 !.online = @ /\ ~departed,
                                 !.protect = @ /\ ~(k.online /\ departed)]
    <2>0. ASSUME NEW x \in BOOLEAN, NEW y \in BOOLEAN
          PROVE  [k EXCEPT !.admitted = FALSE, !.candidate = FALSE, !.wantsRestore = FALSE,
                           !.snapshot = None, !.online = x, !.protect = y] \in Client
      BY ZenonT(60) DEF Client
    <2>1. gone \in Client
      <3>1. (k.online /\ ~departed) \in BOOLEAN /\ (k.protect /\ ~(k.online /\ departed)) \in BOOLEAN
        OBVIOUS
      <3> QED  BY <2>0, <3>1
    <2> HIDE DEF gone
    <2>2. CloseUi(gone) \in Client
      BY <2>1 DEF Client, CloseUi
    <2>3. ASSUME NEW n \in Client
          PROVE  [n EXCEPT !.gate = IF IsLocked(@) THEN Release(@) ELSE @] \in Client
      BY GateTypes DEF Client
    <2> QED  BY <2>2, <2>3 DEF OnMainMenuEntered, gone
  <1>3. CommitContinueMainMenuClosed(k) \in Client
    <2> DEFINE armed == ArmResumeRequiredLoad(k.gate)
    <2>1. armed \in Gate
      BY GateTypes DEF Client
    <2> HIDE DEF armed
    <2>2. [k EXCEPT !.continuing = FALSE, !.firstUpdate = TRUE,
                    !.gate = CommitResumeRequiredTransition(armed)] \in Client
      BY <2>1, GateTypes DEF Client
    <2>3. [k EXCEPT !.continuing = FALSE, !.identity = FALSE,
                    !.gate = IF CanArm(k.gate) THEN CancelArmedLoad(armed) ELSE @] \in Client
      BY <2>1, GateTypes, ZenonT(60) DEF Client
    <2> QED  BY <2>2, <2>3, PostLoadTypes DEF CommitContinueMainMenuClosed, armed
  <1>4. ASSUME NEW result \in {"refused", "accepted"} PROVE ManagedLoad(k, result) \in Client
    <2> DEFINE named == [k EXCEPT !.identity = TRUE, !.continuing = FALSE,
                                  !.gate = LoadEntered(ArmResumeRequiredLoad(@))]
    <2>1. named \in Client
      BY GateTypes DEF Client
    <2> HIDE DEF named
    <2>2. [named EXCEPT !.gate = LoadRefused(@), !.identity = FALSE] \in Client
      BY <2>1, GateTypes DEF Client
    <2> QED  BY <2>1, <2>2 DEF ManagedLoad, named
  <1> QED  BY <1>1, <1>2, <1>3, <1>4

-----------------------------------------------------------------------------
(* What the updates of a load request change.                               *)

\* The gate, the request and its proofs aside, n is k.
Alike(n, k) ==
  /\ n.stage = k.stage /\ n.attempt = k.attempt /\ n.authoritative = k.authoritative
  /\ n.mode = k.mode /\ n.sawActive = k.sawActive /\ n.menuRequested = k.menuRequested
  /\ n.online = k.online /\ n.admitted = k.admitted /\ n.snapshot = k.snapshot
  /\ n.says = k.says
SameLock(g, h) == g.state = h.state /\ g.recovery = h.recovery /\ g.resume = h.resume

\* A proof more, the last proof, or a failure.
Observed(n, k) ==
  /\ n \in Client /\ Alike(n, k) /\ SameLock(n.gate, k.gate)
  /\ \/ n.request = k.request /\ n.proof = k.proof
     \/ /\ IsActive(k) /\ "postload" \in k.proof
        /\ \/ n.request \in {"Completed", "Failed"} /\ n.proof = {}
           \/ /\ n.request = k.request /\ k.proof \subseteq n.proof
              /\ n.proof \subseteq k.proof \cup {"guard", "transport"}

LEMMA FailRequestIs ==
  ASSUME NEW k \in Client
  PROVE  /\ Alike(FailRequest(k), k) /\ FailRequest(k).gate = k.gate
         /\ IsActive(k) => FailRequest(k).request = "Failed" /\ FailRequest(k).proof = {}
         /\ ~IsActive(k) => FailRequest(k) = k
  <1> DEFINE n == [k EXCEPT !.request = "Failed", !.proof = {}]
  <1>1. Alike(n, k) /\ n.gate = k.gate /\ n.request = "Failed" /\ n.proof = {}
    BY DEF Alike, Client
  <1>2. Alike(k, k)
    BY DEF Alike
  <1> HIDE DEF n
  <1>3. FailRequest(k) = IF IsActive(k) THEN n ELSE k
    BY DEF FailRequest, n
  <1> QED  BY <1>1, <1>2, <1>3

LEMMA ProvenIs ==
  ASSUME NEW k \in Client, NEW fact
  PROVE  LET n == Proven(k, fact)
             all == {"accepted", "postload", "guard", "transport"} \subseteq k.proof \cup {fact}
         IN  /\ Alike(n, k) /\ n.gate = k.gate
             /\ all => n.request = "Completed" /\ n.proof = {}
             /\ ~all => n.request = k.request /\ n.proof = k.proof \cup {fact}
  <1> DEFINE p == [k EXCEPT !.proof = @ \cup {fact}]
             d == [p EXCEPT !.request = "Completed", !.proof = {}]
             all == {"accepted", "postload", "guard", "transport"} \subseteq k.proof \cup {fact}
  <1>1. /\ Alike(p, k) /\ p.gate = k.gate /\ p.request = k.request
        /\ p.proof = k.proof \cup {fact}
    BY DEF Alike, Client
  <1>2. Alike(d, k) /\ d.gate = k.gate /\ d.request = "Completed" /\ d.proof = {}
    BY DEF Alike, Client
  <1> HIDE DEF p, d
  <1>3. Proven(k, fact) = IF {"accepted", "postload", "guard", "transport"} \subseteq p.proof
                          THEN d ELSE p
    BY DEF Proven, CompleteIfProven, p, d
  <1> QED  BY <1>1, <1>2, <1>3

LEMMA AlikeTrans ==
  ASSUME NEW a, NEW b, NEW d, Alike(a, b), Alike(b, d)
  PROVE  Alike(a, d)
  BY DEF Alike

LEMMA BeforeWorldUpdateObserves ==
  ASSUME NEW k \in Client, NEW guarded \in BOOLEAN
  PROVE  Observed(BeforeWorldUpdate(k, guarded), k)
  <1> DEFINE held == [k EXCEPT !.gate = Hold(@), !.firstUpdate = FALSE]
  <1>1. /\ held \in Client /\ Alike(held, k) /\ held.request = k.request /\ held.proof = k.proof
        /\ held.gate = Hold(k.gate)
    <2>1. held \in Client
      BY GateTypes DEF Client
    <2> QED  BY <2>1 DEF Alike, Client
  <1>2. SameLock(held.gate, k.gate) /\ SameLock(k.gate, k.gate)
    BY <1>1, GateHeld DEF SameLock, Client
  <1>3. IsActive(held) <=> IsActive(k)
    BY <1>1 DEF IsActive
  <1>4. BeforeWorldUpdate(k, guarded) =
          IF ~IsLocked(k.gate) THEN k
          ELSE IF ~(k.firstUpdate /\ IsActive(k) /\ "postload" \in k.proof) THEN held
          ELSE IF guarded THEN Proven(held, "guard") ELSE FailRequest(held)
    BY DEF BeforeWorldUpdate
  <1> HIDE DEF held
  <1>5. Observed(k, k) /\ Observed(held, k)
    BY <1>1, <1>2 DEF Observed, Alike
  <1>6. ASSUME IsActive(k), "postload" \in k.proof
        PROVE  Observed(Proven(held, "guard"), k) /\ Observed(FailRequest(held), k)
    <2>1. Proven(held, "guard") \in Client /\ FailRequest(held) \in Client
      BY <1>1, RequestTypes DEF Proofs
    <2>2. Alike(Proven(held, "guard"), k) /\ Alike(FailRequest(held), k)
      BY <1>1, ProvenIs, FailRequestIs, AlikeTrans
    <2>3. Proven(held, "guard").gate = held.gate /\ FailRequest(held).gate = held.gate
      BY <1>1, ProvenIs, FailRequestIs
    <2>4. FailRequest(held).request = "Failed" /\ FailRequest(held).proof = {}
      BY <1>1, <1>3, <1>6, FailRequestIs
    <2>5. \/ Proven(held, "guard").request = "Completed" /\ Proven(held, "guard").proof = {}
          \/ Proven(held, "guard").request = k.request /\ Proven(held, "guard").proof = k.proof \cup {"guard"}
      BY <1>1, ProvenIs
    <2> QED  BY <1>2, <1>6, <2>1, <2>2, <2>3, <2>4, <2>5 DEF Observed
  <1> QED  BY <1>4, <1>5, <1>6

LEMMA TransportUpdateObserves ==
  ASSUME NEW k \in Client
  PROVE  Observed(TransportUpdate(k), k)
  <1>1. Observed(k, k)
    BY DEF Observed, Alike, SameLock
  <1>2. ASSUME IsActive(k), "postload" \in k.proof
        PROVE  Observed(Proven(k, "transport"), k) /\ Observed(FailRequest(k), k)
    <2>1. Proven(k, "transport") \in Client /\ FailRequest(k) \in Client
      BY RequestTypes DEF Proofs
    <2>2. Alike(Proven(k, "transport"), k) /\ Alike(FailRequest(k), k)
      BY ProvenIs, FailRequestIs
    <2>3. Proven(k, "transport").gate = k.gate /\ FailRequest(k).gate = k.gate
      BY ProvenIs, FailRequestIs
    <2>4. FailRequest(k).request = "Failed" /\ FailRequest(k).proof = {}
      BY <1>2, FailRequestIs
    <2>5. \/ Proven(k, "transport").request = "Completed" /\ Proven(k, "transport").proof = {}
          \/ Proven(k, "transport").request = k.request /\ Proven(k, "transport").proof = k.proof \cup {"transport"}
      BY ProvenIs
    <2> QED  BY <1>2, <2>1, <2>2, <2>3, <2>4, <2>5 DEF Observed, SameLock
  <1> QED  BY <1>1, <1>2 DEF TransportUpdate

-----------------------------------------------------------------------------
(* A client within a frame, after i packets: what is kept of the client     *)
(* that began the frame.                                                    *)

\* A load asked for in this frame.
Entering(k) ==
  /\ k.request = "ValidatingArtifact" /\ k.admitted /\ k.snapshot \in Recovering
  /\ ~IsActive(c)
Truthful(k, e) ==
  /\ k.attempt <= srv.attempt
  /\ k.snapshot = "Active" => Past(srv, k.attempt)
  /\ ~Past(srv, k.attempt) =>
       Real(k, e) /\ (k.stage = "LoadingNativeSave" => Captive(k) \/ Entering(k))
Session(k, i) ==
  /\ k.online = c.online
  /\ k.admitted => srv.here
  /\ c.admitted \/ (srv.here /\ i > 0) => k.admitted
\* A completion comes after everything that can be said of its attempt.
Saying(k, i) ==
  /\ "loaded" \in k.says => k.stage \in LoadedStages /\ srv.dur # "Active"
  /\ "applied" \in k.says =>
       k.stage = "SnapshotApplied" /\ (srv.dur = "Active" => i = Len(inbox))
Ahead(k, i) ==
  i < Len(inbox) /\ inbox[i + 1].type \in {"Load", "Restored"} => k.snapshot \in Recovering
Lasting(k, i) ==
  c.stage \in LoadedStages /\ (\A j \in 1..i : inbox[j].type # "Complete") =>
    /\ k.stage \in LoadedStages /\ k.attempt = c.attempt
    /\ c.stage = "SnapshotApplied" => k.stage = "SnapshotApplied"
Opened(k) ==
  /\ IsActive(c) => k.stage = "LoadingNativeSave"
  /\ c.request = "ValidatingArtifact" => k.request = "ValidatingArtifact"
Barred(k) ==
  IsLocked(c.gate) /\ ~Remembered(c) =>
    IsLocked(k.gate) /\ (k.stage = "RecoveryLocked" => k.authoritative)

Within(k, i) ==
  /\ Sound(k) /\ Fenced(k) /\ Truthful(k, eng)
  /\ Session(k, i) /\ Saying(k, i) /\ Ahead(k, i) /\ Lasting(k, i)
  /\ Opened(k) /\ Barred(k)

LEMMA SameLockIs ==
  ASSUME NEW g, NEW h, SameLock(g, h)
  PROVE  (IsLocked(g) <=> IsLocked(h)) /\ (Owned(g) <=> Owned(h))
  BY DEF SameLock, IsLocked, Owned

LEMMA ObservedWithin ==
  ASSUME NEW k, NEW n, NEW i, Within(k, i), Observed(n, k)
  PROVE  Within(n, i)
  <1>1. k \in Client /\ n \in Client /\ Alike(n, k)
    BY DEF Within, Sound, Observed
  <1>2. (IsLocked(n.gate) <=> IsLocked(k.gate)) /\ (Owned(n.gate) <=> Owned(k.gate))
    BY SameLockIs DEF Observed
  <1>3. Sound(n)
    BY DEF Within, Sound, Observed, Alike, IsActive, SameLock
  <1>4. Fenced(n)
    BY <1>1, <1>2 DEF Within, Fenced, Alike
  <1>5. Session(n, i) /\ Saying(n, i) /\ Ahead(n, i) /\ Lasting(n, i)
    BY <1>1 DEF Within, Session, Saying, Ahead, Lasting, Alike
  <1>6. Opened(n)
    BY DEF Within, Sound, Opened, Alike, Observed
  <1>7. Barred(n)
    BY <1>1, <1>2 DEF Within, Barred, Alike
  <1>8. Truthful(n, eng)
    <2>1. Captive(n) <=> Captive(k)
      BY <1>1 DEF Alike, Captive
    <2>2. Entering(k) => Entering(n)
      BY DEF Entering, Within, Sound, Observed, Alike
    <2>3. Arriving(k, eng) => Arriving(n, eng)
      BY DEF Arriving, Observed, Alike, SameLock
    <2>4. Standing(k, eng) => Standing(n, eng)
      BY <1>1, <1>2 DEF Standing, Alike
    <2>5. Real(k, eng) => Real(n, eng)
      BY <1>1, <2>1, <2>3, <2>4 DEF Real, Alike, Observed, IsActive
    <2> QED  BY <1>1, <2>1, <2>2, <2>5 DEF Within, Truthful, Alike
  <1> QED  BY <1>3, <1>4, <1>5, <1>6, <1>7, <1>8 DEF Within

LEMMA BeginsWithin ==
  ASSUME ClientInv, ~eng.reset
  PROVE  Within(c, 0)
  <1>1. Sound(c) /\ Fenced(c)
    BY DEF ClientInv
  <1>2. Truthful(c, eng)
    BY DEF ClientInv, Honest, Kept, Truthful
  <1>3. Session(c, 0) /\ Saying(c, 0) /\ Lasting(c, 0) /\ Opened(c)
    BY DEF ClientInv, Linked, Sound, Session, Saying, Lasting, Opened
  <1>4. Ahead(c, 0)
    BY DEF ClientInv, Linked, Ahead
  <1>5. Barred(c)
    BY DEF Barred, Remembered
  <1> QED  BY <1>1, <1>2, <1>3, <1>4, <1>5 DEF Within

\* What is known of packet i + 1.
Packet(m, i) ==
  /\ m \in Messages /\ Fits(m, srv) /\ srv \in Server
  /\ c.online /\ (m.type # "Rejected" => srv.here)
  /\ m.type \in {"Response", "Rejected"} => i = 0
  /\ i = 0 /\ m.type # "Response" /\ srv.here => c.admitted
  /\ m.type = "Snapshot" /\ srv.dur = "Active" => i + 1 = Len(inbox)
  /\ m.type = "Complete" => i + 2 = Len(inbox) /\ c.stage = "SnapshotApplied"
  /\ i + 1 < Len(inbox) /\ inbox[i + 2].type \in {"Load", "Restored"} => m.type = "Snapshot"

LEMMA PacketIs ==
  ASSUME ClientInv, NEW i \in Nat, i < Len(inbox)
  PROVE  Packet(inbox[i + 1], i)
  <1>1. i + 1 \in 1..Len(inbox) /\ inbox # <<>> /\ Len(inbox) \in Nat
    BY DEF ClientInv
  <1>2. inbox[i + 1] \in Messages
    BY <1>1 DEF ClientInv
  <1>3. /\ Fits(inbox[i + 1], srv)
        /\ inbox[i + 1].type \in {"Response", "Rejected"} => i + 1 = 1
        /\ inbox[i + 1].type = "Snapshot" /\ srv.dur = "Active" => i + 1 = Len(inbox)
        /\ inbox[i + 1].type = "Complete" => i + 1 = Len(inbox) - 1
    BY <1>1 DEF ClientInv, Burst
  <1>4. i + 1 < Len(inbox) /\ inbox[i + 2].type \in {"Load", "Restored"} => inbox[i + 1].type = "Snapshot"
    <2>1. i + 1 < Len(inbox) => i + 2 \in 1..Len(inbox) /\ i + 2 > 1 /\ (i + 2) - 1 = i + 1
      BY <1>1
    <2> QED  BY <2>1 DEF ClientInv, Burst
  <1>5. srv \in Server /\ c.online
    BY <1>1 DEF ClientInv, Linked, Sound, Client
  <1>6. inbox[i + 1].type # "Rejected" => srv.here
    <2>1. ~srv.here => Len(inbox) = 1 /\ inbox[1].type = "Rejected"
      BY <1>1 DEF ClientInv, Linked
    <2>2. Len(inbox) = 1 => i = 0
      BY <1>1
    <2> QED  BY <2>1, <2>2
  <1>7. i = 0 /\ inbox[i + 1].type # "Response" /\ srv.here => c.admitted
    BY DEF ClientInv, Linked
  <1>8. inbox[i + 1].type = "Complete" => c.stage = "SnapshotApplied"
    BY <1>1 DEF ClientInv, Linked
  <1> QED  BY <1>1, <1>2, <1>3, <1>4, <1>5, <1>6, <1>7, <1>8 DEF Packet

\* Everything but the fence, of a client that may just have been told.
Inner(k, i) ==
  /\ Sound(k) /\ Truthful(k, eng)
  /\ k.admitted => k.online
  /\ ~k.admitted => k.snapshot = None
  /\ Session(k, i) /\ Saying(k, i) /\ Ahead(k, i) /\ Lasting(k, i)
  /\ Opened(k) /\ Barred(k)

LEMMA LockIs ==
  ASSUME NEW k \in Client, NEW a \in BOOLEAN
  PROVE  LET n == Lock(k, a)
             fresh == k.stage \in {"Idle", "Completed"}
         IN  /\ n \in Client
             /\ fresh => n.stage = "RecoveryLocked" /\ n.attempt = 0
             /\ ~fresh => n.stage = k.stage /\ n.attempt = k.attempt
             /\ a => n.authoritative
             /\ n.gate = LockForRecovery(k.gate)
             /\ n.request = k.request /\ n.proof = k.proof
             /\ n.mode = k.mode /\ n.sawActive = k.sawActive
             /\ n.menuRequested = k.menuRequested /\ n.online = k.online
             /\ n.admitted = k.admitted /\ n.snapshot = k.snapshot /\ n.says = k.says
  <1>1. Lock(k, a) \in Client
    BY LockTypes
  <1> QED  BY <1>1 DEF Lock, Client

LEMMA LockWithin ==
  ASSUME ClientInv, NEW k, NEW i, Inner(k, i)
  PROVE  Within(Lock(k, TRUE), i) /\ Owned(Lock(k, TRUE).gate)
  <1> DEFINE n == Lock(k, TRUE)
             fresh == k.stage \in {"Idle", "Completed"}
  <1>1. k \in Client /\ k.gate \in Gate
    BY DEF Inner, Sound, Client
  <1>2. /\ n \in Client
        /\ fresh => n.stage = "RecoveryLocked" /\ n.attempt = 0
        /\ ~fresh => n.stage = k.stage /\ n.attempt = k.attempt
        /\ n.authoritative
        /\ n.gate = LockForRecovery(k.gate)
        /\ n.request = k.request /\ n.proof = k.proof
        /\ n.mode = k.mode /\ n.sawActive = k.sawActive
        /\ n.menuRequested = k.menuRequested /\ n.online = k.online
        /\ n.admitted = k.admitted /\ n.snapshot = k.snapshot /\ n.says = k.says
    BY <1>1, LockIs
  <1> HIDE DEF n
  <1>3. /\ Owned(n.gate) /\ IsLocked(n.gate) /\ Marked(n.gate)
        /\ k.gate.state \notin {"Open", "Released"} => n.gate.state = k.gate.state
    BY <1>1, <1>2, GateHeld
  <1>4. Sound(n)
    BY <1>2, <1>3 DEF Inner, Sound, IsActive, Marked
  <1>5. Fenced(n)
    BY <1>2, <1>3 DEF Inner, Fenced
  <1>6. Session(n, i) /\ Saying(n, i) /\ Ahead(n, i) /\ Lasting(n, i)
    BY <1>2 DEF Inner, Session, Saying, Ahead, Lasting, LoadedStages
  <1>7. Opened(n) /\ Barred(n)
    BY <1>2, <1>3 DEF Inner, Opened, Barred
  <1>8. Truthful(n, eng)
    <2>1. CASE fresh
      <3>1. srv.attempt > 0 /\ srv.attempt \in Nat
        BY DEF ClientInv, Server, Attempts
      <3> QED  BY <2>1, <3>1, <1>2 DEF Truthful, Past
    <2>2. CASE ~fresh
      <3>1. Captive(n) <=> Captive(k)
        BY <1>2 DEF Captive
      <3>2. Entering(k) <=> Entering(n)
        BY <1>2 DEF Entering
      <3>3. Arriving(k, eng) => Arriving(n, eng)
        BY <2>2, <1>2, <1>3 DEF Arriving
      <3>4. Standing(k, eng) => Standing(n, eng)
        BY <2>2, <1>2, <1>3 DEF Standing
      <3>5. Real(k, eng) => Real(n, eng)
        BY <2>2, <1>2, <3>1, <3>3, <3>4 DEF Real
      <3> QED  BY <2>2, <1>2, <3>1, <3>2, <3>5 DEF Inner, Truthful
    <2> QED  BY <2>1, <2>2
  <1> QED  BY <1>3, <1>4, <1>5, <1>6, <1>7, <1>8 DEF Within, n

\* A packet that changes nothing of what the frame is about.
LEMMA PacketPasses ==
  ASSUME NEW i \in Nat, NEW m, m = inbox[i + 1], i < Len(inbox), Len(inbox) \in Nat,
         Packet(m, i), m.type # "Snapshot", NEW k, Within(k, i),
         NEW n \in Client, Alike(n, [k EXCEPT !.admitted = n.admitted]), n.gate = k.gate,
         n.request = k.request, n.proof = k.proof,
         n.admitted <=> (k.admitted \/ m.type = "Response")
  PROVE  Within(n, i + 1)
  <1>1. k \in Client
    BY DEF Within, Sound
  <1>2. /\ n.stage = k.stage /\ n.attempt = k.attempt /\ n.authoritative = k.authoritative
        /\ n.mode = k.mode /\ n.sawActive = k.sawActive /\ n.menuRequested = k.menuRequested
        /\ n.online = k.online /\ n.snapshot = k.snapshot /\ n.says = k.says
    BY <1>1 DEF Alike, Client
  <1>3. Sound(n)
    BY <1>2 DEF Within, Sound, IsActive
  <1>4. Session(n, i + 1)
    <2>1. k.online = c.online /\ (k.admitted => srv.here) /\ (c.admitted => k.admitted)
          /\ (srv.here /\ i > 0 => k.admitted)
      BY DEF Within, Session
    <2>2. /\ m.type # "Rejected" => srv.here
          /\ i = 0 /\ m.type # "Response" /\ srv.here => c.admitted
      BY DEF Packet
    <2>3. i > 0 \/ i = 0
      OBVIOUS
    <2> QED  BY <1>2, <2>1, <2>2, <2>3 DEF Session
  <1>5. Fenced(n)
    BY <1>2, NoneAssumption DEF Within, Fenced, Session, Packet, Recovering, Runtimes
  <1>6. Saying(n, i + 1)
    BY <1>2 DEF Within, Saying
  <1>7. Ahead(n, i + 1)
    BY DEF Ahead, Packet
  <1>8. Lasting(n, i + 1)
    <2>1. \A j \in 1..i : j \in 1..(i + 1)
      OBVIOUS
    <2> QED  BY <1>2, <2>1 DEF Within, Lasting
  <1>9. Opened(n) /\ Barred(n)
    BY <1>2 DEF Within, Opened, Barred
  <1>10. Truthful(n, eng)
    <2>1. Captive(n) <=> Captive(k)
      BY <1>2 DEF Captive
    <2>2. Entering(k) => Entering(n)
      BY <1>2 DEF Entering
    <2>3. Real(k, eng) => Real(n, eng)
      BY <1>2, <2>1 DEF Real, Arriving, Standing
    <2> QED  BY <1>2, <2>1, <2>2, <2>3 DEF Within, Truthful
  <1> QED  BY <1>3, <1>4, <1>5, <1>6, <1>7, <1>8, <1>9, <1>10 DEF Within

LEMMA PacketUnseen ==
  ASSUME NEW i \in Nat, NEW m, m = inbox[i + 1], i < Len(inbox), Len(inbox) \in Nat,
         Packet(m, i), m.type \notin {"Snapshot", "Response"}, NEW k, Within(k, i)
  PROVE  Within(k, i + 1)
  <1>1. k \in Client
    BY DEF Within, Sound
  <1>2. Alike(k, [k EXCEPT !.admitted = k.admitted])
    BY <1>1 DEF Alike, Client
  <1> QED  BY <1>1, <1>2, PacketPasses

LEMMA AnswerWithin ==
  ASSUME NEW i \in Nat, NEW m, m = inbox[i + 1], i < Len(inbox), Len(inbox) \in Nat,
         Packet(m, i), m.type \in {"Response", "Rejected"}, NEW k, Within(k, i), NEW intact
  PROVE  Within(Receive(k, m, intact), i + 1)
  <1>1. k \in Client
    BY DEF Within, Sound
  <1>2. CASE m.type = "Response"
    <2> DEFINE n == [k EXCEPT !.admitted = TRUE, !.candidate = TRUE]
    <2>1. n \in Client
      BY <1>1 DEF Client
    <2>2. n.gate = k.gate /\ n.request = k.request /\ n.proof = k.proof /\ n.admitted
      BY <1>1 DEF Client
    <2>3. Alike(n, [k EXCEPT !.admitted = n.admitted])
      BY <1>1 DEF Alike, Client
    <2>4. Receive(k, m, intact) = n
      BY <1>2 DEF Receive
    <2> HIDE DEF n
    <2> QED  BY <1>2, <2>1, <2>2, <2>3, <2>4, PacketPasses
  <1>3. CASE m.type = "Rejected"
    <2> DEFINE n == [k EXCEPT !.wantsRestore = FALSE]
    <2>1. n \in Client
      BY <1>1 DEF Client
    <2>2. n.gate = k.gate /\ n.request = k.request /\ n.proof = k.proof /\ (n.admitted <=> k.admitted)
      BY <1>1 DEF Client
    <2>3. Alike(n, [k EXCEPT !.admitted = n.admitted])
      BY <1>1 DEF Alike, Client
    <2>4. Receive(k, m, intact) = n
      BY <1>3 DEF Receive
    <2> HIDE DEF n
    <2> QED  BY <1>3, <2>1, <2>2, <2>3, <2>4, PacketPasses
  <1> QED  BY <1>2, <1>3

\* Whoever receives anything but an answer is a member.
LEMMA PacketAdmitted ==
  ASSUME NEW i \in Nat, NEW m, Packet(m, i), m.type \notin {"Response", "Rejected"},
         NEW k, Within(k, i)
  PROVE  k.admitted /\ srv.here
  BY DEF Within, Session, Packet

LEMMA SnapshotWithin ==
  ASSUME ClientInv, NEW i \in Nat, NEW m, m = inbox[i + 1], i < Len(inbox), Len(inbox) \in Nat,
         Packet(m, i), m.type = "Snapshot", NEW k, Within(k, i), NEW intact
  PROVE  Within(Receive(k, m, intact), i + 1)
  <1> DEFINE r == m.runtime
             seen == [k EXCEPT !.snapshot = r, !.protect = r # "Waiting"]
  <1>1. k \in Client /\ k.admitted /\ srv.here
    BY PacketAdmitted DEF Within, Sound
  <1>2. r \in Runtimes /\ r = Wire(srv)
    BY DEF Packet, Messages, Fits
  <1>3. Receive(k, m, intact) = OnCampaignSnapshot(k, r)
    BY DEF Receive
  <1> HIDE DEF r
  <1>4. CASE r \in Recovering
    <2> DEFINE told == [seen EXCEPT !.wantsRestore = FALSE]
    <2>1. told \in Client
      <3>1. ASSUME NEW x \in BOOLEAN PROVE [k EXCEPT !.snapshot = r, !.protect = x] \in Client
        BY <1>1, <1>2 DEF Client
      <3>2. seen \in Client
        BY <3>1
      <3>3. ASSUME NEW u \in Client PROVE [u EXCEPT !.wantsRestore = FALSE] \in Client
        BY DEF Client
      <3> QED  BY <3>2, <3>3
    <2>2. Alike(told, [k EXCEPT !.snapshot = r]) /\ told.gate = k.gate
          /\ told.request = k.request /\ told.proof = k.proof
      BY <1>1 DEF Alike, Client
    <2>3. /\ told.stage = k.stage /\ told.attempt = k.attempt
          /\ told.authoritative = k.authoritative
          /\ told.mode = k.mode /\ told.sawActive = k.sawActive
          /\ told.online = k.online /\ told.admitted = k.admitted
          /\ told.snapshot = r /\ told.says = k.says
      BY <1>1 DEF Client
    <2>4. OnCampaignSnapshot(k, r) = Lock(told, TRUE)
      BY <1>1, <1>4 DEF OnCampaignSnapshot, Recovering
    <2> HIDE DEF told
    <2>5. Sound(told)
      BY <2>1, <2>2, <2>3 DEF Within, Sound, IsActive
    <2>6. told.admitted /\ told.online
      BY <1>1, <2>3 DEF Within, Fenced
    <2>7. Session(told, i + 1)
      BY <1>1, <2>3 DEF Within, Session
    <2>8. Saying(told, i + 1)
      BY <2>3 DEF Within, Saying
    <2>9. Ahead(told, i + 1)
      BY <1>4, <2>3 DEF Ahead
    <2>10. Lasting(told, i + 1)
      <3>1. \A j \in 1..i : j \in 1..(i + 1)
        OBVIOUS
      <3> QED  BY <2>3, <3>1 DEF Within, Lasting
    <2>11. Opened(told) /\ Barred(told)
      BY <2>2, <2>3 DEF Within, Opened, Barred
    <2>12. Truthful(told, eng)
      <3>1. Captive(told) <=> Captive(k)
        BY <2>3 DEF Captive
      <3>2. Entering(k) => Entering(told)
        BY <1>4, <2>2, <2>3 DEF Entering
      <3>3. Real(k, eng) => Real(told, eng)
        BY <2>2, <2>3, <3>1 DEF Real, Arriving, Standing
      <3>4. told.snapshot # "Active"
        BY <1>4, <2>3 DEF Recovering
      <3> QED  BY <2>3, <3>1, <3>2, <3>3, <3>4 DEF Within, Truthful
    <2>13. Inner(told, i + 1)
      BY <2>5, <2>6, <2>7, <2>8, <2>9, <2>10, <2>11, <2>12 DEF Inner
    <2> QED  BY <1>3, <2>4, <2>13, LockWithin
  <1>5. CASE r \notin Recovering
    <2> DEFINE n == OnCampaignSnapshot(k, r)
    <2>1. r \in {"Active", "Waiting"} /\ srv.dur = "Active" /\ i + 1 = Len(inbox)
      BY <1>2, <1>5 DEF Runtimes, Recovering, Wire, Packet, Server
    <2>2. /\ seen.gate = k.gate /\ seen.request = k.request /\ seen.proof = k.proof
          /\ seen.stage = k.stage /\ seen.attempt = k.attempt
          /\ seen.authoritative = k.authoritative
          /\ seen.mode = k.mode /\ seen.sawActive = k.sawActive
          /\ seen.online = k.online /\ seen.admitted = k.admitted
          /\ seen.snapshot = r /\ seen.says = k.says
      BY <1>1 DEF Client
    <2>3. seen \in Client
      BY <1>1, <1>2, ZenonT(60) DEF Client
    <2>4. n = IF r = "Active" THEN ObserveAuthoritativeActive(seen) ELSE seen
      BY <1>1, <2>1 DEF OnCampaignSnapshot
    <2> HIDE DEF seen
    <2> DEFINE idle == [seen EXCEPT !.stage = "Idle", !.gate = Release(@)]
               said == [seen EXCEPT !.says = @ \cup {"applied"}]
    <2>5. /\ idle.gate = Release(k.gate) /\ idle.request = k.request /\ idle.proof = k.proof
          /\ idle.stage = "Idle" /\ idle.attempt = k.attempt
          /\ idle.online = k.online /\ idle.admitted = k.admitted
          /\ idle.snapshot = r /\ idle.says = k.says
      BY <2>2, <2>3 DEF Client
    <2>6. /\ said.gate = k.gate /\ said.request = k.request /\ said.proof = k.proof
          /\ said.stage = k.stage /\ said.attempt = k.attempt
          /\ said.authoritative = k.authoritative
          /\ said.online = k.online /\ said.admitted = k.admitted
          /\ said.snapshot = r /\ said.says = k.says \cup {"applied"}
      BY <2>2, <2>3 DEF Client
    <2>7. \/ n = seen
          \/ n = said /\ k.stage = "SnapshotApplied"
          \/ n = idle /\ k.stage = "RecoveryLocked" /\ ~k.authoritative
      BY <2>2, <2>4 DEF ObserveAuthoritativeActive
    <2>8. n \in Client
      BY <1>1, <1>2, SnapshotTypes
    <2> HIDE DEF idle, said, n
    <2>9. /\ n.request = k.request /\ n.proof = k.proof /\ n.attempt = k.attempt
          /\ n.online = k.online /\ n.admitted = k.admitted /\ n.snapshot = r
          /\ \/ n.stage = k.stage /\ n.gate = k.gate /\ n.authoritative = k.authoritative
             \/ /\ n.stage = "Idle" /\ n.gate = Release(k.gate)
                /\ k.stage = "RecoveryLocked" /\ ~k.authoritative
          /\ \/ n.says = k.says
             \/ n.says = k.says \cup {"applied"} /\ k.stage = "SnapshotApplied" /\ n.stage = k.stage
      BY <2>2, <2>5, <2>6, <2>7
    <2>10. Sound(n)
      <3>1. k.gate \in Gate /\ Marked(k.gate)
        BY <1>1 DEF Within, Sound, Client, Marked
      <3>2. Marked(n.gate)
        BY <3>1, <2>9, GateHeld
      <3> QED  BY <2>8, <2>9, <3>2 DEF Within, Sound, IsActive, Marked
    <2>11. Fenced(n)
      BY <1>1, <1>5, <2>9 DEF Within, Fenced
    <2>12. Truthful(n, eng)
      <3>1. k.attempt <= srv.attempt /\ k.attempt \in Nat /\ srv.attempt \in Nat
        BY <1>1 DEF Within, Truthful, Packet, Client, Server, Attempts
      <3>2. Past(srv, n.attempt)
        BY <2>1, <2>9, <3>1 DEF Past
      <3> QED  BY <2>9, <3>1, <3>2 DEF Truthful
    <2>13. Session(n, i + 1)
      BY <1>1, <2>9 DEF Within, Session
    <2>14. Saying(n, i + 1)
      <3>1. "loaded" \notin k.says /\ "applied" \notin k.says
        BY <2>1 DEF Within, Saying
      <3> QED  BY <2>1, <2>9, <3>1 DEF Saying
    <2>15. Ahead(n, i + 1)
      BY <2>1 DEF Ahead
    <2>16. Lasting(n, i + 1)
      <3>1. \A j \in 1..i : j \in 1..(i + 1)
        OBVIOUS
      <3> QED  BY <2>9, <3>1 DEF Within, Lasting, LoadedStages
    <2>17. Opened(n)
      BY <2>9 DEF Within, Opened
    <2>18. Barred(n)
      BY <2>9 DEF Within, Barred
    <2> QED  BY <1>3, <2>10, <2>11, <2>12, <2>13, <2>14, <2>15, <2>16, <2>17, <2>18 DEF Within, n
  <1> QED  BY <1>4, <1>5

\* RequestForRecovery, by a recovery that owns the gate and has no request open.
LEMMA RequestForRecoveryIs ==
  ASSUME NEW k \in Client, NEW intact \in BOOLEAN, ~IsActive(k), k.proof = {},
         Owned(k.gate), Marked(k.gate), k.stage = "LoadingNativeSave"
  PROVE  LET n == RequestForRecovery(k, intact)
         IN  /\ n \in Client /\ n.proof = {} /\ Owned(n.gate) /\ Marked(n.gate)
             /\ \/ n.request = "ValidatingArtifact" /\ n.stage = "LoadingNativeSave"
                \/ ~IsActive(n) /\ n.stage = "Failed"
             /\ n.attempt = k.attempt /\ n.authoritative = k.authoritative
             /\ n.online = k.online
             /\ n.admitted = k.admitted /\ n.snapshot = k.snapshot /\ n.says = k.says
  <1> DEFINE cleared == [k EXCEPT !.request = "Idle", !.proof = {}, !.gate = CancelArmedLoad(@)]
             ready == IF k.request = "Failed" THEN cleared ELSE k
  <1>1. k.gate \in Gate
    BY DEF Client
  <1>2. cleared \in Client
    BY <1>1, GateTypes DEF Client, RequestStates
  <1>3. /\ cleared.request = "Idle" /\ cleared.proof = {} /\ cleared.gate = CancelArmedLoad(k.gate)
        /\ cleared.stage = k.stage /\ cleared.attempt = k.attempt
        /\ cleared.authoritative = k.authoritative /\ cleared.online = k.online
        /\ cleared.admitted = k.admitted /\ cleared.snapshot = k.snapshot /\ cleared.says = k.says
    BY DEF Client
  <1>4. Owned(CancelArmedLoad(k.gate)) /\ Marked(CancelArmedLoad(k.gate))
    BY <1>1, GateHeld DEF Owned
  <1> HIDE DEF cleared
  <1>5. /\ ready \in Client /\ ready.proof = {} /\ Owned(ready.gate) /\ Marked(ready.gate)
        /\ ready.request \in {"Idle", "Completed"}
        /\ ready.stage = k.stage /\ ready.attempt = k.attempt
        /\ ready.authoritative = k.authoritative /\ ready.online = k.online
        /\ ready.admitted = k.admitted /\ ready.snapshot = k.snapshot /\ ready.says = k.says
    BY <1>2, <1>3, <1>4 DEF IsActive
  <1>6. RequestForRecovery(k, intact) =
          IF intact /\ ready.request = "Idle"
          THEN [ready EXCEPT !.request = "ValidatingArtifact", !.proof = {}]
          ELSE [ready EXCEPT !.stage = "Failed"]
    BY DEF RequestForRecovery, cleared
  <1> HIDE DEF ready
  <1> DEFINE asked == [ready EXCEPT !.request = "ValidatingArtifact", !.proof = {}]
             failed == [ready EXCEPT !.stage = "Failed"]
  <1>7. asked \in Client
    BY <1>5 DEF Client, RequestStates
  <1>8. failed \in Client
    BY <1>5 DEF Client, Stages
  <1>9. /\ asked.request = "ValidatingArtifact" /\ asked.proof = {} /\ asked.gate = ready.gate
        /\ asked.stage = k.stage /\ asked.attempt = k.attempt
        /\ asked.authoritative = k.authoritative /\ asked.online = k.online
        /\ asked.admitted = k.admitted /\ asked.snapshot = k.snapshot /\ asked.says = k.says
    BY <1>5 DEF Client
  <1>10. /\ failed.request = ready.request /\ failed.proof = {} /\ failed.gate = ready.gate
         /\ failed.stage = "Failed" /\ failed.attempt = k.attempt
         /\ failed.authoritative = k.authoritative /\ failed.online = k.online
         /\ failed.admitted = k.admitted /\ failed.snapshot = k.snapshot /\ failed.says = k.says
    BY <1>5 DEF Client
  <1>11. ~IsActive(failed)
    BY <1>5, <1>10 DEF IsActive
  <1> HIDE DEF asked, failed
  <1>12. RequestForRecovery(k, intact) \in {asked, failed}
    BY <1>6 DEF asked, failed
  <1> QED  BY <1>5, <1>7, <1>8, <1>9, <1>10, <1>11, <1>12

LEMMA LoadWithin ==
  ASSUME ClientInv, NEW i \in Nat, NEW m, m = inbox[i + 1], i < Len(inbox), Len(inbox) \in Nat,
         Packet(m, i), m.type = "Load", NEW k, Within(k, i), NEW intact \in BOOLEAN
  PROVE  Within(Receive(k, m, intact), i + 1)
  <1> DEFINE a == m.attempt
             L == Lock(k, TRUE)
  <1>1. k.admitted /\ srv.here
    BY PacketAdmitted
  <1>2. a \in Attempts /\ a = srv.attempt /\ srv.dur # "Active"
    BY DEF Packet, Messages, Fits
  <1>3. Receive(k, m, intact) = OnLoadRequest(k, a, intact)
    BY DEF Receive
  <1>4. Inner(k, i)
    BY DEF Within, Inner, Fenced
  <1>5. Within(L, i) /\ Owned(L.gate)
    BY <1>4, LockWithin
  <1>6. L.admitted
    BY <1>1, LockIs DEF Within, Sound
  <1>7. L \in Client /\ Sound(L) /\ L.snapshot \in Recovering
    BY <1>5 DEF Within, Sound, Ahead
  <1> HIDE DEF L, a
  <1>8. CASE L.stage \in {"RecoveryLocked", "Failed"}
    <2> DEFINE begun == [L EXCEPT !.stage = "LoadingNativeSave", !.attempt = a]
    <2>1. begun \in Client
      BY <1>2, <1>7 DEF Client, Stages
    <2>2. /\ begun.stage = "LoadingNativeSave" /\ begun.attempt = a
          /\ begun.gate = L.gate /\ begun.request = L.request /\ begun.proof = L.proof
          /\ begun.authoritative = L.authoritative /\ begun.online = L.online
          /\ begun.admitted = L.admitted /\ begun.snapshot = L.snapshot /\ begun.says = L.says
      BY <1>7 DEF Client
    <2> HIDE DEF begun
    <2>3. ~IsActive(L) /\ L.proof = {} /\ Marked(L.gate)
      BY <1>7, <1>8 DEF Sound, Marked
    <2>4. ~IsActive(begun)
      BY <2>2, <2>3 DEF IsActive
    <2> DEFINE n == RequestForRecovery(begun, intact)
    <2>5. /\ n \in Client /\ n.proof = {} /\ Owned(n.gate) /\ Marked(n.gate)
          /\ \/ n.request = "ValidatingArtifact" /\ n.stage = "LoadingNativeSave"
             \/ ~IsActive(n) /\ n.stage = "Failed"
          /\ n.attempt = a
          /\ n.online = L.online
          /\ n.admitted = L.admitted /\ n.snapshot = L.snapshot /\ n.says = L.says
      BY <1>5, <2>1, <2>2, <2>3, <2>4, RequestForRecoveryIs
    <2> HIDE DEF n
    <2>6. Sound(n)
      BY <2>5 DEF Sound, Marked, IsActive
    <2>7. Fenced(n)
      BY <1>5, <2>5 DEF Within, Fenced
    <2>8. Session(n, i + 1)
      BY <1>5, <1>6, <2>5 DEF Within, Session
    <2>9. Saying(n, i + 1)
      BY <1>5, <1>8, <2>5 DEF Within, Saying, LoadedStages
    <2>10. Ahead(n, i + 1)
      BY DEF Ahead, Packet
    <2>11. Lasting(n, i + 1)
      <3>1. \A j \in 1..i : j \in 1..(i + 1)
        OBVIOUS
      <3> QED  BY <1>5, <1>8, <3>1 DEF Within, Lasting, LoadedStages
    <2>12. ~IsActive(c)
      BY <1>5, <1>8 DEF Within, Opened
    <2>13. Opened(n)
      BY <2>12 DEF Opened, IsActive
    <2>14. Barred(n)
      BY <2>5 DEF Barred, Owned
    <2>15. Truthful(n, eng)
      <3>1. srv.attempt \in Nat
        BY DEF Packet, Server, Attempts
      <3>2. n.attempt <= srv.attempt
        BY <3>1, <1>2, <2>5
      <3>3. n.snapshot # "Active"
        BY <1>7, <2>5 DEF Recovering
      <3>4. Real(n, eng)
        BY <2>5 DEF Real, LoadedStages
      <3>5. n.stage = "LoadingNativeSave" => Entering(n)
        BY <2>5, <2>12, <1>6, <1>7 DEF Entering
      <3> QED  BY <3>2, <3>3, <3>4, <3>5 DEF Truthful
    <2>16. Within(n, i + 1)
      BY <2>6, <2>7, <2>8, <2>9, <2>10, <2>11, <2>13, <2>14, <2>15 DEF Within
    <2>17. Receive(k, m, intact) \in {n, L}
      BY <1>1, <1>3, <1>8 DEF OnLoadRequest, L, n, begun
    <2>18. Within(L, i + 1)
      BY <1>5, PacketUnseen
    <2> QED  BY <2>16, <2>17, <2>18
  <1>9. CASE L.stage \notin {"RecoveryLocked", "Failed"}
    <2> DEFINE said == [L EXCEPT !.says = @ \cup {"loaded"}]
    <2>1. said \in Client
      BY <1>7 DEF Client
    <2>2. /\ said.gate = L.gate /\ said.request = L.request /\ said.proof = L.proof
          /\ said.stage = L.stage /\ said.attempt = L.attempt
          /\ said.authoritative = L.authoritative /\ said.mode = L.mode
          /\ said.sawActive = L.sawActive /\ said.online = L.online
          /\ said.admitted = L.admitted /\ said.snapshot = L.snapshot
          /\ said.says = L.says \cup {"loaded"}
      BY <1>7 DEF Client
    <2>3. Receive(k, m, intact) = IF L.stage \in LoadedStages /\ L.attempt = a THEN said ELSE L
      BY <1>1, <1>3, <1>9 DEF OnLoadRequest, L, LoadedStages
    <2> HIDE DEF said
    <2>4. Within(L, i + 1)
      BY <1>5, PacketUnseen
    <2>5. ASSUME L.stage \in LoadedStages PROVE Within(said, i + 1)
      <3>1. Sound(said) /\ Fenced(said)
        BY <2>1, <2>2, <2>4 DEF Within, Sound, Fenced, IsActive
      <3>2. Session(said, i + 1) /\ Ahead(said, i + 1) /\ Lasting(said, i + 1)
        BY <2>2, <2>4 DEF Within, Session, Ahead, Lasting
      <3>3. Saying(said, i + 1)
        BY <1>2, <2>2, <2>4, <2>5 DEF Within, Saying
      <3>4. Opened(said) /\ Barred(said)
        BY <2>2, <2>4 DEF Within, Opened, Barred
      <3>5. Truthful(said, eng)
        <4>1. (Captive(said) <=> Captive(L)) /\ (Entering(L) <=> Entering(said))
          BY <2>2 DEF Captive, Entering
        <4>2. Real(L, eng) => Real(said, eng)
          BY <2>2, <4>1 DEF Real, Arriving, Standing
        <4> QED  BY <2>2, <2>4, <4>1, <4>2 DEF Within, Truthful
      <3> QED  BY <3>1, <3>2, <3>3, <3>4, <3>5 DEF Within
    <2> QED  BY <2>3, <2>4, <2>5
  <1> QED  BY <1>8, <1>9

LEMMA RestoredWithin ==
  ASSUME ClientInv, NEW i \in Nat, NEW m, m = inbox[i + 1], i < Len(inbox), Len(inbox) \in Nat,
         Packet(m, i), m.type = "Restored", NEW k, Within(k, i), NEW intact
  PROVE  Within(Receive(k, m, intact), i + 1)
  <1> DEFINE applied == [k EXCEPT !.stage = "SnapshotApplied", !.snapshot = "Restoring",
                                  !.says = @ \cup {"applied"}]
             said == [k EXCEPT !.says = @ \cup {"applied"}]
             n == Receive(k, m, intact)
  <1>1. k \in Client /\ k.admitted /\ k.snapshot \in Recovering
    BY PacketAdmitted DEF Within, Sound, Ahead
  <1>2. m.attempt = srv.attempt /\ srv.dur # "Active" /\ m.attempt \in Attempts
    BY DEF Packet, Fits, Messages
  <1>3. \/ n = k
        \/ n = applied /\ k.stage = "NativeSaveLoaded"
        \/ n = said /\ k.stage = "SnapshotApplied"
    BY DEF Receive, OnRecoverySnapshot
  <1>4. /\ applied.gate = k.gate /\ applied.request = k.request /\ applied.proof = k.proof
        /\ applied.stage = "SnapshotApplied" /\ applied.attempt = k.attempt
        /\ applied.authoritative = k.authoritative
        /\ applied.mode = k.mode /\ applied.sawActive = k.sawActive
        /\ applied.online = k.online /\ applied.admitted = k.admitted
        /\ applied.snapshot = "Restoring" /\ applied.says = k.says \cup {"applied"}
    BY <1>1 DEF Client
  <1>5. /\ said.gate = k.gate /\ said.request = k.request /\ said.proof = k.proof
        /\ said.stage = k.stage /\ said.attempt = k.attempt
        /\ said.authoritative = k.authoritative
        /\ said.mode = k.mode /\ said.sawActive = k.sawActive
        /\ said.online = k.online /\ said.admitted = k.admitted
        /\ said.snapshot = k.snapshot /\ said.says = k.says \cup {"applied"}
    BY <1>1 DEF Client
  <1>6. applied \in Client
    BY <1>1 DEF Client, Stages, Runtimes
  <1>7. said \in Client
    BY <1>1 DEF Client
  <1>8. Within(k, i + 1)
    BY PacketUnseen
  <1> HIDE DEF applied, said, n
  <1>9. ASSUME n # k PROVE Within(n, i + 1)
    <2>1. /\ n.gate = k.gate /\ n.request = k.request /\ n.proof = k.proof
          /\ k.stage \in LoadedStages /\ n.stage = "SnapshotApplied" /\ n.attempt = k.attempt
          /\ n.mode = k.mode /\ n.sawActive = k.sawActive
          /\ n.online = k.online /\ n.admitted = k.admitted
          /\ n.snapshot \in Recovering /\ n.says = k.says \cup {"applied"}
      BY <1>1, <1>3, <1>4, <1>5, <1>9, ZenonT(60) DEF LoadedStages, Recovering
    <2>2. n \in Client
      BY <1>1, <1>3, <1>6, <1>7
    <2>3. Sound(n)
      BY <2>1, <2>2, <1>8 DEF Within, Sound, IsActive, LoadedStages
    <2>4. Fenced(n)
      BY <1>1, <1>8, <2>1 DEF Within, Fenced, LoadedStages
    <2>5. Session(n, i + 1) /\ Ahead(n, i + 1) /\ Lasting(n, i + 1)
      BY <1>8, <2>1 DEF Within, Session, Ahead, Lasting, LoadedStages
    <2>6. Saying(n, i + 1)
      BY <1>2, <2>1 DEF Saying, LoadedStages
    <2>7. ~IsActive(c)
      BY <1>8, <2>1 DEF Within, Opened, LoadedStages
    <2>8. Opened(n) /\ Barred(n)
      BY <1>8, <2>1, <2>7 DEF Within, Opened, Barred, IsActive
    <2>9. Truthful(n, eng)
      <3>1. Captive(n) <=> Captive(k)
        BY <2>1 DEF Captive
      <3>2. Real(k, eng) => Real(n, eng)
        BY <2>1, <3>1 DEF Real, Standing, LoadedStages
      <3>3. n.snapshot # "Active" /\ n.stage # "LoadingNativeSave"
        BY <2>1 DEF Recovering
      <3> QED  BY <1>8, <2>1, <3>2, <3>3 DEF Within, Truthful
    <2> QED  BY <2>3, <2>4, <2>5, <2>6, <2>8, <2>9 DEF Within
  <1> QED  BY <1>8, <1>9 DEF n

LEMMA CompleteWithin ==
  ASSUME ClientInv, NEW i \in Nat, NEW m, m = inbox[i + 1], i < Len(inbox), Len(inbox) \in Nat,
         Packet(m, i), m.type = "Complete", NEW k, Within(k, i), NEW intact
  PROVE  Within(Receive(k, m, intact), i + 1)
  <1> DEFINE freed == [k EXCEPT !.gate = CancelArmedLoad(Release(@)), !.request = "Idle", !.proof = {}]
             rel == ReleaseForRecovery(k)
             n == [rel EXCEPT !.stage = "Completed", !.protect = TRUE, !.wantsRestore = FALSE]
  <1>1. k \in Client /\ k.admitted /\ k.gate \in Gate
    BY PacketAdmitted DEF Within, Sound, Client
  <1>2. /\ srv.dur = "Active" /\ c.stage = "SnapshotApplied" /\ i + 2 = Len(inbox)
        /\ ~IsActive(c)
    BY DEF Packet, Fits, ClientInv, Sound
  <1>3. Within(k, i + 1)
    BY PacketUnseen
  <1>4. \/ Receive(k, m, intact) = k
        \/ Receive(k, m, intact) = n /\ k.stage \in {"SnapshotApplied", "Completed"}
    BY DEF Receive, OnRecoveryComplete
  <1>5. freed \in Client /\ CancelArmedLoad(Release(k.gate)) \in Gate
    BY <1>1, GateTypes DEF Client, RequestStates
  <1>6. /\ freed.gate = CancelArmedLoad(Release(k.gate)) /\ freed.request = "Idle"
        /\ freed.proof = {} /\ freed.attempt = k.attempt /\ freed.online = k.online
        /\ freed.admitted = k.admitted /\ freed.snapshot = k.snapshot /\ freed.says = k.says
    BY <1>1 DEF Client
  <1>7. rel \in {k, freed}
    BY DEF ReleaseForRecovery
  <1> HIDE DEF freed, rel
  <1>8. rel \in Client
    BY <1>1, <1>5, <1>7
  <1>9. n \in Client
    BY <1>8 DEF Client, Stages
  <1>10. /\ n.gate = rel.gate /\ n.request = rel.request /\ n.proof = rel.proof
         /\ n.stage = "Completed" /\ n.attempt = rel.attempt /\ n.online = rel.online
         /\ n.admitted = rel.admitted /\ n.snapshot = rel.snapshot /\ n.says = rel.says
    BY <1>8 DEF Client
  <1> HIDE DEF n
  <1>11. ASSUME k.stage \in {"SnapshotApplied", "Completed"} PROVE Within(n, i + 1)
    <2>1. ~IsActive(k) /\ k.proof = {} /\ Marked(k.gate)
      BY <1>11 DEF Within, Sound, Marked
    <2>2. Marked(CancelArmedLoad(Release(k.gate)))
      BY <1>1, <2>1, GateTypes, GateHeld
    <2>3. /\ ~IsActive(n) /\ n.proof = {} /\ Marked(n.gate)
          /\ n.attempt = k.attempt /\ n.online = k.online
          /\ n.admitted = k.admitted /\ n.snapshot = k.snapshot /\ n.says = k.says
      BY <1>6, <1>7, <1>10, <2>1, <2>2 DEF IsActive
    <2>4. Sound(n)
      BY <1>9, <2>3 DEF Sound, Marked, IsActive
    <2>5. Fenced(n)
      BY <1>10, <2>3 DEF Within, Fenced
    <2>6. Session(n, i + 1) /\ Ahead(n, i + 1)
      BY <1>3, <2>3 DEF Within, Session, Ahead
    <2>7. Saying(n, i + 1)
      BY <1>2, <2>3 DEF Within, Saying
    <2>8. Lasting(n, i + 1)
      <3>1. i + 1 \in 1..(i + 1)
        OBVIOUS
      <3> QED  BY <3>1 DEF Lasting
    <2>9. Opened(n) /\ Barred(n)
      BY <1>2 DEF Opened, Barred, Remembered, IsActive
    <2>10. Truthful(n, eng)
      <3>1. k.attempt <= srv.attempt /\ k.attempt \in Nat /\ srv.attempt \in Nat
        BY <1>1 DEF Within, Truthful, Packet, Client, Server, Attempts
      <3>2. Past(srv, n.attempt)
        BY <1>2, <2>3, <3>1 DEF Past
      <3> QED  BY <2>3, <3>1, <3>2 DEF Truthful
    <2> QED  BY <2>4, <2>5, <2>6, <2>7, <2>8, <2>9, <2>10 DEF Within
  <1> QED  BY <1>3, <1>4, <1>11

LEMMA ReceiveWithin ==
  ASSUME ClientInv, NEW i \in Nat, i < Len(inbox), NEW k, Within(k, i), NEW intact \in BOOLEAN
  PROVE  Within(Receive(k, inbox[i + 1], intact), i + 1)
  <1> DEFINE m == inbox[i + 1]
  <1>1. Packet(m, i) /\ Len(inbox) \in Nat
    BY PacketIs DEF ClientInv
  <1>2. m.type \in {"Response", "Rejected", "Snapshot", "Load", "Restored", "Complete"}
    BY <1>1 DEF Packet, Messages
  <1> HIDE DEF m
  <1>3. m = inbox[i + 1]
    BY DEF m
  <1>4. CASE m.type \in {"Response", "Rejected"}
    BY <1>1, <1>3, <1>4, AnswerWithin
  <1>5. CASE m.type = "Snapshot"
    BY <1>1, <1>3, <1>5, SnapshotWithin
  <1>6. CASE m.type = "Load"
    BY <1>1, <1>3, <1>6, LoadWithin
  <1>7. CASE m.type = "Restored"
    BY <1>1, <1>3, <1>7, RestoredWithin
  <1>8. CASE m.type = "Complete"
    BY <1>1, <1>3, <1>8, CompleteWithin
  <1> QED  BY <1>2, <1>4, <1>5, <1>6, <1>7, <1>8

-----------------------------------------------------------------------------
(* The packets of a frame, one after the other.                             *)

\* Induction, for a set of numbers.
LEMMA AllNumbers ==
  ASSUME NEW T, 0 \in T, \A n \in Nat : n \in T => n + 1 \in T
  PROVE  Nat \subseteq T
  <1> DEFINE R == OpToRel(<, Nat)
             B == {n \in Nat : n \notin T}
  <1> SUFFICES ASSUME B # {} PROVE FALSE
    OBVIOUS
  <1>1. IsWellFoundedOn(R, Nat)
    BY NatLessThanWellFounded
  <1>2. R = {ss \in Nat \X Nat : ss[1] < ss[2]}
    BY DEF OpToRel
  <1> HIDE DEF R
  <1>3. PICK x \in B : \A y \in B : ~(<<y, x>> \in R)
    BY <1>1, WFMin
  <1>4. \A y \in B : ~(y < x)
    BY <1>2, <1>3
  <1>5. x \in Nat /\ x # 0 /\ x - 1 \in Nat /\ x - 1 < x
    BY <1>3
  <1>6. (x - 1) + 1 \in T
    BY <1>4, <1>5
  <1> QED  BY <1>3, <1>5, <1>6

\* f[i] is the client after i packets.
Feeds(f, n, intact, guarded) ==
  f = [i \in 0..n |-> IF i = 0 THEN BeforeWorldUpdate(c, guarded)
                      ELSE Receive(f[i - 1], inbox[i], intact)]

LEMMA FeedsExists ==
  ASSUME NEW n \in Nat, NEW intact, NEW guarded
  PROVE  \E f : Feeds(f, n, intact, guarded)
  <1> DEFINE T == {l \in Nat : \E f : Feeds(f, l, intact, guarded)}
  <1>1. 0 \in T
    <2> DEFINE f == [i \in 0..0 |-> BeforeWorldUpdate(c, guarded)]
    <2>1. f = [i \in 0..0 |-> IF i = 0 THEN BeforeWorldUpdate(c, guarded)
                              ELSE Receive(f[i - 1], inbox[i], intact)]
      OBVIOUS
    <2>2. Feeds(f, 0, intact, guarded)
      BY <2>1 DEF Feeds
    <2> QED  BY <2>2
  <1>2. ASSUME NEW l \in Nat, l \in T PROVE l + 1 \in T
    <2>1. PICK f : Feeds(f, l, intact, guarded)
      BY <1>2
    <2> DEFINE F(i) == IF i = 0 THEN BeforeWorldUpdate(c, guarded)
                       ELSE Receive(f[i - 1], inbox[i], intact)
               G(h, i) == IF i = 0 THEN BeforeWorldUpdate(c, guarded)
                          ELSE Receive(h[i - 1], inbox[i], intact)
               g == [i \in 0..(l + 1) |-> F(i)]
    <2>2. f = [i \in 0..l |-> F(i)]
      BY <2>1 DEF Feeds
    <2>3. \A i \in 0..l : f[i] = F(i) /\ g[i] = F(i)
      <3> HIDE DEF F
      <3> QED  BY <2>2
    <2>4. ASSUME NEW i \in 0..(l + 1) PROVE F(i) = G(g, i)
      <3>1. i # 0 => i - 1 \in 0..l
        OBVIOUS
      <3>2. i # 0 => f[i - 1] = g[i - 1]
        <4> HIDE DEF g, F
        <4> QED  BY <2>3, <3>1
      <3> HIDE DEF g
      <3> QED  BY <3>2
    <2>5. g = [i \in 0..(l + 1) |-> G(g, i)]
      <3> HIDE DEF F, G
      <3> QED  BY <2>4
    <2>6. Feeds(g, l + 1, intact, guarded)
      BY <2>5 DEF Feeds
    <2> HIDE DEF g
    <2> QED  BY <2>6
  <1> HIDE DEF T
  <1>3. Nat \subseteq T
    BY <1>1, <1>2, AllNumbers
  <1> QED  BY <1>3 DEF T

LEMMA FeedsAt ==
  ASSUME NEW n \in Nat, NEW intact, NEW guarded, NEW f, Feeds(f, n, intact, guarded), NEW i \in 0..n
  PROVE  f[i] = IF i = 0 THEN BeforeWorldUpdate(c, guarded)
                ELSE Receive(f[i - 1], inbox[i], intact)
  <1> DEFINE F(j) == IF j = 0 THEN BeforeWorldUpdate(c, guarded)
                     ELSE Receive(f[j - 1], inbox[j], intact)
  <1>1. f = [j \in 0..n |-> F(j)]
    BY DEF Feeds
  <1>2. f[i] = F(i)
    <2> HIDE DEF F
    <2> QED  BY <1>1
  <1> QED  BY <1>2

LEMMA PolledIs ==
  ASSUME NEW n \in Nat, NEW intact, NEW guarded
  PROVE  \E f : Feeds(f, n, intact, guarded) /\ Polled(n, intact, guarded) = TransportUpdate(f[n])
  <1> DEFINE f == CHOOSE g : Feeds(g, n, intact, guarded)
  <1>1. Feeds(f, n, intact, guarded)
    BY FeedsExists
  <1>2. Polled(n, intact, guarded) = TransportUpdate(f[n])
    BY DEF Polled, Feeds
  <1> HIDE DEF f
  <1> QED  BY <1>1, <1>2

\* The client that the updates of a frame begin with.
LEMMA PolledWithin ==
  ASSUME ClientInv, ~eng.reset, NEW n \in Nat, n <= Len(inbox),
         NEW intact \in BOOLEAN, NEW guarded \in BOOLEAN
  PROVE  Within(Polled(n, intact, guarded), n)
  <1>1. PICK f : Feeds(f, n, intact, guarded) /\ Polled(n, intact, guarded) = TransportUpdate(f[n])
    BY PolledIs
  <1>2. Len(inbox) \in Nat
    BY DEF ClientInv
  <1> DEFINE T == {i \in Nat : i <= n => Within(f[i], i)}
  <1>3. 0 \in T
    <2>1. f[0] = BeforeWorldUpdate(c, guarded)
      BY <1>1, FeedsAt
    <2>2. Within(c, 0) /\ c \in Client
      BY BeginsWithin DEF ClientInv, Sound
    <2>3. Within(BeforeWorldUpdate(c, guarded), 0)
      BY <2>2, BeforeWorldUpdateObserves, ObservedWithin
    <2> QED  BY <2>1, <2>3
  <1>4. ASSUME NEW i \in Nat, i \in T PROVE i + 1 \in T
    <2> SUFFICES ASSUME i + 1 <= n PROVE Within(f[i + 1], i + 1)
      OBVIOUS
    <2>1. i + 1 \in 0..n /\ i + 1 # 0 /\ (i + 1) - 1 = i /\ i <= n /\ i < Len(inbox)
      BY <1>2
    <2>2. f[i + 1] = Receive(f[i], inbox[i + 1], intact)
      BY <1>1, <2>1, FeedsAt
    <2>3. Within(f[i], i)
      BY <1>4, <2>1
    <2> QED  BY <2>1, <2>2, <2>3, ReceiveWithin
  <1> HIDE DEF T
  <1>5. Nat \subseteq T
    BY <1>3, <1>4, AllNumbers
  <1>6. Within(f[n], n) /\ f[n] \in Client
    BY <1>5 DEF T, Within, Sound
  <1> QED  BY <1>1, <1>6, TransportUpdateObserves, ObservedWithin

-----------------------------------------------------------------------------
(* The update of the native load.                                           *)

LEMMA ArmedGates ==
  ASSUME NEW g \in Gate, CanArm(g), Marked(g)
  PROVE  LET a == ArmNextLoad(g)
             e == LoadEntered(a)
         IN  /\ a \in Gate /\ e \in Gate
             /\ e.state = "ArmedDuringLoad"
             /\ Marked(e) /\ (Owned(g) => Owned(e)) /\ (IsLocked(g) => IsLocked(e))
             /\ \A b \in {CancelArmedLoad(a), CancelArmedLoad(LoadRefused(e))} :
                  Marked(b) /\ (Owned(g) => Owned(b)) /\ (IsLocked(g) => IsLocked(b))
  <1> DEFINE a == ArmNextLoad(g)
             e == LoadEntered(a)
             r == LoadRefused(e)
  <1>1. /\ a \in Gate /\ a.state = g.state /\ a.recovery = g.recovery /\ a.resume = g.resume
    BY DEF ArmNextLoad, Gate
  <1> HIDE DEF a
  <1>2. /\ e \in Gate /\ e.state = "ArmedDuringLoad" /\ e.recovery = g.recovery
        /\ e.resume = g.resume
    BY <1>1 DEF LoadEntered, Gate, GateStates
  <1> HIDE DEF e
  <1>3. /\ r \in Gate /\ r.recovery = g.recovery
        /\ r.state = IF g.recovery THEN "RecoveryLocked" ELSE "Open"
    BY <1>2 DEF LoadRefused, Disarmed, Gate, GateStates
  <1> HIDE DEF r
  <1>4. IsLocked(g) => g.recovery
    BY DEF IsLocked, CanArm, Marked, Gate, GateStates
  <1>5. /\ CancelArmedLoad(a).state = g.state /\ CancelArmedLoad(a).recovery = g.recovery
        /\ CancelArmedLoad(r).state = r.state /\ CancelArmedLoad(r).recovery = g.recovery
    BY <1>1, <1>3 DEF CancelArmedLoad, Disarmed, Gate, CanArm
  <1>6. /\ Marked(e) /\ (Owned(g) => Owned(e)) /\ (IsLocked(g) => IsLocked(e))
    BY <1>2, <1>4 DEF Marked, Owned, IsLocked
  <1>7. LET b == CancelArmedLoad(a) IN Marked(b) /\ (Owned(g) => Owned(b)) /\ (IsLocked(g) => IsLocked(b))
    BY <1>4, <1>5 DEF Marked, Owned, IsLocked, CanArm
  <1>8. LET b == CancelArmedLoad(r) IN Marked(b) /\ (Owned(g) => Owned(b)) /\ (IsLocked(g) => IsLocked(b))
    BY <1>3, <1>4, <1>5 DEF Marked, Owned, IsLocked
  <1> QED  BY <1>1, <1>2, <1>6, <1>7, <1>8 DEF a, e, r

\* The gate is no less locked, nor less the recovery's.
Guards(g, h) == Marked(g) /\ (Owned(h) => Owned(g)) /\ (IsLocked(h) => IsLocked(g))

\* A load that was not entered, is under way, or has arrived.
Invoked(n, k, result) ==
  /\ n \in Client /\ Alike(n, k) /\ Guards(n.gate, k.gate)
  /\ result \in {"unavailable", "refused"} => n.request = "Failed" /\ n.proof = {}
  /\ result = "accepted" =>
       /\ n.request = "AwaitingPostLoad" /\ n.proof = {"entered", "accepted"}
       /\ n.gate.state = "ArmedDuringLoad"
  /\ result = "loaded" =>
       /\ n.request = "AwaitingSafetyProof" /\ n.proof = {"entered", "postload", "accepted"}
       /\ n.gate.state = "LockedAfterLoad"

LEMMA ReturnedIs ==
  ASSUME NEW k \in Client
  PROVE  /\ LET n == RequestReturned(k, TRUE)
                r == IF "postload" \in k.proof THEN "AwaitingSafetyProof" ELSE "AwaitingPostLoad"
            IN  /\ Alike(n, k) /\ n.gate = k.gate
                /\ "guard" \notin k.proof => n.request = r /\ n.proof = k.proof \cup {"accepted"}
         /\ LET n == RequestReturned(k, FALSE)
            IN  /\ Alike(n, k) /\ n.gate = CancelArmedLoad(k.gate)
                /\ IsActive(k) => n.request = "Failed" /\ n.proof = {}
  <1> DEFINE r == IF "postload" \in k.proof THEN "AwaitingSafetyProof" ELSE "AwaitingPostLoad"
             p == [k EXCEPT !.request = r]
             f == FailRequest(k)
             q == [f EXCEPT !.gate = CancelArmedLoad(@)]
  <1>1. r \in RequestStates
    BY DEF RequestStates
  <1>2. RequestReturned(k, TRUE) = Proven(p, "accepted") /\ RequestReturned(k, FALSE) = q
    BY DEF RequestReturned
  <1> HIDE DEF r
  <1>3. p \in Client /\ Alike(p, k) /\ p.gate = k.gate /\ p.request = r /\ p.proof = k.proof
    <2>1. p \in Client
      BY <1>1 DEF Client
    <2> QED  BY <2>1 DEF Alike, Client
  <1>4. /\ f \in Client /\ Alike(f, k) /\ f.gate = k.gate
        /\ IsActive(k) => f.request = "Failed" /\ f.proof = {}
    BY RequestTypes, FailRequestIs
  <1> HIDE DEF p, f
  <1>5. /\ Alike(q, f) /\ q.gate = CancelArmedLoad(k.gate) /\ q.request = f.request /\ q.proof = f.proof
    BY <1>4 DEF Alike, Client
  <1> HIDE DEF q
  <1>6. /\ Alike(Proven(p, "accepted"), p) /\ Proven(p, "accepted").gate = k.gate
        /\ "guard" \notin k.proof => /\ Proven(p, "accepted").request = r
                                     /\ Proven(p, "accepted").proof = k.proof \cup {"accepted"}
    BY <1>3, ProvenIs
  <1> QED  BY <1>2, <1>3, <1>4, <1>5, <1>6, AlikeTrans DEF r

LEMMA OnPostLoadIs ==
  ASSUME NEW k \in Client, k.gate.state = "ArmedDuringLoad"
  PROVE  LET n == OnPostLoad(k)
             taken == IsActive(k) /\ "entered" \in k.proof /\ "postload" \notin k.proof
         IN  /\ n \in Client /\ Alike(n, k) /\ n.gate = PostLoaded(k.gate)
             /\ taken /\ "guard" \notin k.proof =>
                  n.request = "AwaitingSafetyProof" /\ n.proof = k.proof \cup {"postload"}
             /\ ~taken => n.request = k.request /\ n.proof = k.proof
  <1> DEFINE taken == IsActive(k) /\ "entered" \in k.proof /\ "postload" \notin k.proof
             h == [k EXCEPT !.gate = PostLoaded(@), !.firstUpdate = TRUE]
             w == [h EXCEPT !.request = "AwaitingSafetyProof"]
             r == RequestPostLoad(h)
             z == [r EXCEPT !.required = TRUE, !.observed = FALSE, !.continuing = FALSE]
  <1>1. h \in Client
    BY GateTypes DEF Client
  <1>2. Alike(h, k) /\ h.gate = PostLoaded(k.gate) /\ h.request = k.request /\ h.proof = k.proof
    BY DEF Alike, Client
  <1>3. OnPostLoad(k) = ResumePostLoad(r)
    BY DEF OnPostLoad
  <1> HIDE DEF h
  <1>4. w \in Client
    BY <1>1 DEF Client, RequestStates
  <1>5. Alike(w, k) /\ w.gate = h.gate /\ w.request = "AwaitingSafetyProof" /\ w.proof = h.proof
    BY <1>1, <1>2 DEF Alike, Client
  <1>6. (IsActive(h) /\ "entered" \in h.proof /\ "postload" \notin h.proof) <=> taken
    BY <1>2 DEF IsActive
  <1>7. r = IF taken THEN Proven(w, "postload") ELSE h
    BY <1>6 DEF RequestPostLoad
  <1> HIDE DEF w, r, taken
  <1>8. /\ Alike(Proven(w, "postload"), w) /\ Proven(w, "postload").gate = PostLoaded(k.gate)
        /\ "guard" \notin k.proof => /\ Proven(w, "postload").request = "AwaitingSafetyProof"
                                     /\ Proven(w, "postload").proof = k.proof \cup {"postload"}
    BY <1>2, <1>4, <1>5, ProvenIs
  <1>9. r \in Client
    BY <1>1, PostLoadTypes DEF r
  <1>10. /\ Alike(r, k) /\ r.gate = PostLoaded(k.gate)
         /\ taken /\ "guard" \notin k.proof =>
              r.request = "AwaitingSafetyProof" /\ r.proof = k.proof \cup {"postload"}
         /\ ~taken => r.request = k.request /\ r.proof = k.proof
    BY <1>2, <1>5, <1>7, <1>8, AlikeTrans
  <1>11. Alike(z, r) /\ z.gate = r.gate /\ z.request = r.request /\ z.proof = r.proof
    BY <1>9 DEF Alike, Client
  <1> HIDE DEF z
  <1>12. ResumePostLoad(r) \in {r, z} /\ OnPostLoad(k) \in Client
    BY PostLoadTypes DEF ResumePostLoad, z
  <1> QED  BY <1>3, <1>10, <1>11, <1>12, AlikeTrans DEF taken

LEMMA InvocationIs ==
  ASSUME NEW k \in Client, k.request = "ValidatingArtifact", k.proof = {},
         Marked(k.gate), CanArm(k.gate), NEW result \in Invocations
  PROVE  Invoked(BeginNativeInvocation(k, result), k, result)
  <1> DEFINE armed   == [k EXCEPT !.request = "Invoking", !.gate = ArmNextLoad(@)]
             entered == [armed EXCEPT !.proof = {"entered"}, !.gate = LoadEntered(@)]
             cancelled == [armed EXCEPT !.gate = CancelArmedLoad(@)]
             refused == [entered EXCEPT !.gate = LoadRefused(@)]
             a == ArmNextLoad(k.gate)
             n == BeginNativeInvocation(k, result)
  <1>1. k.gate \in Gate
    BY DEF Client
  <1>2. /\ a \in Gate /\ LoadEntered(a) \in Gate
        /\ LoadEntered(a).state = "ArmedDuringLoad" /\ Guards(LoadEntered(a), k.gate)
        /\ Guards(CancelArmedLoad(a), k.gate)
        /\ Guards(CancelArmedLoad(LoadRefused(LoadEntered(a))), k.gate)
    BY <1>1, ArmedGates DEF Guards
  <1>3. armed \in Client
    BY <1>2 DEF Client, RequestStates
  <1>4. Alike(armed, k) /\ armed.gate = a /\ armed.request = "Invoking" /\ armed.proof = {}
    BY DEF Alike, Client
  <1>5. n \in Client
    <2>1. result \in LoadSteps
      BY DEF LoadSteps
    <2>2. NativeLoadUpdate(k, result) = n
      BY DEF NativeLoadUpdate, Invocations, IsActive
    <2> QED  BY <2>1, <2>2, InvocationTypes
  <1>6. n = CASE result = "unavailable" -> FailRequest(cancelled)
              [] result = "refused" -> RequestReturned(refused, FALSE)
              [] result = "accepted" -> RequestReturned(entered, TRUE)
              [] result = "loaded" -> RequestReturned(OnPostLoad(entered), TRUE)
    BY DEF BeginNativeInvocation
  <1> HIDE DEF armed, a, n
  <1>7. entered \in Client
    BY <1>2, <1>3, <1>4 DEF Client, Proofs
  <1>8. /\ Alike(entered, k) /\ entered.gate = LoadEntered(a) /\ entered.request = "Invoking"
        /\ entered.proof = {"entered"}
    BY <1>3, <1>4 DEF Alike, Client
  <1>9. cancelled \in Client
    BY <1>2, <1>3, <1>4, GateTypes DEF Client
  <1>10. /\ Alike(cancelled, k) /\ cancelled.gate = CancelArmedLoad(a)
         /\ cancelled.request = "Invoking"
    BY <1>3, <1>4 DEF Alike, Client
  <1> HIDE DEF entered, cancelled
  <1>11. refused \in Client
    BY <1>2, <1>7, <1>8, GateTypes DEF Client
  <1>12. /\ Alike(refused, k) /\ refused.gate = LoadRefused(LoadEntered(a))
         /\ refused.request = "Invoking"
    BY <1>7, <1>8 DEF Alike, Client
  <1> HIDE DEF refused
  <1>13. IsActive(cancelled) /\ IsActive(refused) /\ IsActive(entered)
    BY <1>8, <1>10, <1>12 DEF IsActive
  <1>14. CASE result = "unavailable"
    <2>1. n = FailRequest(cancelled)
      BY <1>6, <1>14
    <2>2. Alike(n, cancelled) /\ n.gate = cancelled.gate /\ n.request = "Failed" /\ n.proof = {}
      BY <1>9, <1>13, <2>1, FailRequestIs
    <2> QED  BY <1>2, <1>5, <1>10, <1>14, <2>2, AlikeTrans DEF Invoked, n
  <1>15. CASE result = "refused"
    <2>1. n = RequestReturned(refused, FALSE)
      BY <1>6, <1>15
    <2>2. Alike(n, refused) /\ n.gate = CancelArmedLoad(refused.gate) /\ n.request = "Failed" /\ n.proof = {}
      BY <1>11, <1>13, <2>1, ReturnedIs
    <2> QED  BY <1>2, <1>5, <1>12, <1>15, <2>2, AlikeTrans DEF Invoked, n
  <1>16. CASE result = "accepted"
    <2>1. n = RequestReturned(entered, TRUE)
      BY <1>6, <1>16
    <2>2. /\ Alike(n, entered) /\ n.gate = entered.gate /\ n.request = "AwaitingPostLoad"
          /\ n.proof = {"entered"} \cup {"accepted"}
      BY <1>7, <1>8, <2>1, ReturnedIs
    <2> QED  BY <1>2, <1>5, <1>8, <1>16, <2>2, AlikeTrans DEF Invoked, n
  <1>17. CASE result = "loaded"
    <2> DEFINE p == OnPostLoad(entered)
    <2>1. n = RequestReturned(p, TRUE)
      BY <1>6, <1>17
    <2>2. /\ p \in Client /\ Alike(p, entered) /\ p.gate = PostLoaded(entered.gate)
          /\ p.request = "AwaitingSafetyProof" /\ p.proof = {"entered"} \cup {"postload"}
      BY <1>2, <1>7, <1>8, <1>13, OnPostLoadIs
    <2> HIDE DEF p
    <2>3. /\ Alike(n, p) /\ n.gate = p.gate /\ n.request = "AwaitingSafetyProof"
          /\ n.proof = {"entered", "postload"} \cup {"accepted"}
      BY <2>1, <2>2, ReturnedIs
    <2>4. Guards(n.gate, k.gate) /\ n.gate.state = "LockedAfterLoad"
      <3>1. /\ IsLocked(PostLoaded(LoadEntered(a))) /\ Marked(PostLoaded(LoadEntered(a)))
            /\ PostLoaded(LoadEntered(a)).recovery = LoadEntered(a).recovery
            /\ PostLoaded(LoadEntered(a)).state = "LockedAfterLoad"
        BY <1>2, GateHeld
      <3> QED  BY <1>2, <1>8, <2>2, <2>3, <3>1 DEF Guards, Owned
    <2>5. Alike(n, k)
      BY <1>8, <2>2, <2>3, AlikeTrans
    <2> QED  BY <1>5, <1>17, <2>3, <2>4, <2>5 DEF Invoked, n
  <1> QED  BY <1>14, <1>15, <1>16, <1>17 DEF Invocations

\* After the update of the native load: the engine is e.
Settled(k, e, i) ==
  /\ Sound(k) /\ Fenced(k) /\ Truthful(k, e)
  /\ Session(k, i) /\ Saying(k, i) /\ Ahead(k, i) /\ Lasting(k, i) /\ Barred(k)

\* The engine after an invocation.
After(k, step) ==
  IF step \in Invocations /\ IsActive(k) /\ CanArm(k.gate)
  THEN AfterLoad(step, "campaign", k.attempt) ELSE eng

LEMMA NativeLoadSettles ==
  ASSUME ClientInv, ~eng.reset, NEW k, NEW i, Within(k, i), NEW step \in LoadSteps, Possible(c, step)
  PROVE  Settled(NativeLoadUpdate(k, step), After(k, step), i)
  <1> DEFINE n == NativeLoadUpdate(k, step)
             e == After(k, step)
  <1>1. k \in Client /\ k.gate \in Gate /\ Marked(k.gate)
    BY DEF Within, Sound, Client, Marked
  <1>2. Settled(k, eng, i)
    BY DEF Within, Settled
  <1>3. n \in Client
    BY <1>1, InvocationTypes
  <1>4. CASE step = "wait" \/ ~IsActive(k)
    <2>1. n = k /\ e = eng
      BY <1>4 DEF NativeLoadUpdate, After, Invocations
    <2> QED  BY <1>2, <2>1
  <1>5. ASSUME ~(step = "wait" \/ ~IsActive(k)) PROVE Settled(n, e, i)
    <2>1. IsActive(c)
      BY <1>5 DEF Possible, IsActive
    <2>2. k.stage = "LoadingNativeSave" /\ ~Entering(k)
      BY <2>1 DEF Within, Opened, Entering
    <2>3. Guards(k.gate, k.gate)
      BY <1>1 DEF Guards
    <2> DEFINE fits == step \in Invocations /\ CanArm(k.gate)
    <2>4. /\ Alike(n, k) /\ Guards(n.gate, k.gate)
          /\ fits /\ step \in {"accepted", "loaded"} => Invoked(n, k, step)
          /\ ~(fits /\ step \in {"accepted", "loaded"}) => n.request = "Failed" /\ n.proof = {}
      <3>1. CASE ~fits
        <4>1. n = FailRequest(k)
          BY <1>5, <3>1 DEF NativeLoadUpdate, BeginNativeInvocation
        <4> QED  BY <1>1, <1>5, <2>3, <3>1, <4>1, FailRequestIs
      <3>2. CASE fits
        <4>1. n = BeginNativeInvocation(k, step)
          BY <1>5, <3>2 DEF NativeLoadUpdate
        <4>2. k.request = "ValidatingArtifact" /\ k.proof = {}
          BY <3>2 DEF Possible, Invocations, Within, Opened, Sound
        <4>3. Invoked(n, k, step)
          BY <1>1, <3>2, <4>1, <4>2, InvocationIs
        <4>4. step \notin {"accepted", "loaded"} => step \in {"unavailable", "refused"}
          BY <3>2 DEF Invocations
        <4> QED  BY <3>2, <4>3, <4>4 DEF Invoked
      <3> QED  BY <3>1, <3>2
    <2>5. e = IF fits THEN AfterLoad(step, "campaign", k.attempt) ELSE eng
      BY <1>5 DEF After
    <2> HIDE DEF n, e
    <2>6. Sound(n)
      BY <1>3, <2>2, <2>4 DEF Sound, Invoked, Alike, Guards, Marked, IsActive
    <2>7. Fenced(n)
      BY <2>4 DEF Within, Fenced, Alike, Guards
    <2>8. Session(n, i) /\ Saying(n, i) /\ Ahead(n, i) /\ Lasting(n, i)
      BY <2>4 DEF Within, Session, Saying, Ahead, Lasting, Alike
    <2>9. Barred(n)
      BY <2>4 DEF Within, Barred, Alike, Guards
    <2>10. Truthful(n, e)
      <3>1. ~Past(srv, k.attempt) => Captive(n)
        BY <2>2, <2>4 DEF Within, Truthful, Captive, Alike
      <3>2. n.stage = "LoadingNativeSave" /\ n.attempt = k.attempt
        BY <2>2, <2>4 DEF Alike
      <3>3. Real(n, e)
        <4>1. CASE fits /\ step = "accepted"
          <5>1. e = [eng EXCEPT !.load = [kind |-> "campaign", of |-> k.attempt]]
            BY <2>5, <4>1 DEF AfterLoad, Loading
          <5>2. e.load = [kind |-> "campaign", of |-> n.attempt] /\ ~e.reset
            BY <5>1, <3>2 DEF ClientInv, Engine
          <5>3. /\ n.request = "AwaitingPostLoad" /\ n.proof = {"entered", "accepted"}
                /\ n.gate.state = "ArmedDuringLoad"
            BY <2>4, <4>1 DEF Invoked
          <5> QED  BY <3>2, <5>2, <5>3 DEF Real, Arriving, LoadedStages
        <4>2. CASE fits /\ step = "loaded"
          <5>1. e = [world |-> "campaign", of |-> k.attempt, load |-> None, reset |-> FALSE]
            BY <2>5, <4>2 DEF AfterLoad, Arrived
          <5>2. e.world = "campaign" /\ e.of = n.attempt /\ e.load = None /\ ~e.reset
            BY <5>1, <3>2
          <5>3. /\ n.request = "AwaitingSafetyProof"
                /\ n.proof = {"entered", "postload", "accepted"}
                /\ n.gate.state = "LockedAfterLoad"
            BY <2>4, <4>2 DEF Invoked
          <5>4. IsLocked(n.gate)
            BY <5>3 DEF IsLocked
          <5> QED  BY <3>2, <5>2, <5>3, <5>4 DEF Real, Standing, LoadedStages
        <4>3. CASE ~(fits /\ step \in {"accepted", "loaded"})
          BY <2>4, <3>2, <4>3 DEF Real, LoadedStages
        <4> QED  BY <4>1, <4>2, <4>3
      <3> QED  BY <2>4, <3>1, <3>2, <3>3 DEF Within, Truthful, Alike
    <2> QED  BY <2>6, <2>7, <2>8, <2>9, <2>10 DEF Settled
  <1> QED  BY <1>4, <1>5

-----------------------------------------------------------------------------
(* The updates of the recovery and of the resume service.                   *)

Said(k, i) ==
  /\ "loaded" \in k.says => k.stage \in LoadedStages
  /\ "applied" \in k.says =>
       k.stage = "SnapshotApplied" /\ (srv.dur = "Active" => i = Len(inbox))
Recovered(k, e, i) ==
  /\ Sound(k) /\ Fenced(k) /\ Truthful(k, e)
  /\ Session(k, i) /\ Said(k, i) /\ Ahead(k, i) /\ Lasting(k, i) /\ Barred(k)

LEMMA RecoveryUpdateIs ==
  ASSUME NEW k, NEW e, NEW i, Settled(k, e, i)
  PROVE  Recovered(RecoveryUpdate(k), e, i)
  <1> DEFINE n == RecoveryUpdate(k)
             proven == [k EXCEPT !.stage = "NativeSaveLoaded", !.says = @ \cup {"loaded"}]
             failed == [k EXCEPT !.stage = "Failed"]
  <1>1. k \in Client
    BY DEF Settled, Sound
  <1>2. Recovered(k, e, i)
    BY DEF Settled, Recovered, Saying, Said
  <1>3. n \in Client
    BY <1>1, UpdateTypes
  <1>4. \/ n = k
        \/ n = proven /\ k.stage = "LoadingNativeSave" /\ k.request = "Completed"
        \/ n = failed /\ k.stage = "LoadingNativeSave" /\ k.request = "Failed"
    BY DEF RecoveryUpdate
  <1>5. Alike(proven, [k EXCEPT !.stage = "NativeSaveLoaded", !.says = proven.says])
        /\ proven.says = k.says \cup {"loaded"}
        /\ proven.gate = k.gate /\ proven.request = k.request /\ proven.proof = k.proof
        /\ proven.stage = "NativeSaveLoaded" /\ proven.attempt = k.attempt
        /\ proven.online = k.online /\ proven.admitted = k.admitted
        /\ proven.snapshot = k.snapshot /\ proven.mode = k.mode /\ proven.sawActive = k.sawActive
    BY <1>1 DEF Alike, Client
  <1>6. failed.says = k.says
        /\ failed.gate = k.gate /\ failed.request = k.request /\ failed.proof = k.proof
        /\ failed.stage = "Failed" /\ failed.attempt = k.attempt
        /\ failed.online = k.online /\ failed.admitted = k.admitted
        /\ failed.snapshot = k.snapshot /\ failed.mode = k.mode /\ failed.sawActive = k.sawActive
    BY <1>1 DEF Client
  <1> HIDE DEF n, proven, failed
  <1>7. ASSUME n # k PROVE Recovered(n, e, i)
    <2>1. /\ k.stage = "LoadingNativeSave" /\ k.request \in {"Completed", "Failed"}
          /\ n.gate = k.gate /\ n.request = k.request /\ n.proof = k.proof
          /\ n.attempt = k.attempt /\ n.online = k.online /\ n.admitted = k.admitted
          /\ n.snapshot = k.snapshot /\ n.mode = k.mode /\ n.sawActive = k.sawActive
          /\ \/ k.request = "Completed" /\ n.stage = "NativeSaveLoaded" /\ n.says = k.says \cup {"loaded"}
             \/ n.stage = "Failed" /\ n.says = k.says
      BY <1>4, <1>5, <1>6, <1>7
    <2>2. k.says \cap {"loaded", "applied"} = {}
      BY <2>1 DEF Settled, Saying, LoadedStages
    <2>3. Sound(n)
      BY <1>3, <2>1 DEF Settled, Sound, IsActive
    <2>4. Fenced(n)
      BY <2>1 DEF Settled, Fenced
    <2>5. Session(n, i) /\ Ahead(n, i)
      BY <2>1 DEF Settled, Session, Ahead
    <2>6. Said(n, i)
      BY <2>1, <2>2 DEF Said, LoadedStages
    <2>7. Lasting(n, i)
      BY <2>1 DEF Settled, Lasting, LoadedStages
    <2>8. Barred(n)
      BY <2>1 DEF Settled, Barred
    <2>9. Truthful(n, e)
      <3>1. (Captive(n) <=> Captive(k)) /\ ~Entering(k)
        BY <2>1 DEF Captive, Entering
      <3>2. Standing(k, e) => Standing(n, e)
        BY <2>1 DEF Standing
      <3>3. Real(k, e) /\ Captive(k) => Real(n, e)
        BY <2>1, <3>1, <3>2 DEF Real, LoadedStages
      <3>4. n.stage # "LoadingNativeSave"
        BY <2>1
      <3> QED  BY <2>1, <3>1, <3>3, <3>4 DEF Settled, Truthful
    <2> QED  BY <2>3, <2>4, <2>5, <2>6, <2>7, <2>8, <2>9 DEF Recovered
  <1> QED  BY <1>2, <1>7 DEF n

\* The incident UI and the resume aside, n is k.
Beside(n, k) ==
  /\ n.gate = k.gate /\ n.request = k.request /\ n.proof = k.proof
  /\ n.stage = k.stage /\ n.attempt = k.attempt /\ n.authoritative = k.authoritative
  /\ n.online = k.online /\ n.admitted = k.admitted /\ n.snapshot = k.snapshot
  /\ n.says = k.says
Leaving(k) == k.mode = "DisconnectIncident" /\ k.menuRequested

LEMMA ResumeUpdateIs ==
  ASSUME NEW k \in Client
  PROVE  LET n == ResumeUpdate(k)
         IN  /\ n \in Client /\ Beside(n, k)
             /\ k.snapshot # "Active" =>
                  /\ Captive(k) => Captive(n)
                  /\ k.stage = "LoadingNativeSave" /\ k.admitted /\ k.snapshot \in Recovering
                       => Captive(n) \/ Leaving(n)
  <1> DEFINE ui == ObserveSnapshot(k)
             x == ui.observed \/ (ui.required /\ ui.snapshot \in Recovering)
             seen == [ui EXCEPT !.observed = x]
             o == ObserveCanonicalState(k)
             n == ResumeUpdate(k)
  <1>1. n \in Client
    BY UpdateTypes
  <1>2. ASSUME NEW a, NEW b, NEW d, Beside(a, b), Beside(b, d) PROVE Beside(a, d)
    BY <1>2 DEF Beside
  <1>3. Beside(k, k)
    BY DEF Beside
  <1> DEFINE active == [k EXCEPT !.sawActive = TRUE]
             incident == [k EXCEPT !.mode = "DisconnectIncident", !.menuRequested = FALSE]
  <1>4. Beside(active, k) /\ active \in Client
    <2>1. active \in Client
      BY DEF Client
    <2> QED  BY <2>1 DEF Beside, Client
  <1>5. /\ Beside(incident, k) /\ incident \in Client
        /\ incident.mode = "DisconnectIncident" /\ ~incident.menuRequested
    <2>1. incident \in Client
      BY DEF Client
    <2> QED  BY <2>1 DEF Beside, Client
  <1>6. ui = IF k.mode # "Hidden" \/ ~k.admitted THEN k
             ELSE IF k.snapshot = "Active" THEN active
             ELSE IF k.snapshot \in Recovering /\ k.sawActive THEN incident ELSE k
    BY DEF ObserveSnapshot
  <1>7. o = IF k.snapshot = None THEN k ELSE CloseResume(CloseIncident(seen))
    BY DEF ObserveCanonicalState
  <1> HIDE DEF active, incident, ui
  <1>8. ui \in Client /\ Beside(ui, k)
    BY <1>3, <1>4, <1>5, <1>6
  <1>9. x \in BOOLEAN
    BY <1>8 DEF Client
  <1> HIDE DEF x
  <1>10. seen \in Client
    BY <1>8, <1>9 DEF Client
  <1>11. /\ Beside(seen, ui) /\ seen.mode = ui.mode /\ seen.sawActive = ui.sawActive
         /\ seen.menuRequested = ui.menuRequested
    BY <1>8 DEF Beside, Client
  <1> HIDE DEF seen
  <1>12. ASSUME NEW p \in Client PROVE Beside(CloseUi(p), p) /\ CloseUi(p) \in Client
    <2>1. CloseUi(p) \in Client
      BY DEF Client, CloseUi
    <2> QED  BY <2>1 DEF Beside, Client, CloseUi
  <1>13. ASSUME NEW p \in Client
         PROVE  Beside(CloseIncident(p), p) /\ CloseIncident(p) \in Client
                /\ (p.snapshot # "Active" => CloseIncident(p) = p)
    <2>1. Beside(p, p)
      BY DEF Beside
    <2> QED  BY <1>12, <2>1 DEF CloseIncident
  <1>14. ASSUME NEW p \in Client
         PROVE  Beside(CloseResume(p), p) /\ (p.snapshot # "Active" => CloseResume(p) = p)
    <2> DEFINE u == CloseUi(p)
               v == [u EXCEPT !.required = FALSE, !.identity = FALSE, !.wantsRestore = FALSE]
    <2>1. u \in Client /\ Beside(u, p)
      BY <1>12
    <2>2. CloseResume(p) \in {v, p} /\ (p.snapshot # "Active" => CloseResume(p) = p)
      BY DEF CloseResume
    <2> HIDE DEF u
    <2>3. Beside(v, u)
      BY <2>1 DEF Beside, Client
    <2> HIDE DEF v
    <2>4. Beside(v, p) /\ Beside(p, p)
      BY <2>1, <2>3, <1>2 DEF Beside
    <2> QED  BY <2>2, <2>4
  <1>15. CloseIncident(seen) \in Client /\ Beside(CloseResume(CloseIncident(seen)), CloseIncident(seen))
         /\ Beside(CloseIncident(seen), seen)
    BY <1>10, <1>13, <1>14
  <1>16. Beside(seen, k)
    BY <1>2, <1>8, <1>11
  <1>17. Beside(CloseResume(CloseIncident(seen)), k)
    BY <1>2, <1>15, <1>16
  <1>18. Beside(o, k)
    BY <1>3, <1>7, <1>17
  <1>19. k.snapshot # "Active" => o = k \/ o = seen
    <2>1. k.snapshot # "Active" => seen.snapshot # "Active"
      BY <1>16 DEF Beside
    <2> QED  BY <1>7, <1>10, <1>13, <1>14, <2>1
  <1> DEFINE kept == [o EXCEPT !.mode = "ExistingRecovery"]
             busy == /\ o.mode = "DisconnectIncident" /\ ~o.menuRequested
                     /\ o.stage \in {"LoadingNativeSave", "NativeSaveLoaded",
                                     "SnapshotApplied", "Failed"}
  <1>20. n = IF busy THEN kept ELSE o
    BY DEF ResumeUpdate
  <1>21. o \in Client
    <2>1. ObserveCanonicalState(k) \in {k, CloseResume(CloseIncident(seen))}
      BY <1>7
    <2>2. CloseResume(CloseIncident(seen)) \in Client
      <3> DEFINE p == CloseIncident(seen)
      <3>1. CloseUi(p) \in Client
        BY <1>12, <1>15
      <3>u. ASSUME NEW u \in Client
            PROVE  [u EXCEPT !.required = FALSE, !.identity = FALSE, !.wantsRestore = FALSE] \in Client
        BY ZenonT(60) DEF Client
      <3>2. [CloseUi(p) EXCEPT !.required = FALSE, !.identity = FALSE, !.wantsRestore = FALSE] \in Client
        BY <3>1, <3>u
      <3>3. p \in Client
        BY <1>15
      <3> HIDE DEF p
      <3>4. CloseResume(p) \in Client
        BY <3>2, <3>3 DEF CloseResume
      <3> QED  BY <3>4 DEF p
    <2> QED  BY <2>1, <2>2
  <1> HIDE DEF o
  <1>22. Beside(kept, o) /\ kept.mode = "ExistingRecovery"
    BY <1>21 DEF Beside, Client
  <1> HIDE DEF kept
  <1>23. Beside(n, k)
    BY <1>2, <1>18, <1>20, <1>22
  <1>24. Captive(kept)
    BY <1>22 DEF Captive
  <1>25. ASSUME k.snapshot # "Active", Captive(k) PROVE Captive(n)
    <2>1. ui = k
      BY <1>6, <1>25 DEF Captive
    <2>2. Captive(o)
      BY <1>11, <1>19, <1>25, <2>1 DEF Captive
    <2> QED  BY <1>20, <1>24, <2>2
  <1>26. ASSUME k.snapshot # "Active", k.stage = "LoadingNativeSave", k.admitted,
                k.snapshot \in Recovering
         PROVE  Captive(n) \/ Leaving(n)
    <2>1. k.snapshot # None
      BY <1>26, NoneAssumption DEF Recovering, Runtimes
    <2>2. o = seen
      BY <1>7, <1>10, <1>13, <1>14, <1>16, <1>26, <2>1 DEF Beside
    <2>3. o.stage = "LoadingNativeSave"
      BY <1>18, <1>26 DEF Beside
    <2>4. o.mode # "DisconnectIncident" => Captive(o)
      BY <1>6, <1>11, <1>26, <2>2, <1>5 DEF Captive
    <2>5. o.mode = "DisconnectIncident" /\ ~busy => Leaving(o)
      BY <2>3 DEF Leaving
    <2> HIDE DEF busy
    <2>6. busy => n = kept
      BY <1>20
    <2>7. ~busy => n = o
      BY <1>20
    <2> QED  BY <1>24, <2>4, <2>5, <2>6, <2>7
  <1> QED  BY <1>1, <1>23, <1>25, <1>26

\* The client at the end of a frame, before its words are taken.
Finished(k, e, i) ==
  /\ Sound(k) /\ Fenced(k)
  /\ k.attempt <= srv.attempt
  /\ k.snapshot = "Active" => Past(srv, k.attempt)
  /\ ~Past(srv, k.attempt) =>
       /\ Real(k, e)
       /\ k.stage = "LoadingNativeSave" =>
            Captive(k) \/ (k.request = "ValidatingArtifact" /\ Leaving(k))
  /\ Session(k, i) /\ Said(k, i) /\ Ahead(k, i) /\ Lasting(k, i) /\ Barred(k)

LEMMA ResumeUpdateFinishes ==
  ASSUME NEW k, NEW e, NEW i, Recovered(k, e, i)
  PROVE  Finished(ResumeUpdate(k), e, i)
  <1> DEFINE n == ResumeUpdate(k)
  <1>1. k \in Client
    BY DEF Recovered, Sound
  <1>2. /\ n \in Client /\ Beside(n, k)
        /\ k.snapshot # "Active" =>
             /\ Captive(k) => Captive(n)
             /\ k.stage = "LoadingNativeSave" /\ k.admitted /\ k.snapshot \in Recovering
                  => Captive(n) \/ Leaving(n)
    BY <1>1, ResumeUpdateIs
  <1> HIDE DEF n
  <1>3. Sound(n)
    BY <1>2 DEF Recovered, Sound, Beside, IsActive
  <1>4. Fenced(n)
    BY <1>2 DEF Recovered, Fenced, Beside
  <1>5. Session(n, i) /\ Said(n, i) /\ Ahead(n, i) /\ Lasting(n, i)
    BY <1>2 DEF Recovered, Session, Said, Ahead, Lasting, Beside
  <1>6. Barred(n)
    BY <1>2 DEF Recovered, Barred, Beside
  <1>7. n.attempt <= srv.attempt /\ (n.snapshot = "Active" => Past(srv, n.attempt))
    BY <1>2 DEF Recovered, Truthful, Beside
  <1>8. ASSUME ~Past(srv, n.attempt)
        PROVE  /\ Real(n, e)
               /\ n.stage = "LoadingNativeSave" =>
                    Captive(n) \/ (n.request = "ValidatingArtifact" /\ Leaving(n))
    <2>1. ~Past(srv, k.attempt) /\ k.snapshot # "Active"
      BY <1>2, <1>8 DEF Recovered, Truthful, Beside
    <2>2. /\ Real(k, e) /\ (Captive(k) => Captive(n))
          /\ k.stage = "LoadingNativeSave" => Captive(k) \/ Entering(k)
      BY <1>2, <2>1 DEF Recovered, Truthful
    <2>3. Real(n, e)
      BY <1>2, <2>2 DEF Real, Arriving, Standing, Beside
    <2>4. n.stage = k.stage /\ n.request = k.request
      BY <1>2 DEF Beside
    <2>5. k.stage = "LoadingNativeSave" /\ Entering(k) =>
            n.request = "ValidatingArtifact" /\ (Captive(n) \/ Leaving(n))
      BY <1>2, <2>1, <2>4 DEF Entering
    <2> QED  BY <2>2, <2>3, <2>4, <2>5
  <1> QED  BY <1>3, <1>4, <1>5, <1>6, <1>7, <1>8 DEF Finished, n

LEMMA FrameFinishes ==
  ASSUME ClientInv, ~eng.reset, NEW n \in 0..Len(inbox), NEW step \in LoadSteps,
         NEW intact \in BOOLEAN, NEW guarded \in BOOLEAN, Possible(c, step)
  PROVE  LET alive == Polled(n, intact, guarded)
         IN  /\ alive \in Client
             /\ Finished(Updated(alive, step), After(alive, step), n)
  <1> DEFINE alive == Polled(n, intact, guarded)
  <1>1. n \in Nat /\ n <= Len(inbox)
    BY DEF ClientInv
  <1>2. Within(alive, n)
    BY <1>1, PolledWithin
  <1> HIDE DEF alive
  <1>3. Settled(NativeLoadUpdate(alive, step), After(alive, step), n)
    BY <1>2, NativeLoadSettles
  <1>4. Finished(Updated(alive, step), After(alive, step), n)
    BY <1>3, RecoveryUpdateIs, ResumeUpdateFinishes DEF Updated
  <1> QED  BY <1>2, <1>4 DEF alive, Within, Sound

-----------------------------------------------------------------------------
(* A frame keeps the invariant.                                             *)

LEMMA DropIs ==
  ASSUME NEW S, NEW q \in Seq(S), NEW n \in 0..Len(q)
  PROVE  LET r == SubSeq(q, n + 1, Len(q))
         IN  r \in Seq(S) /\ Len(r) = Len(q) - n /\ \A j \in 1..Len(r) : r[j] = q[j + n]
  OBVIOUS

\* A server that looks the same from outside.
Outside(t, s) ==
  /\ t.dur = s.dur /\ t.attempt = s.attempt /\ t.here = s.here /\ t.others = s.others
  /\ t.hello = s.hello

LEMMA OutsideIs ==
  ASSUME NEW s, NEW t, Outside(t, s)
  PROVE  /\ Wire(t) = Wire(s)
         /\ \A m : Fits(m, s) => Fits(m, t)
         /\ \A a : Past(t, a) <=> Past(s, a)
         /\ \A q : Burst(q, s) => Burst(q, t)
  <1>1. Wire(t) = Wire(s)
    BY DEF Wire, Outside
  <1>2. \A m : Fits(m, s) => Fits(m, t)
    BY <1>1 DEF Fits, Outside
  <1>3. \A a : Past(t, a) <=> Past(s, a)
    BY DEF Past, Outside
  <1>4. \A q : Burst(q, s) => Burst(q, t)
    BY <1>2 DEF Burst, Outside
  <1> QED  BY <1>1, <1>2, <1>3, <1>4

LEMMA BurstAt ==
  ASSUME NEW q, NEW s, Burst(q, s), NEW x \in 1..Len(q)
  PROVE  /\ Fits(q[x], s)
         /\ q[x].type \in {"Response", "Rejected"} => x = 1
         /\ q[x].type \in {"Load", "Restored"} /\ x > 1 => q[x - 1].type = "Snapshot"
         /\ q[x].type = "Snapshot" /\ s.dur = "Active" => x = Len(q)
         /\ q[x].type = "Complete" => x = Len(q) - 1
  BY DEF Burst

LEMMA BurstDrops ==
  ASSUME NEW q \in Seq(Messages), NEW s, Burst(q, s), NEW n \in 0..Len(q)
  PROVE  Burst(SubSeq(q, n + 1, Len(q)), s)
  <1> DEFINE r == SubSeq(q, n + 1, Len(q))
  <1>1. Len(r) = Len(q) - n /\ \A j \in 1..Len(r) : r[j] = q[j + n]
    BY DropIs
  <1> HIDE DEF r
  <1>2. ASSUME NEW j \in 1..Len(r)
        PROVE  /\ Fits(r[j], s)
               /\ r[j].type \in {"Response", "Rejected"} => j = 1
               /\ r[j].type \in {"Load", "Restored"} /\ j > 1 => r[j - 1].type = "Snapshot"
               /\ r[j].type = "Snapshot" /\ s.dur = "Active" => j = Len(r)
               /\ r[j].type = "Complete" => j = Len(r) - 1
    <2> DEFINE x == j + n
    <2>1. Len(q) \in Nat /\ n \in Nat /\ j \in Nat
      BY <1>1
    <2>2. x \in 1..Len(q) /\ r[j] = q[x]
      BY <1>1, <2>1
    <2>3. j > 1 => j - 1 \in 1..Len(r) /\ (j - 1) + n = x - 1 /\ x > 1
      BY <1>1, <2>1
    <2>4. x = 1 => j = 1
      BY <2>1
    <2>5. (x = Len(q) => j = Len(r)) /\ (x = Len(q) - 1 => j = Len(r) - 1)
      BY <1>1, <2>1
    <2>6. j > 1 => r[j - 1] = q[(j - 1) + n]
      BY <1>1, <2>3
    <2> HIDE DEF x
    <2>7. /\ Fits(q[x], s)
          /\ q[x].type \in {"Response", "Rejected"} => x = 1
          /\ q[x].type \in {"Load", "Restored"} /\ x > 1 => q[x - 1].type = "Snapshot"
          /\ q[x].type = "Snapshot" /\ s.dur = "Active" => x = Len(q)
          /\ q[x].type = "Complete" => x = Len(q) - 1
      BY <2>2, BurstAt
    <2> QED  BY <2>2, <2>3, <2>4, <2>5, <2>6, <2>7
  <1> QED  BY <1>2 DEF Burst, r

LEMMA HeardIs ==
  ASSUME NEW s \in Server, NEW k \in Client
  PROVE  LET t == Heard(s, k)
             right == k.online /\ s.here /\ s.dur # "Active" /\ k.attempt = s.attempt
         IN  /\ t \in Server /\ Outside(t, s)
             /\ t.loaded => s.loaded \/ (right /\ "loaded" \in k.says)
             /\ t.applied => s.applied \/ (right /\ "applied" \in k.says)
  <1> DEFINE right == k.online /\ s.here /\ s.dur # "Active" /\ k.attempt = s.attempt
             x == s.loaded \/ (right /\ s.stage = "load" /\ "loaded" \in k.says)
             y == s.applied \/ (right /\ s.stage = "apply" /\ "applied" \in k.says)
             t == [s EXCEPT !.loaded = x, !.applied = y]
  <1>1. Heard(s, k) = t
    BY DEF Heard
  <1>2. x \in BOOLEAN /\ y \in BOOLEAN
    BY DEF Server
  <1>3. (x => s.loaded \/ (right /\ "loaded" \in k.says))
        /\ (y => s.applied \/ (right /\ "applied" \in k.says))
    OBVIOUS
  <1> HIDE DEF x, y
  <1>4. t \in Server
    BY <1>2 DEF Server
  <1>5. Outside(t, s) /\ (t.loaded <=> x) /\ (t.applied <=> y)
    BY <1>2 DEF Server, Outside
  <1> HIDE DEF t, right
  <1>6. (t.loaded => s.loaded \/ (right /\ "loaded" \in k.says))
        /\ (t.applied => s.applied \/ (right /\ "applied" \in k.says))
    BY <1>3, <1>5
  <1> QED  BY <1>1, <1>4, <1>5, <1>6 DEF right

\* What is left on the wire after a frame: the rest of the burst, or a
\* replayed completion once the burst was read.
Remains(k, n, q) ==
  \/ /\ srv.dur = "Active" /\ srv.here /\ k.online /\ "applied" \in k.says
     /\ k.attempt \in 1..srv.attempt
     /\ q \in Seq(Messages) /\ Len(q) = 2
     /\ q[1] = [type |-> "Complete", attempt |-> k.attempt]
     /\ q[2] = [type |-> "Snapshot", runtime |-> Wire(srv)]
  \/ q = SubSeq(inbox, n + 1, Len(inbox))

LEMMA Pair ==
  ASSUME NEW S, NEW x \in S, NEW y \in S
  PROVE  LET q == <<x>> \o <<y>> IN q \in Seq(S) /\ Len(q) = 2 /\ q[1] = x /\ q[2] = y
  OBVIOUS

LEMMA Nothing ==
  ASSUME NEW S, NEW q \in Seq(S)
  PROVE  <<>> \o q = q /\ q \o <<>> = q /\ (Len(q) = 0 => q = <<>>)
  OBVIOUS

LEMMA SnapshotFits ==
  ASSUME NEW s \in Server
  PROVE  LET b == [type |-> "Snapshot", runtime |-> Wire(s)]
         IN  b \in Messages /\ Fits(b, s) /\ b.type = "Snapshot" /\ SnapshotMsg(s) = <<b>>
  <1>1. Wire(s) \in Runtimes
    BY DEF Wire, Server, Runtimes
  <1> QED  BY <1>1 DEF Messages, Fits, SnapshotMsg

LEMMA RemainsIs ==
  ASSUME ClientInv, NEW n \in 0..Len(inbox), NEW k \in Client, Said(k, n)
  PROVE  Remains(k, n, SubSeq(inbox, n + 1, Len(inbox)) \o Replayed(srv, k))
  <1> DEFINE r == SubSeq(inbox, n + 1, Len(inbox))
             asks == /\ k.online /\ srv.here /\ srv.dur = "Active" /\ "applied" \in k.says
                     /\ k.attempt \in 1..srv.attempt
             a == [type |-> "Complete", attempt |-> k.attempt]
             b == [type |-> "Snapshot", runtime |-> Wire(srv)]
  <1>1. r \in Seq(Messages) /\ Len(r) = Len(inbox) - n /\ Len(inbox) \in Nat
    BY DropIs DEF ClientInv
  <1>2. a \in Messages /\ b \in Messages /\ SnapshotMsg(srv) = <<b>>
    BY SnapshotFits DEF ClientInv, Client, Messages
  <1>3. Replayed(srv, k) = IF asks THEN <<a>> \o <<b>> ELSE <<>>
    BY <1>2 DEF Replayed
  <1> HIDE DEF r, a, b
  <1>4. CASE asks
    <2>1. n = Len(inbox)
      BY <1>4 DEF Said
    <2>2. r = <<>>
      BY <1>1, <2>1, Nothing
    <2>3. r \o Replayed(srv, k) = <<a>> \o <<b>>
      BY <1>2, <1>3, <1>4, <2>2, Pair, Nothing
    <2> DEFINE q == r \o Replayed(srv, k)
    <2>4. q \in Seq(Messages) /\ Len(q) = 2 /\ q[1] = a /\ q[2] = b
      BY <1>2, <2>3, Pair
    <2> HIDE DEF q
    <2>5. Remains(k, n, q)
      BY <1>4, <2>4 DEF Remains, a, b
    <2> QED  BY <2>5 DEF q, r
  <1>5. CASE ~asks
    <2> HIDE DEF asks
    <2>1. r \o Replayed(srv, k) = r
      BY <1>1, <1>3, <1>5
    <2> QED  BY <2>1 DEF Remains, r
  <1> QED  BY <1>4, <1>5

LEMMA RemainsBurst ==
  ASSUME ClientInv, NEW n \in 0..Len(inbox), NEW k \in Client, NEW q, Remains(k, n, q)
  PROVE  q \in Seq(Messages) /\ Burst(q, srv)
  <1>1. CASE q = SubSeq(inbox, n + 1, Len(inbox))
    BY <1>1, DropIs, BurstDrops DEF ClientInv
  <1>2. CASE q # SubSeq(inbox, n + 1, Len(inbox))
    <2> DEFINE a == [type |-> "Complete", attempt |-> k.attempt]
               b == [type |-> "Snapshot", runtime |-> Wire(srv)]
    <2>1. /\ q \in Seq(Messages) /\ Len(q) = 2 /\ q[1] = a /\ q[2] = b
          /\ srv.dur = "Active" /\ k.attempt \in 1..srv.attempt
      BY <1>2 DEF Remains
    <2>2. srv \in Server /\ srv.attempt \in Nat /\ k.attempt <= srv.attempt
      BY <2>1 DEF ClientInv, Server, Attempts
    <2>3. Fits(a, srv) /\ Fits(b, srv) /\ a.type = "Complete" /\ b.type = "Snapshot"
      BY <2>1, <2>2, SnapshotFits DEF Fits
    <2> HIDE DEF a, b
    <2>4. \A j \in 1..Len(q) : j = 1 \/ j = 2
      BY <2>1
    <2>5. Burst(q, srv)
      BY <2>1, <2>3, <2>4 DEF Burst
    <2> QED  BY <2>1, <2>5
  <1> QED  BY <1>1, <1>2

\* A completion that was not read concerns an attempt the client has applied.
LEMMA RemainsComplete ==
  ASSUME ClientInv, NEW n \in 0..Len(inbox), NEW k \in Client, NEW e, Finished(k, e, n),
         NEW q, Remains(k, n, q), NEW j \in 1..Len(q), q[j].type = "Complete"
  PROVE  k.stage = "SnapshotApplied"
  <1>1. CASE q = SubSeq(inbox, n + 1, Len(inbox))
    <2>1. Len(q) = Len(inbox) - n /\ q[j] = inbox[j + n] /\ Len(inbox) \in Nat
      BY <1>1, DropIs DEF ClientInv
    <2>2. j + n \in 1..Len(inbox) /\ j > 0
      BY <2>1
    <2>3. inbox[j + n].type = "Complete" /\ c.stage = "SnapshotApplied"
      BY <2>1, <2>2 DEF ClientInv, Linked
    <2>4. Burst(inbox, srv)
      BY DEF ClientInv
    <2>5. j + n = Len(inbox) - 1
      BY <2>2, <2>3, <2>4, BurstAt
    <2>6. ASSUME NEW l \in 1..n PROVE inbox[l].type # "Complete"
      <3>1. l \in 1..Len(inbox) /\ l # Len(inbox) - 1
        BY <2>1, <2>2, <2>5
      <3> QED  BY <2>4, <3>1, BurstAt
    <2> QED  BY <2>3, <2>6 DEF Finished, Lasting, LoadedStages
  <1>2. CASE q # SubSeq(inbox, n + 1, Len(inbox))
    BY <1>2 DEF Remains, Finished, Said
  <1> QED  BY <1>1, <1>2

\* The fence that is neither remembered nor left holds.
Holds(k, n) == IsLocked(k.gate) /\ ~Remembered(k) => IsLocked(n.gate)

LEMMA FrameInv ==
  ASSUME ClientInv, AnyFrame
  PROVE  ClientInv' /\ Holds(c, c')
  <1>0. PICK n \in 0..Len(inbox), step \in LoadSteps, intact \in BOOLEAN, guarded \in BOOLEAN :
          Frame(n, step, intact, guarded)
    BY DEF AnyFrame
  <1> DEFINE alive == Polled(n, intact, guarded)
             k == Updated(alive, step)
             e == After(alive, step)
             menu == k.mode = "DisconnectIncident" /\ k.menuRequested
  <1>1. /\ ~eng.reset /\ Possible(c, step)
        /\ c' = [k EXCEPT !.says = {}] /\ eng' = [e EXCEPT !.reset = menu]
        /\ srv' = Heard(srv, k)
        /\ inbox' = SubSeq(inbox, n + 1, Len(inbox)) \o Replayed(srv, k)
        /\ upsets' = upsets
    BY <1>0 DEF Frame, After
  <1>2. alive \in Client /\ Finished(k, e, n)
    BY <1>1, FrameFinishes
  <1>3. e \in Engine /\ eng \in Engine
    <2>1. alive.attempt \in Attempts
      BY <1>2 DEF Client
    <2>2. eng \in Engine
      BY DEF ClientInv
    <2>3. Loading("campaign", alive.attempt) \in Engine
      BY <2>1, <2>2 DEF Loading, Engine, Kinds
    <2>4. Arrived("campaign", alive.attempt) \in Engine
      BY <2>1 DEF Arrived, Engine, Kinds
    <2>5. e \in {eng, Loading("campaign", alive.attempt), Arrived("campaign", alive.attempt)}
      BY DEF After, AfterLoad
    <2> QED  BY <2>2, <2>3, <2>4, <2>5
  <1> HIDE DEF alive, k, e
  <1>4. k \in Client /\ Sound(k)
    BY <1>2 DEF Finished, Sound
  <1>5. menu \in BOOLEAN /\ (menu <=> Leaving(k))
    BY DEF Leaving
  <1> HIDE DEF menu
  <1>6. /\ c' \in Client /\ Beside(c', [k EXCEPT !.says = {}]) /\ c'.mode = k.mode
        /\ c'.sawActive = k.sawActive /\ c'.menuRequested = k.menuRequested
        /\ c'.says = {}
    <2>1. c' \in Client
      BY <1>1, <1>4 DEF Client
    <2> QED  BY <1>1, <1>4, <2>1 DEF Beside, Client
  <1>7. /\ c'.gate = k.gate /\ c'.request = k.request /\ c'.proof = k.proof
        /\ c'.stage = k.stage /\ c'.attempt = k.attempt
        /\ c'.online = k.online /\ c'.admitted = k.admitted /\ c'.snapshot = k.snapshot
    BY <1>1, <1>4 DEF Client
  <1>8. /\ eng' \in Engine /\ eng'.world = e.world /\ eng'.of = e.of /\ eng'.load = e.load
        /\ (eng'.reset <=> menu)
    <2>1. eng' \in Engine
      BY <1>1, <1>3, <1>5 DEF Engine
    <2> QED  BY <1>1, <1>3, <1>5, <2>1 DEF Engine
  <1> DEFINE right == k.online /\ srv.here /\ srv.dur # "Active" /\ k.attempt = srv.attempt
  <1>9. /\ srv' \in Server /\ Outside(srv', srv)
        /\ srv'.loaded => srv.loaded \/ (right /\ "loaded" \in k.says)
        /\ srv'.applied => srv.applied \/ (right /\ "applied" \in k.says)
    BY <1>1, <1>4, HeardIs DEF ClientInv
  <1>10. Remains(k, n, inbox')
    BY <1>1, <1>2, <1>4, RemainsIs DEF Finished
  <1>11. inbox' \in Seq(Messages) /\ Burst(inbox', srv)
    BY <1>4, <1>10, RemainsBurst
  <1>12. Burst(inbox', srv') /\ \A a : Past(srv', a) <=> Past(srv, a)
    BY <1>9, <1>11, OutsideIs
  <1>13. Sound(c') /\ Fenced(c')
    BY <1>2, <1>6, <1>7 DEF Finished, Sound, Fenced, IsActive
  <1>14. Honest(c', srv', eng', eng'.reset)
    <2>1. c'.attempt <= srv'.attempt /\ (c'.snapshot = "Active" => Past(srv', c'.attempt))
      BY <1>2, <1>7, <1>9, <1>12 DEF Finished, Outside
    <2>2. ASSUME ~Past(srv', c'.attempt)
          PROVE  Real(c', eng') /\ Kept(c', eng'.reset)
      <3>1. /\ Real(k, e)
            /\ k.stage = "LoadingNativeSave" =>
                 Captive(k) \/ (k.request = "ValidatingArtifact" /\ Leaving(k))
        BY <1>2, <1>7, <1>12, <2>2 DEF Finished
      <3>2. Captive(k) => ~eng'.reset /\ Captive(c')
        BY <1>5, <1>6, <1>8 DEF Captive, Leaving
      <3>3. Kept(c', eng'.reset)
        BY <1>5, <1>7, <1>8, <3>1, <3>2 DEF Kept
      <3>4. Captive(k) => Real(c', eng')
        BY <1>7, <1>8, <3>1, <3>2 DEF Real, Arriving, Standing
      <3>5. k.request = "ValidatingArtifact" => k.proof = {} /\ k.stage = "LoadingNativeSave"
        BY <1>4 DEF Sound, IsActive
      <3>6. k.request = "ValidatingArtifact" => Real(c', eng')
        BY <1>7, <3>5 DEF Real, LoadedStages
      <3>7. k.stage \notin {"LoadingNativeSave"} \cup LoadedStages => Real(c', eng')
        BY <1>7 DEF Real
      <3>8. k.stage \in LoadedStages => Captive(k)
        BY <3>1 DEF Real
      <3> QED  BY <3>1, <3>3, <3>4, <3>6, <3>7, <3>8
    <2> QED  BY <2>1, <2>2 DEF Honest
  <1>15. Linked(c', srv', inbox')
    <2> DEFINE rest == SubSeq(inbox, n + 1, Len(inbox))
               same == inbox' = rest
    <2>1. /\ inbox \in Seq(Messages) /\ Len(inbox) \in Nat /\ rest \in Seq(Messages)
          /\ Len(rest) = Len(inbox) - n /\ \A j \in 1..Len(rest) : rest[j] = inbox[j + n]
      BY DropIs DEF ClientInv
    <2> HIDE DEF rest
    <2>2. /\ ~same => srv.dur = "Active" /\ srv.here /\ k.online /\ "applied" \in k.says
                      /\ Len(inbox') = 2 /\ inbox'[1].type = "Complete"
      BY <1>10 DEF Remains, rest
    <2>3. ~same => n = Len(inbox)
      BY <1>2, <2>2 DEF Finished, Said
    <2>4. Session(k, n) /\ Linked(c, srv, inbox)
      BY <1>2 DEF Finished, ClientInv
    <2>5. ~c'.online => ~srv'.here /\ inbox' = <<>> /\ srv'.hello = "none"
      <3> SUFFICES ASSUME ~c'.online PROVE ~srv'.here /\ inbox' = <<>> /\ srv'.hello = "none"
        OBVIOUS
      <3>1. ~c.online /\ ~srv.here /\ inbox = <<>> /\ srv.hello = "none" /\ same
        BY <1>7, <2>2, <2>4 DEF Session, Linked
      <3>2. Len(rest) = 0
        BY <2>1, <3>1
      <3>3. rest = <<>>
        BY <2>1, <3>2, Nothing
      <3> QED  BY <1>9, <3>1, <3>3 DEF Outside
    <2>6. c'.admitted => srv'.here
      BY <1>7, <1>9, <2>4 DEF Session, Outside
    <2>7. srv'.here /\ ~c'.admitted => inbox' # <<>> /\ inbox'[1].type = "Response"
      <3> SUFFICES ASSUME srv'.here, ~c'.admitted
                   PROVE  inbox' # <<>> /\ inbox'[1].type = "Response"
        OBVIOUS
      <3>1. srv.here /\ ~c.admitted /\ n = 0
        BY <1>7, <1>9, <2>4 DEF Session, Outside
      <3>2. inbox # <<>> /\ inbox[1].type = "Response"
        BY <2>4, <3>1 DEF Linked
      <3>3. Len(inbox) # 0
        BY <2>1, <3>2, Nothing
      <3>4. Len(rest) = Len(inbox) /\ rest[1] = inbox[1]
        BY <2>1, <3>1, <3>3
      <3>5. same
        BY <2>3, <3>1, <3>3
      <3>6. rest # <<>>
        BY <3>3, <3>4
      <3> QED  BY <3>2, <3>4, <3>5, <3>6
    <2>8. ~srv'.here /\ inbox' # <<>> => Len(inbox') = 1 /\ inbox'[1].type = "Rejected"
      <3> SUFFICES ASSUME ~srv'.here, inbox' # <<>>
                   PROVE  Len(inbox') = 1 /\ inbox'[1].type = "Rejected"
        OBVIOUS
      <3>1. ~srv.here /\ same
        BY <1>9, <2>2 DEF Outside
      <3>2. Len(rest) # 0
        BY <2>1, <3>1, Nothing
      <3>3. inbox # <<>>
        BY <2>1, <3>2
      <3>4. Len(inbox) = 1 /\ inbox[1].type = "Rejected"
        BY <2>4, <3>1, <3>3 DEF Linked
      <3>5. n = 0 /\ Len(rest) = 1 /\ rest[1] = inbox[1]
        BY <2>1, <3>2, <3>4
      <3> QED  BY <3>1, <3>4, <3>5
    <2>9. inbox' # <<>> /\ inbox'[1].type \in {"Load", "Restored"} => c'.snapshot \in Recovering
      <3> SUFFICES ASSUME inbox' # <<>>, inbox'[1].type \in {"Load", "Restored"}
                   PROVE  c'.snapshot \in Recovering
        OBVIOUS
      <3>1. same
        BY <2>2
      <3>2. Len(rest) # 0
        BY <2>1, <3>1, Nothing
      <3>3. n < Len(inbox) /\ rest[1] = inbox[n + 1]
        BY <2>1, <3>2
      <3> QED  BY <1>2, <1>7, <3>1, <3>3 DEF Finished, Ahead
    <2>10. \A j \in 1..Len(inbox') : inbox'[j].type = "Complete" => c'.stage = "SnapshotApplied"
      BY <1>2, <1>4, <1>7, <1>10, RemainsComplete
    <2> QED  BY <2>5, <2>6, <2>7, <2>8, <2>9, <2>10 DEF Linked
  <1>16. Counted(c', srv')
    <2>1. srv.dur # "Active" => \A j \in 1..n : inbox[j].type # "Complete"
      <3> SUFFICES ASSUME srv.dur # "Active", NEW j \in 1..n PROVE inbox[j].type # "Complete"
        OBVIOUS
      <3>1. j \in 1..Len(inbox) /\ Burst(inbox, srv)
        BY DEF ClientInv
      <3> QED  BY <3>1, BurstAt DEF Fits
    <2>2. srv.loaded \/ srv.applied =>
            /\ srv.here /\ srv.dur # "Active" /\ c.attempt = srv.attempt
            /\ c.stage \in LoadedStages /\ (srv.applied => c.stage = "SnapshotApplied")
      BY DEF ClientInv, Counted, LoadedStages
    <2>3. srv.loaded \/ srv.applied =>
            /\ k.attempt = srv.attempt
            /\ k.stage \in LoadedStages /\ (srv.applied => k.stage = "SnapshotApplied")
      BY <1>2, <2>1, <2>2 DEF Finished, Lasting
    <2>4. Said(k, n)
      BY <1>2 DEF Finished
    <2>5. srv'.loaded \/ srv'.applied => srv.here /\ srv.dur # "Active" /\ k.attempt = srv.attempt
      BY <1>9, <2>2, <2>3
    <2>6. (srv'.loaded => k.stage \in LoadedStages) /\ (srv'.applied => k.stage = "SnapshotApplied")
      BY <1>9, <2>3, <2>4 DEF Said
    <2> QED  BY <1>7, <1>9, <2>5, <2>6 DEF Counted, Outside
  <1>17. ClientInv'
    <2>1. srv'.attempt > 0 /\ upsets' \in 0..MaxUpsets
      BY <1>1, <1>9 DEF ClientInv, Outside
    <2> QED  BY <1>6, <1>8, <1>9, <1>11, <1>12, <1>13, <1>14, <1>15, <1>16, <2>1 DEF ClientInv
  <1>18. Holds(c, c')
    BY <1>2, <1>7 DEF Finished, Barred, Holds
  <1> QED  BY <1>17, <1>18

-----------------------------------------------------------------------------
(* The server goes on: an attempt that is over stays over.                  *)

Onward(t, s) ==
  /\ t.attempt >= s.attempt
  /\ t.attempt = s.attempt /\ s.dur = "Active" => t.dur = "Active"
\* The presence and the proofs of a server.
Unproven(t) == ~t.loaded /\ ~t.applied

LEMMA OnwardIs ==
  ASSUME NEW s \in Server, NEW t \in Server, Onward(t, s), NEW k \in Client, NEW e, NEW out,
         Honest(k, s, e, out)
  PROVE  Honest(k, t, e, out)
  <1>1. s.attempt \in Nat /\ t.attempt \in Nat /\ k.attempt \in Nat
    BY DEF Server, Client, Attempts
  <1>2. Past(s, k.attempt) => Past(t, k.attempt)
    BY <1>1 DEF Past, Onward
  <1> QED  BY <1>1, <1>2 DEF Honest, Onward

LEMMA BegunIs ==
  ASSUME NEW s \in Server, s.attempt + 1 \in Attempts
  PROVE  LET t == Begun(s)
         IN  /\ t \in Server /\ t.dur = "Lock" /\ t.attempt = s.attempt + 1 /\ Unproven(t)
             /\ t.here = s.here /\ t.others = s.others /\ t.hello = s.hello /\ Onward(t, s)
  <1> DEFINE t == Begun(s)
  <1>1. t \in Server
    BY DEF Begun, Server
  <1>2. /\ t.dur = "Lock" /\ t.attempt = s.attempt + 1 /\ t.loaded = FALSE /\ t.applied = FALSE
        /\ t.here = s.here /\ t.others = s.others /\ t.hello = s.hello
    BY DEF Begun, Server
  <1>3. s.attempt \in Nat
    BY DEF Server, Attempts
  <1> HIDE DEF t
  <1>4. Onward(t, s) /\ Unproven(t)
    BY <1>2, <1>3 DEF Onward, Unproven
  <1> QED  BY <1>1, <1>2, <1>4 DEF t

LEMMA RelockedIs ==
  ASSUME NEW s \in Server
  PROVE  LET t == Relocked(s)
         IN  /\ t \in Server /\ t.dur = s.dur /\ t.attempt = s.attempt /\ Unproven(t)
             /\ t.here = s.here /\ t.others = s.others /\ t.hello = s.hello
  <1>1. Relocked(s) \in Server
    BY DEF Relocked, Server
  <1> QED  BY <1>1 DEF Relocked, Server, Unproven

LEMMA LostIs ==
  ASSUME NEW s \in Server, NEW left \in Server, left.dur = s.dur, left.attempt = s.attempt,
         s.dur = "Active" => Unproven(left), CanLose(s)
  PROVE  LET t == Lost(s, left)
         IN  /\ t \in Server /\ Onward(t, s) /\ Unproven(t)
             /\ t.here = left.here /\ t.others = left.others /\ t.hello = left.hello
  <1>1. s.attempt \in Nat
    BY DEF Server, Attempts
  <1>2. CASE s.dur # "Active"
    <2>1. Lost(s, left) = Relocked(left)
      BY <1>2 DEF Lost, Wire
    <2> QED  BY <1>1, <1>2, <2>1, RelockedIs DEF Onward
  <1>3. CASE s.dur = "Active" /\ Wire(s) = "Active"
    <2>1. Lost(s, left) = Begun(left)
      BY <1>3 DEF Lost
    <2>2. left.attempt + 1 \in Attempts
      BY <1>1, <1>3, ClientAssumption DEF CanLose, Attempts
    <2>3. Onward(Begun(left), s)
      BY <1>1, <2>2, BegunIs DEF Onward
    <2> QED  BY <2>1, <2>2, <2>3, BegunIs
  <1>4. CASE s.dur = "Active" /\ Wire(s) # "Active"
    <2>1. Lost(s, left) = left
      BY <1>4 DEF Lost
    <2> QED  BY <1>1, <1>4, <2>1 DEF Onward
  <1> QED  BY <1>2, <1>3, <1>4

LEMMA SrvGoneIs ==
  ASSUME ClientInv, CanLose(srv)
  PROVE  LET t == SrvGone(srv)
         IN  t \in Server /\ Onward(t, srv) /\ Unproven(t) /\ ~t.here /\ t.hello = "none"
  <1> DEFINE left == [srv EXCEPT !.here = FALSE, !.hello = "none"]
  <1>1. srv \in Server /\ srv.attempt \in Nat
    BY DEF ClientInv, Server, Attempts
  <1>2. left \in Server
    BY <1>1 DEF Server
  <1>3. /\ left.dur = srv.dur /\ left.attempt = srv.attempt /\ left.here = FALSE
        /\ left.hello = "none" /\ left.loaded = srv.loaded /\ left.applied = srv.applied
    BY <1>1 DEF Server
  <1>4. SrvGone(srv) = IF srv.here THEN Lost(srv, left) ELSE left
    BY DEF SrvGone
  <1> HIDE DEF left
  <1>5. (srv.dur = "Active" => Unproven(left)) /\ (~srv.here => Unproven(left))
    BY <1>3 DEF ClientInv, Counted, Unproven
  <1>6. CASE srv.here
    BY <1>1, <1>2, <1>3, <1>4, <1>5, <1>6, LostIs
  <1>7. CASE ~srv.here
    BY <1>1, <1>2, <1>3, <1>4, <1>5, <1>7 DEF Onward
  <1> QED  BY <1>6, <1>7

LEMMA PreparedIs ==
  ASSUME NEW s \in Server
  PROVE  LET t == Prepared(s)
         IN  t \in Server /\ Outside(t, s) /\ t.loaded = s.loaded /\ t.applied = s.applied
  <1> DEFINE u == [s EXCEPT !.stage = "load"]
  <1>1. u \in Server
    BY DEF Server
  <1>2. Outside(u, s) /\ u.loaded = s.loaded /\ u.applied = s.applied
    BY DEF Server, Outside
  <1>3. Outside(s, s)
    BY DEF Outside
  <1>4. Prepared(s) \in {u, s}
    BY DEF Prepared
  <1> HIDE DEF u
  <1> QED  BY <1>1, <1>2, <1>3, <1>4

-----------------------------------------------------------------------------
(* The bursts of the server.                                                *)

LEMMA Triple ==
  ASSUME NEW S, NEW x \in S, NEW q \in Seq(S)
  PROVE  LET r == <<x>> \o q
         IN  /\ r \in Seq(S) /\ Len(r) = Len(q) + 1 /\ r[1] = x
             /\ \A j \in 2..Len(r) : r[j] = q[j - 1]
  OBVIOUS

\* A snapshot and the request or the restored state that goes with it.
LEMMA AdvanceBurst ==
  ASSUME NEW s \in Server
  PROVE  LET q == SnapshotMsg(s) \o Dispatch(s)
         IN  /\ q \in Seq(Messages) /\ q # <<>> /\ q[1].type = "Snapshot" /\ Burst(q, s)
             /\ \A j \in 1..Len(q) : q[j].type \notin {"Complete", "Response", "Rejected"}
  <1> DEFINE q == SnapshotMsg(s) \o Dispatch(s)
             b == [type |-> "Snapshot", runtime |-> Wire(s)]
             d == IF s.stage = "load" THEN [type |-> "Load", attempt |-> s.attempt]
                  ELSE [type |-> "Restored", attempt |-> s.attempt]
             sends == s.dur # "Active" /\ s.stage \in {"load", "apply"}
  <1>1. b \in Messages /\ Fits(b, s) /\ b.type = "Snapshot" /\ SnapshotMsg(s) = <<b>>
    BY SnapshotFits
  <1>2. d \in Messages /\ d.type \in {"Load", "Restored"} /\ (sends => Fits(d, s))
    BY DEF Messages, Server, Fits
  <1>3. Dispatch(s) = IF sends THEN <<d>> ELSE <<>>
    BY DEF Dispatch
  <1> HIDE DEF b, d, sends
  <1>4. CASE ~sends
    <2>1. q = <<b>>
      BY <1>1, <1>3, <1>4
    <2> HIDE DEF q
    <2>2. q \in Seq(Messages) /\ Len(q) = 1 /\ q[1] = b
      BY <1>1, <2>1
    <2>3. \A j \in 1..Len(q) : j = 1
      BY <2>2
    <2>4. Burst(q, s)
      BY <1>1, <2>2, <2>3 DEF Burst
    <2> QED  BY <1>1, <2>2, <2>3, <2>4 DEF q
  <1>5. CASE sends
    <2>1. q = <<b>> \o <<d>>
      BY <1>1, <1>3, <1>5
    <2> HIDE DEF q
    <2>2. q \in Seq(Messages) /\ Len(q) = 2 /\ q[1] = b /\ q[2] = d
      BY <1>1, <1>2, <2>1, Pair
    <2>3. \A j \in 1..Len(q) : j = 1 \/ j = 2
      BY <2>2
    <2>4. s.dur # "Active"
      BY <1>5 DEF sends
    <2>5. Burst(q, s)
      BY <1>1, <1>2, <1>5, <2>2, <2>3, <2>4 DEF Burst
    <2>6. q # <<>>
      BY <2>2
    <2>7. \A j \in 1..Len(q) : q[j].type \notin {"Complete", "Response", "Rejected"}
      BY <1>1, <1>2, <2>2, <2>3
    <2> QED  BY <1>1, <2>2, <2>5, <2>6, <2>7 DEF q
  <1> QED  BY <1>4, <1>5

LEMMA AnswerBurst ==
  ASSUME NEW s \in Server
  PROVE  LET r == <<[type |-> "Response"]>> \o (SnapshotMsg(s) \o Dispatch(s))
         IN  /\ r \in Seq(Messages) /\ r # <<>> /\ r[1].type = "Response" /\ Burst(r, s)
             /\ \A j \in 1..Len(r) : r[j].type # "Complete"
  <1> DEFINE q == SnapshotMsg(s) \o Dispatch(s)
             a == [type |-> "Response"]
             r == <<a>> \o q
  <1>1. /\ q \in Seq(Messages) /\ q # <<>> /\ q[1].type = "Snapshot" /\ Burst(q, s)
        /\ \A j \in 1..Len(q) : q[j].type \notin {"Complete", "Response", "Rejected"}
    BY AdvanceBurst
  <1>2. a \in Messages /\ a.type = "Response" /\ Fits(a, s)
    BY DEF Messages, Fits
  <1> HIDE DEF q, a
  <1>3. /\ r \in Seq(Messages) /\ Len(r) = Len(q) + 1 /\ r[1] = a
        /\ \A j \in 2..Len(r) : r[j] = q[j - 1]
    BY <1>1, <1>2, Triple
  <1> HIDE DEF r
  <1>4. Len(q) \in Nat
    BY <1>1
  <1>5. ASSUME NEW j \in 2..Len(r)
        PROVE  /\ Fits(r[j], s)
               /\ r[j].type \notin {"Complete", "Response", "Rejected"}
               /\ r[j].type \in {"Load", "Restored"} => r[j - 1].type = "Snapshot"
               /\ r[j].type = "Snapshot" /\ s.dur = "Active" => j = Len(r)
    <2>1. j - 1 \in 1..Len(q) /\ r[j] = q[j - 1]
      BY <1>3, <1>4
    <2>2. /\ Fits(q[j - 1], s)
          /\ q[j - 1].type \in {"Load", "Restored"} /\ j - 1 > 1 => q[j - 1 - 1].type = "Snapshot"
          /\ q[j - 1].type = "Snapshot" /\ s.dur = "Active" => j - 1 = Len(q)
      BY <1>1, <2>1, BurstAt
    <2>3. j - 1 = 1 \/ (j - 1 > 1 /\ j - 1 \in 2..Len(r) /\ r[j - 1] = q[j - 1 - 1])
      BY <1>3, <1>4
    <2>4. j - 1 = 1 => q[j - 1].type = "Snapshot"
      BY <1>1
    <2> QED  BY <1>1, <1>3, <1>4, <2>1, <2>2, <2>3, <2>4
  <1>6. \A j \in 1..Len(r) : j = 1 \/ j \in 2..Len(r)
    BY <1>3, <1>4
  <1>7. Burst(r, s)
    BY <1>2, <1>3, <1>5, <1>6 DEF Burst
  <1>8. \A j \in 1..Len(r) : r[j].type # "Complete"
    BY <1>2, <1>3, <1>5, <1>6
  <1>9. r # <<>>
    BY <1>3, <1>4
  <1> QED  BY <1>2, <1>3, <1>7, <1>8, <1>9 DEF r, q, a

-----------------------------------------------------------------------------
(* The steps of the server.                                                 *)

\* A server that sends a burst on an empty wire.
LEMMA ServerSends ==
  ASSUME ClientInv, UNCHANGED <<c, eng>>, upsets' \in 0..MaxUpsets,
         srv' \in Server, Onward(srv', srv), Counted(c, srv'),
         inbox' \in Seq(Messages), Burst(inbox', srv'),
         ~c.online => ~srv'.here /\ inbox' = <<>> /\ srv'.hello = "none",
         c.admitted => srv'.here,
         srv'.here /\ ~c.admitted => inbox' # <<>> /\ inbox'[1].type = "Response",
         ~srv'.here /\ inbox' # <<>> => Len(inbox') = 1 /\ inbox'[1].type = "Rejected",
         inbox' # <<>> => inbox'[1].type \notin {"Load", "Restored"},
         \A j \in 1..Len(inbox') : inbox'[j].type = "Complete" => c.stage = "SnapshotApplied"
  PROVE  ClientInv' /\ Holds(c, c')
  <1>1. c' = c /\ eng' = eng
    OBVIOUS
  <1>2. Honest(c, srv', eng, eng.reset)
    BY OnwardIs DEF ClientInv, Sound
  <1>3. Linked(c, srv', inbox')
    BY DEF Linked
  <1>4. srv'.attempt > 0
    BY DEF ClientInv, Server, Attempts, Onward
  <1>5. Holds(c, c')
    BY <1>1 DEF Holds
  <1>6. ClientInv'
    BY <1>1, <1>2, <1>3, <1>4 DEF ClientInv
  <1> QED  BY <1>5, <1>6

LEMMA QuietIs ==
  ASSUME ClientInv, Quiet
  PROVE  /\ inbox = <<>> /\ (srv.here <=> c.admitted)
         /\ \A q \in Seq(Messages) : inbox \o q = q
  BY DEF ClientInv, Quiet, Linked, Server

LEMMA OpenWire ==
  ASSUME ClientInv
  PROVE  /\ srv.hello # "none" => c.online
         /\ srv.here => c.online
         /\ c.admitted => srv.here
         /\ srv \in Server /\ srv.attempt \in Nat
  BY DEF ClientInv, Linked, Server, Attempts

\* The others, counted after a step that proves nothing new.
LEMMA CountedStays ==
  ASSUME ClientInv, NEW t, t.loaded => srv.loaded, t.applied => srv.applied,
         srv.here => t.here, t.dur = srv.dur, t.attempt = srv.attempt
  PROVE  Counted(c, t)
  BY DEF ClientInv, Counted
LEMMA CountedNone ==
  ASSUME NEW k, NEW t, Unproven(t)
  PROVE  Counted(k, t)
  BY DEF Counted, Unproven

LEMMA ResumeInv ==
  ASSUME ClientInv, SrvResume
  PROVE  ClientInv' /\ Holds(c, c')
  <1> DEFINE came == [srv EXCEPT !.here = TRUE, !.hello = "none",
                        !.pending = srv.dur = "Active" /\
                                    (@ \/ (~srv.here /\ srv.hello = "restore"))]
             wanted == Wire(came) = "Active" /\ came.pending
  <1>1. PICK next \in (IF wanted THEN {Begun(came)} ELSE {came})
                        \cup (IF RecoveryMayFail THEN {came} ELSE {}) :
             /\ next.attempt <= MaxAttempts
             /\ srv' = Prepared(next)
             /\ Send(<<[type |-> "Response"]>> \o Advance(next))
    BY DEF SrvResume
  <1>2. srv.hello # "none" /\ Quiet /\ UNCHANGED <<c, eng, upsets>>
    BY DEF SrvResume
  <1>3. c.online /\ srv \in Server /\ srv.attempt \in Nat
    BY <1>2, OpenWire
  <1>4. came \in Server
    <2> DEFINE x == srv.dur = "Active" /\ (srv.pending \/ (~srv.here /\ srv.hello = "restore"))
    <2>1. x \in BOOLEAN
      OBVIOUS
    <2> HIDE DEF x
    <2>2. [srv EXCEPT !.here = TRUE, !.hello = "none", !.pending = x] \in Server
      BY <1>3, <2>1 DEF Server
    <2> QED  BY <2>2 DEF x
  <1>5. /\ came.here = TRUE /\ came.dur = srv.dur /\ came.attempt = srv.attempt
        /\ came.loaded = srv.loaded /\ came.applied = srv.applied
    BY <1>3 DEF Server
  <1> HIDE DEF came
  <1>6. next = came \/ next = Begun(came)
    BY <1>1
  <1>7. next = Begun(came) => came.attempt + 1 \in Attempts
    <2>1. Begun(came).attempt = came.attempt + 1
      BY <1>4 DEF Begun, Server
    <2> QED  BY <1>1, <1>3, <1>5, <2>1, ClientAssumption DEF Attempts
  <1>8. /\ next \in Server /\ next.here /\ Onward(next, srv)
        /\ (next.dur = srv.dur /\ next.attempt = srv.attempt
              /\ next.loaded = srv.loaded /\ next.applied = srv.applied) \/ Unproven(next)
    BY <1>3, <1>4, <1>5, <1>6, <1>7, BegunIs DEF Onward
  <1>9. /\ srv' \in Server /\ Outside(srv', next)
        /\ srv'.loaded = next.loaded /\ srv'.applied = next.applied
    BY <1>1, <1>8, PreparedIs
  <1>10. srv'.here /\ Onward(srv', srv)
    BY <1>8, <1>9 DEF Outside, Onward
  <1>11. Counted(c, srv')
    <2>1. CASE Unproven(next)
      BY <1>9, <2>1, CountedNone DEF Unproven
    <2>2. CASE ~Unproven(next)
      BY <1>8, <1>9, <1>10, <2>2, CountedStays DEF Outside
    <2> QED  BY <2>1, <2>2
  <1> DEFINE r == <<[type |-> "Response"]>> \o (SnapshotMsg(srv') \o Dispatch(srv'))
  <1>12. /\ r \in Seq(Messages) /\ r # <<>> /\ r[1].type = "Response" /\ Burst(r, srv')
         /\ \A j \in 1..Len(r) : r[j].type # "Complete"
    BY <1>9, AnswerBurst
  <1>13. inbox' = inbox \o r
    BY <1>1 DEF Send, Advance
  <1> HIDE DEF r
  <1>14. inbox' = r
    BY <1>2, <1>12, <1>13, QuietIs
  <1>15. upsets' \in 0..MaxUpsets
    BY <1>2 DEF ClientInv
  <1> QED  BY <1>2, <1>3, <1>9, <1>10, <1>11, <1>12, <1>14, <1>15, ServerSends

LEMMA RejectInv ==
  ASSUME ClientInv, SrvReject
  PROVE  ClientInv' /\ Holds(c, c')
  <1> DEFINE a == [type |-> "Rejected"]
  <1>1. /\ srv.hello # "none" /\ ~srv.here /\ Quiet
        /\ srv' = [srv EXCEPT !.hello = "none"] /\ inbox' = inbox \o <<a>>
        /\ UNCHANGED <<c, eng, upsets>>
    BY DEF SrvReject, Send
  <1>2. c.online /\ srv \in Server /\ srv.attempt \in Nat /\ ~c.admitted
    BY <1>1, OpenWire
  <1>3. srv' \in Server
    BY <1>1, <1>2 DEF Server
  <1>4. /\ srv'.here = srv.here /\ srv'.dur = srv.dur /\ srv'.attempt = srv.attempt
        /\ srv'.loaded = srv.loaded /\ srv'.applied = srv.applied
    BY <1>1, <1>2 DEF Server
  <1>5. Onward(srv', srv) /\ Counted(c, srv')
    BY <1>2, <1>4, CountedStays DEF Onward
  <1>6. a \in Messages /\ a.type = "Rejected" /\ Fits(a, srv')
    BY DEF Messages, Fits
  <1> HIDE DEF a
  <1>7. inbox' = <<a>>
    <2>1. <<a>> \in Seq(Messages)
      BY <1>6
    <2> QED  BY <1>1, <2>1, QuietIs
  <1>8. /\ inbox' \in Seq(Messages) /\ Len(inbox') = 1 /\ inbox'[1] = a /\ inbox' # <<>>
    BY <1>6, <1>7
  <1>9. \A j \in 1..Len(inbox') : j = 1
    BY <1>8
  <1>10. Burst(inbox', srv')
    BY <1>6, <1>8, <1>9 DEF Burst
  <1>11. upsets' \in 0..MaxUpsets
    BY <1>1 DEF ClientInv
  <1>12. \A j \in 1..Len(inbox') : inbox'[j].type # "Complete"
    BY <1>6, <1>8, <1>9
  <1> QED  BY <1>1, <1>2, <1>3, <1>4, <1>5, <1>6, <1>8, <1>10, <1>11, <1>12, ServerSends

\* A burst to a member who is here; to one who is not, nothing.
LEMMA ServerTells ==
  ASSUME ClientInv, Quiet, UNCHANGED <<c, eng>>, upsets' \in 0..MaxUpsets,
         srv' \in Server, Onward(srv', srv), Counted(c, srv'),
         srv'.here = srv.here, srv'.hello = srv.hello,
         NEW q, q \in Seq(Messages), q # <<>>, Burst(q, srv'),
         q[1].type \in {"Snapshot", "Complete"},
         \A j \in 1..Len(q) : q[j].type = "Complete" => c.stage = "SnapshotApplied",
         IF srv.here THEN Send(q) ELSE UNCHANGED inbox
  PROVE  ClientInv' /\ Holds(c, c')
  <1>1. /\ inbox = <<>> /\ (srv.here <=> c.admitted)
        /\ srv.here => inbox' = q
        /\ ~srv.here => inbox' = <<>>
    BY QuietIs DEF Send
  <1>2. /\ srv.hello # "none" => c.online
        /\ srv.here => c.online
    BY OpenWire
  <1>3. inbox' \in Seq(Messages) /\ Burst(inbox', srv')
    <2>1. <<>> \in Seq(Messages) /\ Burst(<<>>, srv')
      BY DEF Burst
    <2> QED  BY <1>1, <2>1
  <1>4. \A j \in 1..Len(inbox') : inbox'[j].type = "Complete" => c.stage = "SnapshotApplied"
    <2>1. \A j \in 1..Len(<<>>) : FALSE
      OBVIOUS
    <2> QED  BY <1>1, <2>1
  <1> QED  BY <1>1, <1>2, <1>3, <1>4, ServerSends

LEMMA OthersLeaveInv ==
  ASSUME ClientInv, SrvOthersLeave
  PROVE  ClientInv' /\ Holds(c, c')
  <1> DEFINE left == [srv EXCEPT !.others = FALSE]
             next == Lost(srv, left)
  <1>1. /\ Upset /\ Quiet /\ CanLose(srv) /\ srv' = next
        /\ IF srv.here THEN Send(SnapshotMsg(next)) ELSE UNCHANGED inbox
        /\ UNCHANGED <<c, eng>>
    BY DEF SrvOthersLeave
  <1>2. srv \in Server
    BY DEF ClientInv
  <1>3. left \in Server
    BY <1>2 DEF Server
  <1>4. /\ left.dur = srv.dur /\ left.attempt = srv.attempt /\ left.here = srv.here
        /\ left.hello = srv.hello /\ left.loaded = srv.loaded /\ left.applied = srv.applied
    BY <1>2 DEF Server
  <1> HIDE DEF left
  <1>5. srv.dur = "Active" => Unproven(left)
    BY <1>4 DEF ClientInv, Counted, Unproven
  <1>6. /\ next \in Server /\ Onward(next, srv) /\ Unproven(next)
        /\ next.here = srv.here /\ next.hello = srv.hello
    BY <1>1, <1>2, <1>3, <1>4, <1>5, LostIs
  <1> HIDE DEF next
  <1> DEFINE b == [type |-> "Snapshot", runtime |-> Wire(next)]
             q == SnapshotMsg(next)
  <1>7. b \in Messages /\ Fits(b, next) /\ b.type = "Snapshot" /\ q = <<b>>
    BY <1>6, SnapshotFits
  <1> HIDE DEF b, q
  <1>8. q \in Seq(Messages) /\ Len(q) = 1 /\ q[1] = b /\ q # <<>>
    BY <1>7
  <1>9. \A j \in 1..Len(q) : j = 1
    BY <1>8
  <1>10. Burst(q, next)
    BY <1>7, <1>8, <1>9 DEF Burst
  <1>11. upsets' \in 0..MaxUpsets
    BY <1>1, ClientAssumption DEF ClientInv, Upset
  <1>12. \A j \in 1..Len(q) : q[j].type # "Complete"
    BY <1>7, <1>8, <1>9
  <1>13. IF srv.here THEN Send(q) ELSE UNCHANGED inbox
    BY <1>1 DEF q
  <1>14. Counted(c, next)
    BY <1>6, CountedNone
  <1> QED  BY <1>1, <1>6, <1>7, <1>8, <1>10, <1>11, <1>12, <1>13, <1>14, ServerTells

LEMMA OthersReturnInv ==
  ASSUME ClientInv, SrvOthersReturn
  PROVE  ClientInv' /\ Holds(c, c')
  <1> DEFINE came == [srv EXCEPT !.others = TRUE]
             next == IF Wire(came) = "Active" /\ came.pending THEN Begun(came) ELSE came
  <1>1. /\ Quiet /\ next.attempt <= MaxAttempts /\ srv' = Prepared(next)
        /\ IF srv.here THEN Send(Advance(next)) ELSE UNCHANGED inbox
        /\ UNCHANGED <<c, eng, upsets>>
    BY DEF SrvOthersReturn
  <1>2. srv \in Server /\ srv.attempt \in Nat
    BY OpenWire
  <1>3. came \in Server
    BY <1>2 DEF Server
  <1>4. /\ came.dur = srv.dur /\ came.attempt = srv.attempt /\ came.here = srv.here
        /\ came.hello = srv.hello /\ came.loaded = srv.loaded /\ came.applied = srv.applied
    BY <1>2 DEF Server
  <1>5. next = came \/ next = Begun(came)
    OBVIOUS
  <1> HIDE DEF came, next
  <1>6. next = Begun(came) => came.attempt + 1 \in Attempts
    <2>1. Begun(came).attempt = came.attempt + 1
      BY <1>3 DEF Begun, Server
    <2> QED  BY <1>1, <1>2, <1>4, <2>1, ClientAssumption DEF Attempts
  <1>7. /\ next \in Server /\ Onward(next, srv) /\ next.here = srv.here /\ next.hello = srv.hello
        /\ (next.dur = srv.dur /\ next.attempt = srv.attempt
              /\ next.loaded = srv.loaded /\ next.applied = srv.applied) \/ Unproven(next)
    BY <1>2, <1>3, <1>4, <1>5, <1>6, BegunIs DEF Onward
  <1>8. /\ srv' \in Server /\ Outside(srv', next)
        /\ srv'.loaded = next.loaded /\ srv'.applied = next.applied
    BY <1>1, <1>7, PreparedIs
  <1>9. srv'.here = srv.here /\ srv'.hello = srv.hello /\ Onward(srv', srv)
    BY <1>7, <1>8 DEF Outside, Onward
  <1>10. Counted(c, srv')
    <2>1. CASE Unproven(next)
      BY <1>8, <2>1, CountedNone DEF Unproven
    <2>2. CASE ~Unproven(next)
      BY <1>7, <1>8, <1>9, <2>2, CountedStays DEF Outside
    <2> QED  BY <2>1, <2>2
  <1> DEFINE q == SnapshotMsg(srv') \o Dispatch(srv')
  <1>11. /\ q \in Seq(Messages) /\ q # <<>> /\ q[1].type = "Snapshot" /\ Burst(q, srv')
         /\ \A j \in 1..Len(q) : q[j].type \notin {"Complete", "Response", "Rejected"}
    BY <1>8, AdvanceBurst
  <1>12. IF srv.here THEN Send(q) ELSE UNCHANGED inbox
    BY <1>1 DEF Advance
  <1> HIDE DEF q
  <1>13. upsets' \in 0..MaxUpsets
    BY <1>1 DEF ClientInv
  <1>14. \A j \in 1..Len(q) : q[j].type = "Complete" => c.stage = "SnapshotApplied"
    BY <1>11
  <1> QED  BY <1>1, <1>8, <1>9, <1>10, <1>11, <1>12, <1>13, <1>14, ServerTells

LEMMA RestoreInv ==
  ASSUME ClientInv, SrvRestore
  PROVE  ClientInv' /\ Holds(c, c')
  <1> DEFINE next == [srv EXCEPT !.dur = "Restoring", !.stage = "apply"]
             q == SnapshotMsg(next) \o Dispatch(next)
  <1>1. srv.loaded /\ Quiet /\ srv' = next /\ Send(q) /\ UNCHANGED <<c, eng, upsets>>
    BY DEF SrvRestore
  <1>2. srv \in Server /\ srv.attempt \in Nat
    BY OpenWire
  <1>3. srv.here /\ srv.dur # "Active"
    BY <1>1 DEF ClientInv, Counted
  <1>4. next \in Server
    BY <1>2 DEF Server
  <1>5. /\ next.dur = "Restoring" /\ next.attempt = srv.attempt /\ next.here = srv.here
        /\ next.hello = srv.hello /\ next.loaded = srv.loaded /\ next.applied = srv.applied
    BY <1>2 DEF Server
  <1> HIDE DEF next
  <1>6. Onward(next, srv) /\ Counted(c, next)
    BY <1>2, <1>3, <1>5 DEF Onward, ClientInv, Counted
  <1>7. /\ q \in Seq(Messages) /\ q # <<>> /\ q[1].type = "Snapshot" /\ Burst(q, next)
        /\ \A j \in 1..Len(q) : q[j].type \notin {"Complete", "Response", "Rejected"}
    BY <1>4, AdvanceBurst
  <1> HIDE DEF q
  <1>8. IF srv.here THEN Send(q) ELSE UNCHANGED inbox
    BY <1>1, <1>3
  <1>9. upsets' \in 0..MaxUpsets
    BY <1>1 DEF ClientInv
  <1>10. \A j \in 1..Len(q) : q[j].type = "Complete" => c.stage = "SnapshotApplied"
    BY <1>7
  <1> QED  BY <1>1, <1>4, <1>5, <1>6, <1>7, <1>8, <1>9, <1>10, ServerTells

LEMMA CompleteInv ==
  ASSUME ClientInv, SrvComplete
  PROVE  ClientInv' /\ Holds(c, c')
  <1> DEFINE next == [srv EXCEPT !.dur = "Active", !.stage = "wait",
                                 !.loaded = FALSE, !.applied = FALSE]
             a == [type |-> "Complete", attempt |-> srv.attempt]
             b == [type |-> "Snapshot", runtime |-> Wire(next)]
             q == <<a>> \o SnapshotMsg(next)
  <1>1. srv.applied /\ Quiet /\ srv' = next /\ Send(q) /\ UNCHANGED <<c, eng, upsets>>
    BY DEF SrvComplete
  <1>2. srv \in Server /\ srv.attempt \in Nat
    BY OpenWire
  <1>3. srv.here /\ c.stage = "SnapshotApplied"
    BY <1>1 DEF ClientInv, Counted
  <1>4. next \in Server
    BY <1>2 DEF Server
  <1>5. /\ next.dur = "Active" /\ next.attempt = srv.attempt /\ next.here = srv.here
        /\ next.hello = srv.hello /\ next.loaded = FALSE /\ next.applied = FALSE
    BY <1>2 DEF Server
  <1> HIDE DEF next
  <1>6. Onward(next, srv) /\ Counted(c, next)
    BY <1>2, <1>5 DEF Onward, Counted
  <1>7. b \in Messages /\ Fits(b, next) /\ b.type = "Snapshot" /\ SnapshotMsg(next) = <<b>>
    BY <1>4, SnapshotFits
  <1>8. a \in Messages /\ Fits(a, next) /\ a.type = "Complete"
    BY <1>2, <1>5 DEF Messages, Fits, Server
  <1> HIDE DEF a, b
  <1>9. q \in Seq(Messages) /\ Len(q) = 2 /\ q[1] = a /\ q[2] = b
    BY <1>7, <1>8, Pair
  <1> HIDE DEF q
  <1>10. \A j \in 1..Len(q) : j = 1 \/ j = 2
    BY <1>9
  <1>11. Burst(q, next)
    BY <1>7, <1>8, <1>9, <1>10 DEF Burst
  <1>12. q # <<>>
    BY <1>9
  <1>13. IF srv.here THEN Send(q) ELSE UNCHANGED inbox
    BY <1>1, <1>3
  <1>14. upsets' \in 0..MaxUpsets
    BY <1>1 DEF ClientInv
  <1> QED  BY <1>1, <1>3, <1>4, <1>5, <1>6, <1>8, <1>9, <1>11, <1>12, <1>13, <1>14, ServerTells

-----------------------------------------------------------------------------
(* The engine and the player.                                               *)

LEMMA EngineSteps ==
  ASSUME ClientInv, UNCHANGED <<srv, inbox, upsets>>, Sound(c'), Alike(c', c), eng' \in Engine,
         c.admitted => (Owned(c.gate) => Owned(c'.gate)),
         ~Past(srv, c.attempt) => Real(c', eng') /\ Kept(c', eng'.reset)
  PROVE  ClientInv'
  <1>1. srv' = srv /\ inbox' = inbox /\ upsets' = upsets
    OBVIOUS
  <1>2. Fenced(c') /\ c'.says = {}
    BY DEF ClientInv, Fenced, Alike
  <1>3. Honest(c', srv, eng', eng'.reset)
    BY DEF ClientInv, Honest, Alike
  <1>4. Linked(c', srv, inbox) /\ Counted(c', srv)
    BY DEF ClientInv, Linked, Counted, Alike
  <1> QED  BY <1>1, <1>2, <1>3, <1>4 DEF ClientInv

LEMMA HonestIs ==
  ASSUME ClientInv
  PROVE  /\ c \in Client /\ c.gate \in Gate /\ Sound(c) /\ Marked(c.gate) /\ eng \in Engine
         /\ ~Past(srv, c.attempt) => Real(c, eng) /\ Kept(c, eng.reset)
  BY DEF ClientInv, Honest, Sound, Client, Marked

\* Where nothing arrives and nobody stands, nothing was proven.
LEMMA NothingProven ==
  ASSUME NEW k, NEW e, Real(k, e), ~Arriving(k, e), ~Standing(k, e), Sound(k),
         NEW n, n.stage = k.stage, n.request = k.request, n.proof = k.proof, NEW f
  PROVE  Real(n, f)
  BY DEF Real

LEMMA WorldArrivesInv ==
  ASSUME ClientInv, WorldArrives
  PROVE  ClientInv' /\ Holds(c, c')
  <1>1. /\ eng.load # None /\ ~eng.reset /\ eng' = Arrived(eng.load.kind, eng.load.of)
        /\ c' = OnPostLoad(c) /\ UNCHANGED <<srv, inbox, upsets>>
    BY DEF WorldArrives
  <1>2. /\ c \in Client /\ c.gate \in Gate /\ Sound(c) /\ Marked(c.gate) /\ eng \in Engine
        /\ ~Past(srv, c.attempt) => Real(c, eng) /\ Kept(c, eng.reset)
    BY HonestIs
  <1>3. eng.load \in [kind: Kinds, of: Attempts]
    BY <1>1, <1>2 DEF Engine
  <1>4. /\ eng' \in Engine /\ eng'.world = eng.load.kind /\ eng'.of = eng.load.of
        /\ eng'.load = None /\ eng'.reset = FALSE
    BY <1>1, <1>3 DEF Arrived, Engine
  <1> DEFINE n == OnPostLoad(c)
             taken == IsActive(c) /\ "entered" \in c.proof /\ "postload" \notin c.proof
  <1>5. CASE c.gate.state # "ArmedDuringLoad"
    <2>1. c' = c
      BY <1>1, <1>5 DEF OnPostLoad
    <2>2. ~Arriving(c, eng) /\ ~Standing(c, eng)
      BY <1>1, <1>5 DEF Arriving, Standing
    <2>3. ~Past(srv, c.attempt) => Real(c, eng') /\ Kept(c, eng'.reset)
      <3>1. ~Past(srv, c.attempt) => Real(c, eng')
        BY <1>2, <2>2, NothingProven
      <3> QED  BY <1>1, <1>2, <1>4, <3>1 DEF Kept
    <2>4. Alike(c', c)
      BY <2>1 DEF Alike
    <2>5. ClientInv'
      BY <1>1, <1>2, <1>4, <2>1, <2>3, <2>4, EngineSteps
    <2> QED  BY <2>1, <2>5 DEF Holds
  <1>6. CASE c.gate.state = "ArmedDuringLoad"
    <2>1. "guard" \in c.proof \/ "transport" \in c.proof => "postload" \in c.proof
      BY <1>2 DEF Sound
    <2>2. /\ n \in Client /\ Alike(n, c) /\ n.gate = PostLoaded(c.gate)
          /\ taken => n.request = "AwaitingSafetyProof" /\ n.proof = c.proof \cup {"postload"}
          /\ ~taken => n.request = c.request /\ n.proof = c.proof
      BY <1>2, <1>6, <2>1, OnPostLoadIs
    <2>3. c' = n
      BY <1>1
    <2> HIDE DEF n
    <2>4. /\ IsLocked(n.gate) /\ Marked(n.gate) /\ n.gate.recovery = c.gate.recovery
      BY <1>2, <2>2, GateHeld
    <2>5. Sound(n)
      BY <1>2, <2>2, <2>4 DEF Sound, Alike, IsActive, Marked
    <2>6. ASSUME ~Past(srv, c.attempt) PROVE Real(n, eng') /\ Kept(n, eng'.reset)
      <3>1. Real(c, eng) /\ Kept(c, FALSE)
        BY <1>1, <1>2, <2>6 DEF Engine, Kept
      <3>2. ~Standing(c, eng)
        BY <1>1 DEF Standing
      <3>3. n.stage = c.stage /\ n.attempt = c.attempt /\ (Captive(n) <=> Captive(c))
        BY <2>2 DEF Alike, Captive
      <3>4. Kept(n, eng'.reset)
        BY <3>1, <3>3 DEF Kept
      <3>5. c.stage \notin LoadedStages
        BY <3>1, <3>2 DEF Real
      <3>6. CASE taken
        <4>1. Arriving(c, eng)
          BY <1>2, <3>1, <3>6 DEF Sound, Real
        <4>2. Standing(n, eng')
          BY <1>4, <2>4, <3>3, <4>1 DEF Arriving, Standing
        <4>3. "postload" \in n.proof
          BY <2>2, <3>6
        <4> QED  BY <3>3, <3>4, <3>5, <4>2, <4>3 DEF Real
      <3>7. CASE ~taken
        <4>1. c.stage = "LoadingNativeSave" => "postload" \notin c.proof /\ c.request # "Completed"
          BY <3>1, <3>2 DEF Real
        <4>2. c.stage = "LoadingNativeSave" => "entered" \notin c.proof
          BY <1>2, <3>7, <4>1 DEF Sound
        <4> QED  BY <2>2, <3>3, <3>4, <3>5, <3>7, <4>1, <4>2 DEF Real
      <3> QED  BY <3>6, <3>7
    <2>7. Owned(c.gate) => Owned(n.gate)
      BY <2>4 DEF Owned
    <2>8. ClientInv'
      BY <1>1, <1>4, <2>2, <2>3, <2>5, <2>6, <2>7, EngineSteps
    <2> QED  BY <2>3, <2>4, <2>8 DEF Holds
  <1> QED  BY <1>5, <1>6

\* The player loads only where nothing was proven.
LEMMA PlayerMay ==
  ASSUME ClientInv, PlayerMayLoad
  PROVE  /\ eng.load = None /\ ~eng.reset /\ ~c.admitted /\ ~IsLocked(c.gate)
         /\ ~Arriving(c, eng) /\ ~Standing(c, eng)
  <1>1. /\ eng.load = None /\ ~eng.reset /\ ~c.admitted /\ ~IsLocked(c.gate)
    BY DEF PlayerMayLoad, Resting
  <1>2. ~Standing(c, eng)
    BY <1>1 DEF Standing
  <1>3. c.attempt \in Attempts
    BY DEF ClientInv, Sound, Client
  <1>4. [kind |-> "campaign", of |-> c.attempt] # None
    BY <1>3, NoneAssumption DEF Kinds
  <1>5. ~Arriving(c, eng)
    BY <1>1, <1>4 DEF Arriving
  <1> QED  BY <1>1, <1>2, <1>5

LEMMA ManagedLoadIs ==
  ASSUME NEW k \in Client, NEW result \in {"refused", "accepted"}, Marked(k.gate)
  PROVE  LET n == ManagedLoad(k, result)
         IN  /\ n \in Client /\ Alike(n, k) /\ n.request = k.request /\ n.proof = k.proof
             /\ Marked(n.gate)
  <1> DEFINE named == [k EXCEPT !.identity = TRUE, !.continuing = FALSE,
                                !.gate = LoadEntered(ArmResumeRequiredLoad(@))]
             refused == [named EXCEPT !.gate = LoadRefused(@), !.identity = FALSE]
             n == ManagedLoad(k, result)
  <1>1. k.gate \in Gate
    BY DEF Client
  <1>2. n \in Client
    BY OtherTypes
  <1>3. named \in Client
    BY <1>1, GateTypes DEF Client
  <1>4. /\ Alike(named, k) /\ named.request = k.request /\ named.proof = k.proof
        /\ named.gate = LoadEntered(ArmResumeRequiredLoad(k.gate))
    BY DEF Alike, Client
  <1>5. n = IF result = "refused" THEN refused ELSE named
    BY DEF ManagedLoad
  <1> HIDE DEF named, n
  <1>6. /\ Alike(refused, named) /\ refused.request = named.request
        /\ refused.proof = named.proof /\ refused.gate = LoadRefused(named.gate)
    BY <1>3 DEF Alike, Client
  <1> HIDE DEF refused
  <1>7. Marked(named.gate)
    BY <1>1, <1>4 DEF Marked, LoadEntered, ArmResumeRequiredLoad, Gate
  <1>8. Marked(refused.gate)
    BY <1>3, <1>6, <1>7 DEF Marked, LoadRefused, Disarmed, Gate, Client
  <1> QED  BY <1>2, <1>4, <1>5, <1>6, <1>7, <1>8, AlikeTrans DEF n

LEMMA PlayerLoads ==
  ASSUME ClientInv, PlayerMayLoad, UNCHANGED <<srv, inbox, upsets>>,
         c' \in Client, Alike(c', c), c'.request = c.request, c'.proof = c.proof,
         Marked(c'.gate), NEW kind \in Kinds, eng' = eng \/ eng' = Loading(kind, 0)
  PROVE  ClientInv' /\ Holds(c, c')
  <1>1. /\ eng.load = None /\ ~eng.reset /\ ~c.admitted /\ ~IsLocked(c.gate)
        /\ ~Arriving(c, eng) /\ ~Standing(c, eng)
    BY PlayerMay
  <1>2. /\ c \in Client /\ Sound(c) /\ eng \in Engine
        /\ ~Past(srv, c.attempt) => Real(c, eng) /\ Kept(c, eng.reset)
    BY HonestIs
  <1>3. eng' \in Engine /\ eng'.reset = eng.reset
    <2>1. Loading(kind, 0) \in Engine
      BY <1>2, ClientAssumption DEF Loading, Engine, Attempts
    <2>2. Loading(kind, 0).reset = eng.reset
      BY <1>2 DEF Loading, Engine
    <2> QED  BY <1>2, <2>1, <2>2
  <1>4. Sound(c')
    BY <1>2 DEF Sound, Alike, IsActive, Marked
  <1>5. ~Past(srv, c.attempt) => Real(c', eng')
    BY <1>1, <1>2, NothingProven DEF Alike
  <1>6. ~Past(srv, c.attempt) => Kept(c', eng'.reset)
    BY <1>2, <1>3 DEF Kept, Captive, Alike
  <1>7. ClientInv'
    BY <1>1, <1>3, <1>4, <1>5, <1>6, EngineSteps
  <1> QED  BY <1>1, <1>7 DEF Holds

LEMMA PlayerLoadInv ==
  ASSUME ClientInv, NEW kind \in Kinds, NEW result \in {"refused", "accepted"},
         PlayerLoad(kind, result)
  PROVE  ClientInv' /\ Holds(c, c')
  <1>1. /\ PlayerMayLoad /\ UNCHANGED <<srv, inbox, upsets>>
        /\ c' = IF kind = "campaign" THEN ManagedLoad(c, result) ELSE c
        /\ eng' = AfterLoad(result, kind, 0)
    BY DEF PlayerLoad
  <1>2. c \in Client /\ Marked(c.gate)
    BY HonestIs
  <1>3. c' \in Client /\ Alike(c', c) /\ c'.request = c.request /\ c'.proof = c.proof /\ Marked(c'.gate)
    BY <1>1, <1>2, ManagedLoadIs DEF Alike
  <1>4. eng' = eng \/ eng' = Loading(kind, 0)
    BY <1>1 DEF AfterLoad
  <1> QED  BY <1>1, <1>3, <1>4, PlayerLoads

LEMMA ContinueLoadInv ==
  ASSUME ClientInv, NEW accepted \in BOOLEAN, ContinueLoad(accepted)
  PROVE  ClientInv' /\ Holds(c, c')
  <1>1. /\ PlayerMayLoad /\ UNCHANGED <<srv, inbox, upsets>>
        /\ c' = [c EXCEPT !.continuing = accepted, !.identity = accepted]
        /\ eng' = IF accepted THEN Loading("campaign", 0) ELSE eng
    BY DEF ContinueLoad
  <1>2. c \in Client /\ Marked(c.gate)
    BY HonestIs
  <1>3. c' \in Client
    BY <1>1, <1>2 DEF Client
  <1>4. Alike(c', c) /\ c'.request = c.request /\ c'.proof = c.proof /\ c'.gate = c.gate
    BY <1>1, <1>2 DEF Client, Alike
  <1>5. "campaign" \in Kinds
    BY DEF Kinds
  <1> QED  BY <1>1, <1>2, <1>3, <1>4, <1>5, PlayerLoads

LEMMA CommitIs ==
  ASSUME NEW k \in Client, Marked(k.gate)
  PROVE  LET n == CommitContinueMainMenuClosed(k)
         IN  /\ n \in Client /\ Alike(n, k) /\ n.request = k.request /\ n.proof = k.proof
             /\ Guards(n.gate, k.gate)
             /\ k.gate.state = "ArmedDuringLoad" => n.gate = k.gate
  <1> DEFINE armed == ArmResumeRequiredLoad(k.gate)
             come == [k EXCEPT !.continuing = FALSE, !.firstUpdate = TRUE,
                               !.gate = CommitResumeRequiredTransition(armed)]
             g == IF CanArm(k.gate) THEN CancelArmedLoad(armed) ELSE k.gate
             back == [k EXCEPT !.continuing = FALSE, !.identity = FALSE, !.gate = g]
             n == CommitContinueMainMenuClosed(k)
  <1>1. k.gate \in Gate /\ armed \in Gate /\ CommitResumeRequiredTransition(armed) \in Gate
    BY GateTypes DEF Client
  <1>2. g \in Gate
    BY <1>1, GateTypes
  <1>3. n = IF ~k.continuing THEN k
            ELSE IF CanArm(k.gate) /\ CanCommit(armed) THEN ResumePostLoad(come) ELSE back
    BY DEF CommitContinueMainMenuClosed
  <1>4. n \in Client
    BY OtherTypes
  <1>5. CanArm(k.gate) /\ CanCommit(armed) =>
          /\ Guards(CommitResumeRequiredTransition(armed), k.gate)
          /\ k.gate.state # "ArmedDuringLoad"
    BY <1>1 DEF CanArm, CanCommit, CommitResumeRequiredTransition, ArmResumeRequiredLoad, Hold,
                Guards, Marked, Owned, IsLocked, Gate
  <1>6. ~(CanArm(k.gate) /\ CanCommit(armed)) =>
          Guards(g, k.gate) /\ (k.gate.state = "ArmedDuringLoad" => g = k.gate)
    BY <1>1 DEF CanArm, CanCommit, CancelArmedLoad, Disarmed, ArmResumeRequiredLoad,
                Guards, Marked, Owned, IsLocked, Gate, GateStates
  <1>7. Guards(k.gate, k.gate)
    BY DEF Guards
  <1> HIDE DEF g, armed
  <1>8. /\ Alike(back, k) /\ back.request = k.request /\ back.proof = k.proof /\ back.gate = g
    BY DEF Alike, Client
  <1>9. /\ come \in Client /\ Alike(come, k) /\ come.request = k.request /\ come.proof = k.proof
        /\ come.gate = CommitResumeRequiredTransition(armed)
    <2>1. come \in Client
      BY <1>1 DEF Client
    <2> QED  BY <2>1 DEF Alike, Client
  <1> HIDE DEF come, back
  <1>10. LET r == ResumePostLoad(come)
         IN  Alike(r, come) /\ r.request = come.request /\ r.proof = come.proof /\ r.gate = come.gate
    BY <1>9 DEF ResumePostLoad, Alike, Client
  <1>11. Alike(k, k)
    BY DEF Alike
  <1> HIDE DEF n
  <1> QED  BY <1>3, <1>4, <1>5, <1>6, <1>7, <1>8, <1>9, <1>10, <1>11, AlikeTrans DEF n

LEMMA MainMenuClosesInv ==
  ASSUME ClientInv, MainMenuCloses
  PROVE  ClientInv' /\ Holds(c, c')
  <1>1. /\ eng.world = "menu" /\ eng' = [eng EXCEPT !.world = "loading"]
        /\ c' = CommitContinueMainMenuClosed(c) /\ UNCHANGED <<srv, inbox, upsets>>
    BY DEF MainMenuCloses
  <1>2. /\ c \in Client /\ Sound(c) /\ Marked(c.gate) /\ eng \in Engine
        /\ ~Past(srv, c.attempt) => Real(c, eng) /\ Kept(c, eng.reset)
    BY HonestIs
  <1>3. /\ c' \in Client /\ Alike(c', c) /\ c'.request = c.request /\ c'.proof = c.proof
        /\ Guards(c'.gate, c.gate)
        /\ c.gate.state = "ArmedDuringLoad" => c'.gate = c.gate
    BY <1>1, <1>2, CommitIs
  <1>4. eng' \in Engine /\ eng'.load = eng.load /\ eng'.reset = eng.reset
    BY <1>1, <1>2 DEF Engine
  <1>5. Sound(c')
    BY <1>2, <1>3 DEF Sound, Alike, IsActive, Guards, Marked
  <1>6. ~Standing(c, eng) /\ (Arriving(c, eng) => Arriving(c', eng'))
    BY <1>1, <1>3, <1>4 DEF Standing, Arriving, Alike
  <1>7. Real(c, eng) => Real(c', eng')
    BY <1>3, <1>6 DEF Real, Alike
  <1>8. Kept(c, eng.reset) => Kept(c', eng'.reset)
    BY <1>3, <1>4 DEF Kept, Captive, Alike
  <1>9. ClientInv'
    BY <1>1, <1>2, <1>3, <1>4, <1>5, <1>7, <1>8, EngineSteps DEF Guards
  <1> QED  BY <1>3, <1>9 DEF Holds, Guards

\* A choice of the player, who stays where it is.
LEMMA ButtonsInv ==
  ASSUME ClientInv, ReturnToMainMenu \/ StayAndRecover
  PROVE  ClientInv' /\ Holds(c, c')
  <1>1. /\ c.mode = "DisconnectIncident" /\ UNCHANGED <<eng, srv, inbox, upsets>>
        /\ c' \in {[c EXCEPT !.menuRequested = TRUE], [c EXCEPT !.mode = "ExistingRecovery"]}
    BY DEF ReturnToMainMenu, StayAndRecover
  <1>2. /\ c \in Client /\ Sound(c) /\ eng \in Engine
        /\ ~Past(srv, c.attempt) => Real(c, eng) /\ Kept(c, eng.reset)
    BY HonestIs
  <1>3. c' \in Client
    <2>1. /\ [c EXCEPT !.menuRequested = TRUE] \in Client
          /\ [c EXCEPT !.mode = "ExistingRecovery"] \in Client
      BY <1>2 DEF Client
    <2> QED  BY <1>1, <2>1
  <1>4. /\ c'.request = c.request /\ c'.proof = c.proof /\ c'.gate = c.gate /\ c'.stage = c.stage
        /\ c'.attempt = c.attempt /\ c'.online = c.online /\ c'.admitted = c.admitted
        /\ c'.snapshot = c.snapshot /\ c'.says = c.says
    BY <1>1, <1>2 DEF Client
  <1>5. ~Captive(c)
    BY <1>1 DEF Captive
  <1>6. Sound(c') /\ Fenced(c') /\ c'.says = {}
    BY <1>3, <1>4 DEF ClientInv, Sound, Fenced, IsActive
  <1>7. Honest(c', srv, eng, eng.reset)
    <2>1. Real(c, eng) => Real(c', eng)
      BY <1>4, <1>5 DEF Real, Arriving, Standing
    <2>2. Kept(c, eng.reset) => Kept(c', eng.reset)
      BY <1>4, <1>5 DEF Kept
    <2> QED  BY <1>4, <2>1, <2>2 DEF ClientInv, Honest
  <1>8. Linked(c', srv, inbox) /\ Counted(c', srv)
    BY <1>4 DEF ClientInv, Linked, Counted
  <1>9. ClientInv'
    BY <1>1, <1>6, <1>7, <1>8 DEF ClientInv
  <1> QED  BY <1>4, <1>9 DEF Holds

\* OnConnected and Select: a Resume is on its way.
LEMMA HelloInv ==
  ASSUME ClientInv, Connect \/ Select
  PROVE  ClientInv' /\ Holds(c, c')
  <1>1. /\ UNCHANGED <<eng, inbox, upsets>>
        /\ c' \in {[c EXCEPT !.online = TRUE], [c EXCEPT !.wantsRestore = TRUE]}
        /\ c'.online = TRUE
        /\ \E h \in {"none", "plain", "restore"} : srv' = [srv EXCEPT !.hello = h]
    <2>1. c \in Client
      BY HonestIs
    <2>2. [c EXCEPT !.online = TRUE].online = TRUE
          /\ [c EXCEPT !.wantsRestore = TRUE].online = c.online
      BY <2>1 DEF Client
    <2> QED  BY <2>1, <2>2 DEF Connect, Select, Client
  <1>2. PICK h \in {"none", "plain", "restore"} : srv' = [srv EXCEPT !.hello = h]
    BY <1>1
  <1>3. c \in Client /\ Sound(c) /\ srv \in Server
    BY HonestIs, OpenWire
  <1>4. c' \in Client
    <2>1. [c EXCEPT !.online = TRUE] \in Client /\ [c EXCEPT !.wantsRestore = TRUE] \in Client
      BY <1>3 DEF Client
    <2> QED  BY <1>1, <2>1
  <1>5. /\ c'.request = c.request /\ c'.proof = c.proof /\ c'.gate = c.gate /\ c'.stage = c.stage
        /\ c'.attempt = c.attempt /\ c'.admitted = c.admitted /\ c'.mode = c.mode
        /\ c'.sawActive = c.sawActive /\ c'.snapshot = c.snapshot /\ c'.says = c.says
    BY <1>1, <1>3 DEF Client
  <1>6. srv' \in Server
    BY <1>2, <1>3 DEF Server
  <1>7. /\ srv'.dur = srv.dur /\ srv'.attempt = srv.attempt /\ srv'.here = srv.here
        /\ srv'.others = srv.others /\ srv'.loaded = srv.loaded /\ srv'.applied = srv.applied
    BY <1>2, <1>3 DEF Server
  <1>8. Sound(c') /\ Fenced(c') /\ c'.says = {}
    BY <1>1, <1>4, <1>5 DEF ClientInv, Sound, Fenced, IsActive
  <1>9. Honest(c', srv', eng, eng.reset)
    <2>1. Real(c, eng) => Real(c', eng)
      BY <1>5 DEF Real, Arriving, Standing, Captive
    <2>2. Kept(c, eng.reset) => Kept(c', eng.reset)
      BY <1>5 DEF Kept, Captive
    <2>3. Past(srv', c.attempt) <=> Past(srv, c.attempt)
      BY <1>7 DEF Past
    <2> QED  BY <1>5, <1>7, <2>1, <2>2, <2>3 DEF ClientInv, Honest
  <1>10. Burst(inbox, srv')
    <2>1. Wire(srv') = Wire(srv)
      BY <1>7 DEF Wire
    <2>2. \A m : Fits(m, srv) => Fits(m, srv')
      BY <1>7, <2>1 DEF Fits
    <2> QED  BY <1>7, <2>2 DEF ClientInv, Burst
  <1>11. Linked(c', srv', inbox) /\ Counted(c', srv')
    BY <1>1, <1>5, <1>7 DEF ClientInv, Linked, Counted
  <1>12. ClientInv'
    BY <1>1, <1>6, <1>7, <1>8, <1>9, <1>10, <1>11 DEF ClientInv
  <1> QED  BY <1>5, <1>12 DEF Holds

-----------------------------------------------------------------------------
(* The connection ends.                                                     *)

\* The server counts nobody out, and nothing is on the wire.
LEMMA LeavesInv ==
  ASSUME ClientInv, Sound(c'), c'.says = {}, ~c'.admitted, c'.snapshot = None, inbox' = <<>>,
         srv' \in Server, Onward(srv', srv), Unproven(srv'), ~srv'.here, srv'.hello = "none",
         upsets' \in 0..MaxUpsets, eng' \in Engine, Honest(c', srv, eng', eng'.reset)
  PROVE  ClientInv'
  <1>1. srv \in Server /\ srv.attempt \in Nat /\ srv.attempt > 0 /\ srv'.attempt \in Nat
    BY OpenWire DEF ClientInv, Server, Attempts
  <1>2. srv'.attempt > 0
    BY <1>1 DEF Onward
  <1>3. c' \in Client
    BY DEF Sound
  <1>4. Honest(c', srv', eng', eng'.reset)
    BY <1>1, <1>3, OnwardIs
  <1>5. Fenced(c') /\ Counted(c', srv')
    BY CountedNone DEF Fenced
  <1>6. inbox' \in Seq(Messages) /\ \A j \in 1..Len(inbox') : FALSE
    OBVIOUS
  <1>7. Burst(inbox', srv') /\ Linked(c', srv', inbox')
    BY <1>6 DEF Burst, Linked
  <1> QED  BY <1>2, <1>4, <1>5, <1>6, <1>7 DEF ClientInv

LEMMA UpsetIs ==
  ASSUME ClientInv, Upset
  PROVE  upsets' \in 0..MaxUpsets
  BY ClientAssumption DEF ClientInv, Upset

LEMMA MainMenuIs ==
  ASSUME NEW k \in Client, Marked(k.gate)
  PROVE  LET n == OnMainMenuEntered(k)
         IN  /\ n \in Client /\ n.stage = k.stage /\ n.attempt = k.attempt
             /\ n.request = k.request /\ n.proof = k.proof /\ n.says = k.says
             /\ ~n.admitted /\ n.snapshot = None /\ Captive(n) /\ Marked(n.gate)
             /\ n.online => k.online /\ ~k.admitted
  <1> DEFINE departed == k.admitted \/ k.candidate
             x == k.online /\ ~departed
             y == k.protect /\ ~(k.online /\ departed)
             gone == [k EXCEPT !.admitted = FALSE, !.candidate = FALSE,
                               !.wantsRestore = FALSE, !.snapshot = None,
                               !.online = x, !.protect = y]
             shut == CloseUi(gone)
             g == IF IsLocked(shut.gate) THEN Release(shut.gate) ELSE shut.gate
             open == [shut EXCEPT !.gate = g]
             n == OnMainMenuEntered(k)
  <1>1. n = IF k.mode = "Hidden" THEN shut ELSE open
    BY DEF OnMainMenuEntered
  <1>2. n \in Client
    BY OtherTypes
  <1>3. x \in BOOLEAN /\ y \in BOOLEAN /\ (x => k.online /\ ~k.admitted)
    BY DEF Client
  <1> HIDE DEF x, y
  <1>4. gone \in Client
    BY <1>3 DEF Client
  <1>5. /\ gone.stage = k.stage /\ gone.attempt = k.attempt /\ gone.request = k.request
        /\ gone.proof = k.proof /\ gone.says = k.says /\ gone.admitted = FALSE
        /\ gone.snapshot = None /\ gone.gate = k.gate /\ gone.online = x
    BY DEF Client
  <1> HIDE DEF gone
  <1>6. /\ shut.stage = gone.stage /\ shut.attempt = gone.attempt /\ shut.request = gone.request
        /\ shut.proof = gone.proof /\ shut.says = gone.says /\ shut.admitted = gone.admitted
        /\ shut.snapshot = gone.snapshot /\ shut.gate = gone.gate /\ shut.online = gone.online
        /\ shut.mode = "Hidden" /\ shut.sawActive = FALSE
    BY <1>4 DEF Client, CloseUi
  <1>7. shut \in Client
    BY <1>4 DEF Client, CloseUi
  <1> HIDE DEF shut
  <1>8. Marked(g)
    BY <1>5, <1>6, <1>7, GateHeld DEF Client
  <1> HIDE DEF g
  <1>9. /\ open.stage = shut.stage /\ open.attempt = shut.attempt /\ open.request = shut.request
        /\ open.proof = shut.proof /\ open.says = shut.says /\ open.admitted = shut.admitted
        /\ open.snapshot = shut.snapshot /\ open.gate = g /\ open.online = shut.online
        /\ open.mode = shut.mode /\ open.sawActive = shut.sawActive
    BY <1>7 DEF Client
  <1> HIDE DEF open, n
  <1> QED  BY <1>1, <1>2, <1>3, <1>5, <1>6, <1>8, <1>9 DEF n, Captive

LEMMA MainMenuOpensInv ==
  ASSUME ClientInv, MainMenuOpens
  PROVE  ClientInv' /\ eng'.world = "menu"
  <1>1. /\ Upset
        /\ eng.reset \/ (eng.load = None /\ ~eng.reset /\ ~IsLocked(c.gate))
        /\ c.online => CanLose(srv)
        /\ eng' = [world |-> "menu", of |-> 0, load |-> None, reset |-> FALSE]
        /\ c' = OnMainMenuEntered(c)
        /\ IF c'.online \/ ~c.online THEN UNCHANGED <<srv, inbox>>
           ELSE srv' = SrvGone(srv) /\ inbox' = <<>>
    BY DEF MainMenuOpens, Resting
  <1>2. /\ c \in Client /\ c.gate \in Gate /\ Sound(c) /\ Marked(c.gate) /\ eng \in Engine
        /\ ~Past(srv, c.attempt) => Real(c, eng) /\ Kept(c, eng.reset)
    BY HonestIs
  <1>3. /\ c' \in Client /\ c'.stage = c.stage /\ c'.attempt = c.attempt
        /\ c'.request = c.request /\ c'.proof = c.proof /\ c'.says = c.says
        /\ ~c'.admitted /\ c'.snapshot = None /\ Captive(c') /\ Marked(c'.gate)
        /\ c'.online => c.online /\ ~c.admitted
    BY <1>1, <1>2, MainMenuIs
  <1>4. eng' \in Engine /\ eng'.world = "menu" /\ eng'.reset = FALSE
    BY <1>1, ClientAssumption DEF Engine, Attempts
  <1>5. Sound(c') /\ c'.says = {}
    BY <1>2, <1>3 DEF ClientInv, Sound, IsActive, Marked
  <1>6. ~Arriving(c, eng) /\ ~Standing(c, eng)
    <2>1. [kind |-> "campaign", of |-> c.attempt] # None
      BY <1>2, NoneAssumption DEF Kinds, Client
    <2> QED  BY <1>1, <2>1 DEF Arriving, Standing
  <1>7. ~Past(srv, c.attempt) => Real(c', eng')
    BY <1>2, <1>3, <1>6, NothingProven
  <1>8. Honest(c', srv, eng', eng'.reset)
    <2>1. Kept(c', eng'.reset)
      BY <1>3 DEF Kept
    <2>2. c'.snapshot # "Active"
      BY <1>3, NoneAssumption DEF Runtimes
    <2> QED  BY <1>3, <1>7, <2>1, <2>2 DEF ClientInv, Honest
  <1>9. upsets' \in 0..MaxUpsets
    BY <1>1, UpsetIs
  <1>10. CASE c'.online \/ ~c.online
    <2>1. srv' = srv /\ inbox' = inbox
      BY <1>1, <1>10
    <2>2. Fenced(c') /\ Counted(c', srv)
      BY <1>3 DEF ClientInv, Fenced, Counted
    <2>3. Linked(c', srv, inbox)
      BY <1>3, <1>10 DEF ClientInv, Linked, Fenced
    <2> QED  BY <1>4, <1>5, <1>8, <1>9, <2>1, <2>2, <2>3 DEF ClientInv
  <1>11. CASE ~(c'.online \/ ~c.online)
    <2>1. srv' = SrvGone(srv) /\ inbox' = <<>> /\ CanLose(srv)
      BY <1>1, <1>2, <1>11 DEF Client
    <2>2. srv' \in Server /\ Onward(srv', srv) /\ Unproven(srv') /\ ~srv'.here /\ srv'.hello = "none"
      BY <2>1, SrvGoneIs
    <2> QED  BY <1>3, <1>4, <1>5, <1>8, <1>9, <2>1, <2>2, LeavesInv
  <1> QED  BY <1>4, <1>10, <1>11

LEMMA DisconnectedIs ==
  ASSUME NEW k \in Client, Marked(k.gate)
  PROVE  LET n == OnDisconnected(k)
         IN  /\ n \in Client /\ n.request = k.request /\ n.proof = k.proof /\ n.says = k.says
             /\ ~n.admitted /\ n.snapshot = None /\ (Captive(k) => Captive(n))
             /\ \/ n.stage = k.stage /\ n.attempt = k.attempt
                \/ k.stage \in {"Idle", "Completed"} /\ n.stage = "RecoveryLocked" /\ n.attempt = 0
             /\ Guards(n.gate, k.gate)
             /\ k.gate.state \notin {"Open", "Released"} => n.gate.state = k.gate.state
  <1> DEFINE x == k.candidate \/ k.admitted
             gone == [k EXCEPT !.online = FALSE, !.admitted = FALSE,
                               !.candidate = x, !.snapshot = None]
             locked == IF k.protect THEN Lock(gone, FALSE) ELSE gone
             told == [locked EXCEPT !.mode = "DisconnectIncident", !.menuRequested = FALSE]
             n == OnDisconnected(k)
  <1>1. n = IF k.mode = "Hidden" /\ k.sawActive THEN told ELSE locked
    BY DEF OnDisconnected
  <1>2. n \in Client
    BY OtherTypes
  <1>3. x \in BOOLEAN
    BY DEF Client
  <1> HIDE DEF x
  <1>4. gone \in Client
    BY <1>3 DEF Client
  <1>5. /\ gone.stage = k.stage /\ gone.attempt = k.attempt /\ gone.request = k.request
        /\ gone.proof = k.proof /\ gone.says = k.says /\ gone.admitted = FALSE
        /\ gone.snapshot = None /\ gone.gate = k.gate
        /\ gone.mode = k.mode /\ gone.sawActive = k.sawActive
    BY DEF Client
  <1> HIDE DEF gone
  <1>6. /\ locked \in Client /\ locked.request = k.request /\ locked.proof = k.proof
        /\ locked.says = k.says /\ locked.admitted = FALSE /\ locked.snapshot = None
        /\ locked.mode = k.mode /\ locked.sawActive = k.sawActive
        /\ \/ locked.stage = k.stage /\ locked.attempt = k.attempt
           \/ /\ k.stage \in {"Idle", "Completed"} /\ locked.stage = "RecoveryLocked"
              /\ locked.attempt = 0
        /\ locked.gate \in {k.gate, LockForRecovery(k.gate)}
    <2>1. CASE k.protect
      <3> DEFINE m == Lock(gone, FALSE)
                 fresh == gone.stage \in {"Idle", "Completed"}
      <3>1. /\ m \in Client
            /\ fresh => m.stage = "RecoveryLocked" /\ m.attempt = 0
            /\ ~fresh => m.stage = gone.stage /\ m.attempt = gone.attempt
            /\ m.gate = LockForRecovery(gone.gate)
            /\ m.request = gone.request /\ m.proof = gone.proof
            /\ m.mode = gone.mode /\ m.sawActive = gone.sawActive
            /\ m.admitted = gone.admitted /\ m.snapshot = gone.snapshot /\ m.says = gone.says
        BY <1>4, LockIs
      <3>2. locked = m
        BY <2>1
      <3> HIDE DEF m, locked
      <3> QED  BY <1>5, <3>1, <3>2
    <2>2. CASE ~k.protect
      BY <1>4, <1>5, <2>2
    <2> QED  BY <2>1, <2>2
  <1> HIDE DEF locked
  <1>7. /\ Guards(locked.gate, k.gate)
        /\ k.gate.state \notin {"Open", "Released"} => locked.gate.state = k.gate.state
    <2>1. k.gate \in Gate
      BY DEF Client
    <2> QED  BY <1>6, <2>1, GateHeld DEF Guards
  <1>8. /\ told.request = locked.request /\ told.proof = locked.proof /\ told.says = locked.says
        /\ told.admitted = locked.admitted /\ told.snapshot = locked.snapshot
        /\ told.stage = locked.stage /\ told.attempt = locked.attempt /\ told.gate = locked.gate
    BY <1>6 DEF Client
  <1> HIDE DEF told, n
  <1>9. Captive(k) => Captive(n)
    BY <1>1, <1>6 DEF Captive
  <1> QED  BY <1>1, <1>2, <1>6, <1>7, <1>8, <1>9 DEF n

LEMMA DisconnectionInv ==
  ASSUME ClientInv, LinkLost \/ ServerCrash
  PROVE  ClientInv' /\ Holds(c, c')
  <1> DEFINE down == [Relocked(srv) EXCEPT !.here = FALSE, !.others = FALSE,
                                           !.pending = FALSE, !.hello = "none"]
  <1>1. /\ Upset /\ c' = OnDisconnected(c) /\ inbox' = <<>> /\ eng' = eng
        /\ (CanLose(srv) /\ srv' = SrvGone(srv)) \/ srv' = down
    BY DEF LinkLost, ServerCrash, Disconnection
  <1>2. /\ c \in Client /\ c.gate \in Gate /\ Sound(c) /\ Marked(c.gate) /\ eng \in Engine
        /\ ~Past(srv, c.attempt) => Real(c, eng) /\ Kept(c, eng.reset)
    BY HonestIs
  <1>3. srv' \in Server /\ Onward(srv', srv) /\ Unproven(srv') /\ ~srv'.here /\ srv'.hello = "none"
    <2> DEFINE s == Relocked(srv)
    <2>1. srv \in Server /\ srv.attempt \in Nat
      BY OpenWire
    <2>2. s \in Server /\ s.dur = srv.dur /\ s.attempt = srv.attempt /\ Unproven(s)
      BY <2>1, RelockedIs
    <2> HIDE DEF s
    <2>3. down = [s EXCEPT !.here = FALSE, !.others = FALSE, !.pending = FALSE, !.hello = "none"]
      BY DEF s
    <2>4. /\ down \in Server /\ down.dur = s.dur /\ down.attempt = s.attempt /\ down.here = FALSE
          /\ down.hello = "none" /\ down.loaded = s.loaded /\ down.applied = s.applied
      BY <2>2, <2>3 DEF Server
    <2> HIDE DEF down
    <2>5. Onward(down, srv) /\ Unproven(down)
      BY <2>1, <2>2, <2>4 DEF Onward, Unproven
    <2> QED  BY <1>1, <2>4, <2>5, SrvGoneIs
  <1>4. /\ c' \in Client /\ c'.request = c.request /\ c'.proof = c.proof /\ c'.says = c.says
        /\ ~c'.admitted /\ c'.snapshot = None /\ (Captive(c) => Captive(c'))
        /\ \/ c'.stage = c.stage /\ c'.attempt = c.attempt
           \/ c.stage \in {"Idle", "Completed"} /\ c'.stage = "RecoveryLocked" /\ c'.attempt = 0
        /\ Guards(c'.gate, c.gate)
        /\ c.gate.state \notin {"Open", "Released"} => c'.gate.state = c.gate.state
    BY <1>1, <1>2, DisconnectedIs
  <1>5. Sound(c') /\ c'.says = {}
    BY <1>2, <1>4 DEF ClientInv, Sound, IsActive, Guards, Marked
  <1>6. c'.snapshot # "Active"
    BY <1>4, NoneAssumption DEF Runtimes
  <1>7. Honest(c', srv, eng, eng.reset)
    <2>1. CASE c'.stage = c.stage /\ c'.attempt = c.attempt
      <3>1. Arriving(c, eng) => Arriving(c', eng)
        BY <1>4, <2>1 DEF Arriving
      <3>2. Standing(c, eng) => Standing(c', eng)
        BY <1>4, <2>1 DEF Standing, Guards
      <3>3. Real(c, eng) => Real(c', eng)
        BY <1>4, <2>1, <3>1, <3>2 DEF Real
      <3>4. Kept(c, eng.reset) => Kept(c', eng.reset)
        BY <1>4, <2>1 DEF Kept
      <3> QED  BY <1>6, <2>1, <3>3, <3>4 DEF ClientInv, Honest
    <2>2. CASE c'.attempt = 0
      <3>1. srv.attempt > 0 /\ srv.attempt \in Nat
        BY OpenWire DEF ClientInv
      <3> QED  BY <1>6, <2>2, <3>1 DEF Honest, Past
    <2> QED  BY <1>4, <2>1, <2>2
  <1>8. upsets' \in 0..MaxUpsets
    BY <1>1, UpsetIs
  <1>9. ClientInv'
    BY <1>1, <1>2, <1>3, <1>4, <1>5, <1>7, <1>8, LeavesInv
  <1> QED  BY <1>4, <1>9 DEF Holds, Guards

-----------------------------------------------------------------------------
(* Every behaviour.                                                         *)

LEMMA ClientInit ==
  ASSUME Init
  PROVE  ClientInv
  <1>1. /\ OpenGate \in Gate /\ OpenGate.state = "Open"
    BY DEF OpenGate, Gate, GateStates
  <1>2. 0 \in Attempts /\ 1 \in Attempts
    BY ClientAssumption DEF Attempts
  <1>3. Booted \in Client
    BY <1>1, <1>2 DEF Booted, Client, RequestStates, Stages
  <1>4. Playing \in Client
    BY <1>3 DEF Playing, Client, Runtimes
  <1>5. ASSUME NEW k \in {Booted, Playing}
        PROVE  /\ k.gate = OpenGate /\ k.request = "Idle" /\ k.proof = {} /\ k.stage = "Idle"
               /\ k.attempt = 0 /\ k.says = {}
               /\ k.admitted = k.online /\ k.snapshot = IF k.admitted THEN "Active" ELSE None
    <2>1. /\ Playing.gate = Booted.gate /\ Playing.request = Booted.request
          /\ Playing.proof = Booted.proof /\ Playing.stage = Booted.stage
          /\ Playing.attempt = Booted.attempt /\ Playing.says = Booted.says
          /\ Playing.admitted = TRUE /\ Playing.online = TRUE /\ Playing.snapshot = "Active"
      BY <1>3 DEF Playing, Client
    <2>2. /\ Booted.gate = OpenGate /\ Booted.request = "Idle" /\ Booted.proof = {}
          /\ Booted.stage = "Idle" /\ Booted.attempt = 0 /\ Booted.says = {}
          /\ Booted.admitted = FALSE /\ Booted.online = FALSE /\ Booted.snapshot = None
      BY DEF Booted
    <2> QED  BY <2>1, <2>2
  <1>6. c \in {Booted, Playing} /\ c \in Client
    BY <1>3, <1>4 DEF Init
  <1>7. Sound(c) /\ Fenced(c) /\ c.says = {}
    BY <1>1, <1>5, <1>6, NoneAssumption DEF Sound, Fenced, IsActive, Recovering
  <1>8. eng \in Engine
    <2>1. [world |-> "menu", of |-> 0, load |-> None, reset |-> FALSE] \in Engine
      BY <1>2 DEF Engine
    <2>2. Arrived("campaign", 1) \in Engine
      BY <1>2 DEF Engine, Kinds, Arrived
    <2> QED  BY <2>1, <2>2 DEF Init
  <1>9. srv \in Server /\ srv.attempt = 1 /\ srv.here = c.admitted /\ Unproven(srv) /\ srv.hello = "none"
    <2>1. c.admitted \in BOOLEAN
      BY <1>6 DEF Client
    <2> QED  BY <1>2, <2>1 DEF Init, Server, Unproven
  <1>10. Honest(c, srv, eng, eng.reset)
    BY <1>5, <1>6, <1>9 DEF Honest, Past
  <1>11. inbox = <<>> /\ upsets = 0
    BY DEF Init
  <1>12. inbox \in Seq(Messages) /\ \A j \in 1..Len(inbox) : FALSE
    BY <1>11
  <1>13. Burst(inbox, srv) /\ Linked(c, srv, inbox) /\ Counted(c, srv)
    BY <1>5, <1>6, <1>9, <1>11, <1>12, CountedNone DEF Burst, Linked
  <1>14. upsets \in 0..MaxUpsets
    BY <1>11, ClientAssumption
  <1> QED  BY <1>7, <1>8, <1>9, <1>10, <1>12, <1>13, <1>14 DEF ClientInv

\* What a step does to the invariant and to a fence.
Fences == Holds(c, c') \/ eng'.world = "menu"

LEMMA ClientNext ==
  ASSUME ClientInv, [Next]_vars
  PROVE  ClientInv' /\ Fences
  <1>1. CASE AnyFrame
    BY <1>1, FrameInv DEF Fences
  <1>2. CASE WorldArrives
    BY <1>2, WorldArrivesInv DEF Fences
  <1>3. CASE MainMenuCloses
    BY <1>3, MainMenuClosesInv DEF Fences
  <1>4. CASE MainMenuOpens
    BY <1>4, MainMenuOpensInv DEF Fences
  <1>5. CASE \E kind \in Kinds, result \in {"refused", "accepted"} : PlayerLoad(kind, result)
    BY <1>5, PlayerLoadInv DEF Fences
  <1>6. CASE \E accepted \in BOOLEAN : ContinueLoad(accepted)
    BY <1>6, ContinueLoadInv DEF Fences
  <1>7. CASE Connect \/ Select
    BY <1>7, HelloInv DEF Fences
  <1>8. CASE ReturnToMainMenu \/ StayAndRecover
    BY <1>8, ButtonsInv DEF Fences
  <1>9. CASE SrvResume
    BY <1>9, ResumeInv DEF Fences
  <1>10. CASE SrvReject
    BY <1>10, RejectInv DEF Fences
  <1>11. CASE SrvOthersLeave
    BY <1>11, OthersLeaveInv DEF Fences
  <1>12. CASE SrvOthersReturn
    BY <1>12, OthersReturnInv DEF Fences
  <1>13. CASE SrvRestore
    BY <1>13, RestoreInv DEF Fences
  <1>14. CASE SrvComplete
    BY <1>14, CompleteInv DEF Fences
  <1>15. CASE LinkLost \/ ServerCrash
    BY <1>15, DisconnectionInv DEF Fences
  <1>16. CASE UNCHANGED vars
    <2>1. c' = c /\ eng' = eng /\ srv' = srv /\ inbox' = inbox /\ upsets' = upsets
      BY <1>16 DEF vars
    <2> QED  BY <2>1 DEF ClientInv, Fences, Holds
  <1> QED
    BY <1>1, <1>2, <1>3, <1>4, <1>5, <1>6, <1>7, <1>8, <1>9, <1>10, <1>11, <1>12, <1>13, <1>14,
       <1>15, <1>16 DEF Next

\* Whatever the player, the engine, the link and the server do, the services of
\* the client, the engine and the attempt of the server agree as ClientInv says.
THEOREM ClientInvariance == Spec => []ClientInv
  <1>1. Init => ClientInv
    BY ClientInit
  <1>2. ClientInv /\ [Next]_vars => ClientInv'
    BY ClientNext
  <1> QED  BY <1>1, <1>2, PTL DEF Spec

\* Every service, engine and server state has the shape its class declares, and
\* proofs belong to an open load request.
THEOREM ClientTypes == Spec => []TypeOK
  <1>1. ClientInv => TypeOK
    BY DEF ClientInv, TypeOK, Sound, Fenced
  <1> QED  BY <1>1, ClientInvariance, PTL

\* A member that was told of a recovery (OnCampaignSnapshot) stays behind the
\* gate until OnRecoveryComplete of that recovery.
THEOREM Fence == Spec => []RecoveringIsFenced
  <1>1. ClientInv => RecoveringIsFenced
    BY DEF ClientInv, Fenced, Owned, RecoveringIsFenced
  <1> QED  BY <1>1, ClientInvariance, PTL

\* A native load proof the server counted (RecoveryUpdate and OnLoadRequest send
\* it) is true while it counts: the member stands in the world of the attempt.
THEOREM LoadedProof == Spec => []LoadedProofIsReal
  <1>1. ASSUME ClientInv, srv.loaded
        PROVE  eng.world = "campaign" /\ eng.of = srv.attempt
    <2>1. srv.dur # "Active" /\ c.attempt = srv.attempt /\ c.stage \in LoadedStages
      BY <1>1 DEF ClientInv, Counted
    <2>2. srv.attempt \in Nat
      BY <1>1, OpenWire
    <2>3. ~Past(srv, c.attempt)
      BY <2>1, <2>2 DEF Past
    <2>4. Standing(c, eng)
      BY <1>1, <2>1, <2>3 DEF ClientInv, Honest, Real
    <2> QED  BY <2>1, <2>4 DEF Standing
  <1>2. ClientInv => LoadedProofIsReal
    BY <1>1 DEF LoadedProofIsReal
  <1> QED  BY <1>2, ClientInvariance, PTL

\* No packet, frame, load result or lost link opens the fence around a save the
\* player loaded: it goes away in the main menu or through what the recovery
\* service remembers.
THEOREM FenceEnds == Spec => FenceEndsInRecovery
  <1>1. ClientInv /\ [Next]_vars =>
          [eng.world = "campaign" /\ eng.of = 0 /\ IsLocked(c.gate) /\ ~IsLocked(c'.gate)
             => eng'.world = "menu" \/ Remembered(c)]_vars
    BY ClientNext DEF Fences, Holds
  <1> QED  BY <1>1, ClientInvariance, PTL DEF Spec, FenceEndsInRecovery
=============================================================================
