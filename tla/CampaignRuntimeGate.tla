------------------------- MODULE CampaignRuntimeGate -------------------------
(***************************************************************************)
(* The client's gameplay fence.  A gate is a value: its state, whether the  *)
(* next native load belongs to it (m_nextLoadManaged) and who owns it, a    *)
(* collective recovery or a campaign save the player loaded (a load that    *)
(* requires a resume).  Each operator is one call of CampaignRuntimeGate    *)
(* with the input lock its service applies or takes back: held says that    *)
(* the menu toggles are saved and the guard menu has been asked for.        *)
(***************************************************************************)
EXTENDS Naturals

GateStates ==
  {"Open", "RecoveryLocked", "ArmedDuringLoad", "LockedAfterLoad", "Released"}
Gate == [state: GateStates, armed: BOOLEAN, recovery: BOOLEAN,
         resume: BOOLEAN, held: BOOLEAN]
OpenGate == [state |-> "Open", armed |-> FALSE, recovery |-> FALSE,
             resume |-> FALSE, held |-> FALSE]

IsLocked(g) ==
  \/ g.state \in {"RecoveryLocked", "LockedAfterLoad"}
  \/ g.state = "ArmedDuringLoad" /\ (g.recovery \/ g.resume)

\* ApplyInputLock and RequestGuardMenu; RestoreInputState and Hide.
Hold(g) == [g EXCEPT !.held = TRUE]
LetGo(g) == [g EXCEPT !.held = FALSE]

\* Mutant: a recovery that begins during a load forgets to own the gate.
LockForRecoveryFromRest(g) ==
  IF g.state \in {"Open", "Released"}
  THEN [g EXCEPT !.recovery = TRUE, !.state = "RecoveryLocked", !.held = TRUE]
  ELSE Hold(g)

LockForRecovery(g) ==
  Hold([g EXCEPT !.recovery = TRUE,
          !.state = IF @ \in {"Open", "Released"} THEN "RecoveryLocked" ELSE @])

CanArm(g) ==
  /\ ~g.armed
  /\ g.state # "ArmedDuringLoad"
  /\ g.state = "LockedAfterLoad" => g.recovery
ArmNextLoad(g) == [g EXCEPT !.armed = TRUE]
ArmResumeRequiredLoad(g) == [g EXCEPT !.armed = TRUE, !.resume = TRUE]

\* Mutant: a load that does not happen opens the gate of a recovery.
DisarmedOpens(g) == IF g.state # "ArmedDuringLoad" THEN g.state ELSE "Open"

\* What is left of a load that does not happen.
Disarmed(g) ==
  IF g.state # "ArmedDuringLoad" THEN g.state
  ELSE IF g.recovery THEN "RecoveryLocked" ELSE "Open"

CancelArmedLoad(g) ==
  [g EXCEPT !.armed = FALSE, !.state = Disarmed(g),
            !.resume = @ /\ (g.recovery \/ Disarmed(g) # "Open")]

\* CommitResumeRequiredTransition of a gate that was just armed.
CanCommit(g) == g.resume /\ g.armed /\ g.state \in {"Open", "Released"}
CommitResumeRequiredTransition(g) ==
  Hold([g EXCEPT !.armed = FALSE, !.state = "LockedAfterLoad"])

\* OnNativeLoadEnter of an armed gate.
LoadEntered(g) == [g EXCEPT !.armed = FALSE, !.state = "ArmedDuringLoad"]

\* OnNativeLoadReturn(false): the engine refused the load.
LoadRefused(g) ==
  [g EXCEPT !.state = Disarmed(g), !.resume = @ /\ g.recovery]

\* OnPostLoad of an armed gate, on TESLoadGameEvent.
PostLoaded(g) == Hold([g EXCEPT !.state = "LockedAfterLoad"])

\* ReleaseManagedLoad and ReleaseForMainMenuRuntimeDeparture.
Release(g) ==
  IF g.state \in {"RecoveryLocked", "LockedAfterLoad"}
  THEN LetGo([g EXCEPT !.state = "Released", !.armed = FALSE,
                       !.recovery = FALSE, !.resume = FALSE])
  ELSE g
=============================================================================
