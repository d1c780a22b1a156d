--------------------------- MODULE CampaignRollback ---------------------------
(***************************************************************************)
(* What the campaign promises its players, whatever is lost, repeated or    *)
(* restarted underneath: there is one shared world and one save of it.      *)
(* The world moves only while the whole roster plays; a loss freezes it;    *)
(* play resumes from exactly the saved world and from nothing else.         *)
(***************************************************************************)
CONSTANTS Worlds,  \* the shared states a campaign can be in
          Unsaved  \* there is no save yet

VARIABLES live,   \* the shared world
          saved,  \* the world that was saved last, or Unsaved
          phase   \* "Playing", "Locked" or "RolledBack"
vars == <<live, saved, phase>>

Init ==
  /\ live \in Worlds
  /\ saved = Unsaved
  /\ phase = "Playing"

\* Ordinary play changes the shared world.
Play ==
  /\ phase = "Playing"
  /\ live' \in Worlds
  /\ UNCHANGED <<saved, phase>>

\* A coordinated save captures the world as it is at that moment.
Save ==
  /\ phase = "Playing"
  /\ saved' = live
  /\ UNCHANGED <<live, phase>>

\* A loss, or a request to load, stops play.
Lock ==
  /\ phase = "Playing"
  /\ phase' = "Locked"
  /\ UNCHANGED <<live, saved>>

\* The whole roster has its native save back: the world returns to the save.
RollBack ==
  /\ phase = "Locked"
  /\ saved # Unsaved
  /\ live' = saved
  /\ phase' = "RolledBack"
  /\ UNCHANGED saved

\* The whole roster has applied the restored world.
Release ==
  /\ phase = "RolledBack"
  /\ phase' = "Playing"
  /\ UNCHANGED <<live, saved>>

Next == Play \/ Save \/ Lock \/ RollBack \/ Release

Spec == Init /\ [][Next]_vars
=============================================================================
