--------------------------- MODULE MCCampaignLobby ---------------------------
(***************************************************************************)
(* TLC instances of CampaignLobby.  Players, campaigns and mutation         *)
(* identifiers are only compared, so their permutations are symmetries.     *)
(***************************************************************************)
EXTENDS CampaignLobby, TLC

Symmetry == Permutations(Players) \cup Permutations(Campaigns)
            \cup Permutations(Mutations)
===============================================================================
