-------------------------- MODULE MCCampaignServer --------------------------
EXTENDS CampaignServer, TLC
Symmetry == Permutations(Slots) \cup Permutations(CheckpointIds) \cup Permutations(Artifacts)
=============================================================================
