-------------------------- MODULE MCWorldOwnership --------------------------
EXTENDS WorldOwnership, TLC
Symmetry == Permutations(Players)
=============================================================================
