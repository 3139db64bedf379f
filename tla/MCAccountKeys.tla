---------------------------- MODULE MCAccountKeys ----------------------------
EXTENDS AccountRefinement, TLC

RequestSymmetry == Permutations(Requests)
=============================================================================
