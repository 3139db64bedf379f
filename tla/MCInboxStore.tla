---------------------------- MODULE MCInboxStore ----------------------------
EXTENDS InboxRefinement, TLC

UnitSizes == [S \in SUBSET Messages |-> Cardinality(S)]
MessageSymmetry == Permutations(Messages)
=============================================================================
