--------------------------- MODULE MCLoosePointers ---------------------------
EXTENDS LoosePointers, TLC

Symmetry == Permutations(Pages)
==============================================================================
