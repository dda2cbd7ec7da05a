----------------------------- MODULE MCPageCache -----------------------------
EXTENDS PageCache, TLC

PageSymmetry  == Permutations(Pages)
ValueSymmetry == Permutations(Values)
Symmetry      == PageSymmetry \union ValueSymmetry
==============================================================================
