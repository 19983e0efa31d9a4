---------------------------- MODULE MC_MPMCQueue ----------------------------
EXTENDS MPMCQueue

CONSTANTS p1, p2, c1, c2

MC_Symmetry == Permutations({p1, p2}) \cup Permutations({c1, c2})
=============================================================================
