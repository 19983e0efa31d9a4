---------------------------- MODULE MC_SPSCQueue ----------------------------
EXTENDS SPSCQueue

CONSTANTS p1, p2, d, n1, n2, n3, n4

MC_Nodes == {d, n1, n2, n3, n4}
=============================================================================
