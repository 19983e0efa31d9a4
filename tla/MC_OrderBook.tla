---------------------------- MODULE MC_OrderBook ----------------------------
(* Model-checking instance of OrderBook: three order ids (interchangeable, *)
(* so a symmetry set), two valid prices and the invalid price 0, and the  *)
(* quantities 0 (rejected), 1 and 2 (so one order can partially fill      *)
(* another).                                                               *)
EXTENDS OrderBook, TLC

CONSTANTS o1, o2, o3

MC_OrderIds == {o1, o2, o3}
MC_Symmetry == Permutations(MC_OrderIds)
=============================================================================
