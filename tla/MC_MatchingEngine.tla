------------------------- MODULE MC_MatchingEngine --------------------------
(* Model-checking instance of MatchingEngine: one client thread (the      *)
(* request queue is single-producer), one symbol that the control thread  *)
(* registers and unregisters, two interchangeable order ids.               *)
EXTENDS MatchingEngine, TLC

CONSTANTS c1, s1, o1, o2

MC_Clients == {c1}
MC_Symbols == {s1}
MC_OrderIds == {o1, o2}
MC_Symmetry == Permutations(MC_OrderIds)

\* For the runs that ask only whether requests get processed: every branch
\* of process_order_request terminates and returns, so its effect on the
\* books is left out there (the safety runs check it).  TLC does not cache
\* values while it evaluates ENABLED, which makes the recursive book
\* computation costly inside the worker's fairness condition.  Both entry
\* points to the books are replaced: the whole request and the step after
\* the book was found.
MC_ProcessOrderRequest(req, bks, st) == [books |-> bks, stats |-> st, cbs |-> << >>]
MC_AddToBook(o, bks, st) == [books |-> bks, stats |-> st, cbs |-> << >>]
=============================================================================
