-------------------------------- MODULE Fifo --------------------------------
(***************************************************************************)
(* What a FIFO queue promises its users (spec.md 4.1, 8 "Queue laws"):     *)
(* enqueue appends a value, dequeue returns the oldest pending value or     *)
(* nothing when none is pending.  Each operation takes effect atomically.   *)
(* SPSCQueue refines this specification.                                    *)
(***************************************************************************)
EXTENDS Sequences

CONSTANTS Values,   \* the values a producer may enqueue
          None      \* the result of a dequeue that found nothing

VARIABLES items,    \* the pending values, oldest first
          got       \* the result of the latest dequeue

vars == <<items, got>>

Init == items = << >> /\ got = None

Enqueue(v) == items' = Append(items, v) /\ UNCHANGED got

Dequeue == items # << >> /\ items' = Tail(items) /\ got' = Head(items)

DequeueEmpty == items = << >> /\ got' = None /\ UNCHANGED items

Next == (\E v \in Values : Enqueue(v)) \/ Dequeue \/ DequeueEmpty

Spec == Init /\ [][Next]_vars
=============================================================================
