-------------------------------- MODULE Pool --------------------------------
(***************************************************************************)
(* What MPMCQueue promises (spec.md 4.2 and 8 "Queue laws"): a successful  *)
(* enqueue adds its value to at most Capacity pending values, and a        *)
(* successful dequeue hands one pending value to one consumer; nothing is  *)
(* lost and nothing is handed out twice.  The ring does not promise which  *)
(* pending value a dequeue returns, nor that a failing call saw a full or  *)
(* empty queue, so failing calls are not steps of this specification.      *)
(***************************************************************************)
EXTENDS Naturals, Bags, BagsExt

CONSTANTS Values, Consumers, Capacity, None

VARIABLES pending,   \* the bag of values enqueued and not yet dequeued
          got        \* got[c]: the value consumer c dequeued last

vars == <<pending, got>>

Init == pending = EmptyBag /\ got = [c \in Consumers |-> None]

Enqueue(v) == /\ BagCardinality(pending) < Capacity
              /\ pending' = BagAdd(pending, v)
              /\ UNCHANGED got

Dequeue(c, v) == /\ BagIn(v, pending)
                 /\ pending' = BagRemove(pending, v)
                 /\ got' = [got EXCEPT ![c] = v]

Next == \/ \E v \in Values : Enqueue(v)
        \/ \E c \in Consumers, v \in Values : Dequeue(c, v)

Spec == Init /\ [][Next]_vars
=============================================================================
