------------------------------ MODULE SPSCQueue ------------------------------
(***************************************************************************)
(* utils::SPSCQueue (src/include/utils/mpmc_queue.hpp, the second header,  *)
(* lines 247-392): an unbounded linked list with a dummy head node.  The   *)
(* producer links a fresh node after cached_tail_ and then advances         *)
(* cached_tail_; the consumer takes the node after its cached_head_,       *)
(* advances head_ and deletes the old head.                                *)
(*                                                                         *)
(* The payload of a node is abstracted to the node itself: every enqueue   *)
(* allocates a fresh node, so the node identifies the value it carries.    *)
(* Nodes are never reused (a deleted node stays in freed), so a write to a *)
(* deleted node is visible to the properties.  Producers is a set of       *)
(* threads calling enqueue; the class is meant for one.  tail_ is written  *)
(* by enqueue (line 323) but read by neither enqueue nor dequeue, so it is *)
(* not a variable of the model.                                            *)
(***************************************************************************)
EXTENDS Sequences, FiniteSets

CONSTANTS Producers,   \* threads calling enqueue
          Nodes,       \* heap cells available to new Node(...)
          Dummy,       \* the node allocated by the constructor
          Null         \* nullptr

ASSUME Dummy \in Nodes /\ Null \notin Nodes

VARIABLES next,          \* Node::next of every node
          allocated,     \* nodes handed out by new
          freed,         \* nodes deleted by the consumer
          head_,         \* SPSCQueue::head_
          cached_head_,  \* the consumer's cached head
          cached_tail_,  \* the producer's cached tail (a plain member)
          pc,            \* where each producer is inside enqueue
          newNode,       \* each producer's new_node local
          got            \* result of the consumer's latest dequeue

vars == <<next, allocated, freed, head_, cached_head_, cached_tail_,
          pc, newNode, got>>

(* SPSCQueue(): one dummy node is both head and tail (lines 268-275).      *)
Init == /\ next = [n \in Nodes |-> Null]
        /\ allocated = {Dummy}
        /\ freed = {}
        /\ head_ = Dummy
        /\ cached_head_ = Dummy
        /\ cached_tail_ = Dummy
        /\ pc = [p \in Producers |-> "idle"]
        /\ newNode = [p \in Producers |-> Null]
        /\ got = Null

-----------------------------------------------------------------------------
(* enqueue, line 316: Node *new_node = new Node(value).                    *)
EnqueueAlloc(p) ==
    /\ pc[p] = "idle"
    /\ \E n \in Nodes \ allocated :
          /\ allocated' = allocated \cup {n}
          /\ newNode' = [newNode EXCEPT ![p] = n]
    /\ pc' = [pc EXCEPT ![p] = "link"]
    /\ UNCHANGED <<next, freed, head_, cached_head_, cached_tail_, got>>

(* line 319: cached_tail_->next.store(new_node).  The load of the plain    *)
(* cached_tail_ and the release store form one step.                       *)
EnqueueLink(p) ==
    /\ pc[p] = "link"
    /\ next' = [next EXCEPT ![cached_tail_] = newNode[p]]
    /\ pc' = [pc EXCEPT ![p] = "advance"]
    /\ UNCHANGED <<allocated, freed, head_, cached_head_, cached_tail_,
                   newNode, got>>

(* lines 320-325: cached_tail_ = new_node; tail_.store(new_node); return   *)
(* true.                                                                   *)
EnqueueFinish(p) ==
    /\ pc[p] = "advance"
    /\ cached_tail_' = newNode[p]
    /\ pc' = [pc EXCEPT ![p] = "idle"]
    /\ newNode' = [newNode EXCEPT ![p] = Null]
    /\ UNCHANGED <<next, allocated, freed, head_, cached_head_, got>>

-----------------------------------------------------------------------------
(* dequeue, lines 334-346: the node whose successor the consumer takes.    *)
(* When cached_head_ has no successor the code re-reads head_ and, if it   *)
(* differs, continues from there.                                          *)
Observed == IF next[cached_head_] # Null THEN cached_head_ ELSE head_

(* Mutant: dequeue consults head_ before next and returns std::nullopt    *)
(* whenever head_ equals its cache, which is always.                       *)
DequeueTakeHeadFirst ==
    IF head_ = cached_head_
    THEN got' = Null /\ UNCHANGED <<next, allocated, freed, head_, cached_head_,
                                     cached_tail_, pc, newNode>>
    ELSE /\ next[Observed] # Null
         /\ head_' = next[Observed]
         /\ cached_head_' = next[Observed]
         /\ freed' = freed \cup {Observed}
         /\ got' = next[Observed]
         /\ UNCHANGED <<next, allocated, cached_tail_, pc, newNode>>

(* Mutant: delete next instead of delete head (line 361).                  *)
DequeueTakeDeleteNext ==
    /\ next[Observed] # Null
    /\ head_' = next[Observed]
    /\ cached_head_' = next[Observed]
    /\ freed' = freed \cup {next[Observed]}
    /\ got' = next[Observed]
    /\ UNCHANGED <<next, allocated, cached_tail_, pc, newNode>>

(* Mutant: the null check of line 347 dropped.                             *)
DequeueTakeUnchecked ==
    /\ head_' = next[Observed]
    /\ cached_head_' = next[Observed]
    /\ freed' = freed \cup {Observed}
    /\ got' = next[Observed]
    /\ UNCHANGED <<next, allocated, cached_tail_, pc, newNode>>

(* Mutant: the data is moved out of the old head instead of next.         *)
DequeueTakeOldHead ==
    /\ next[Observed] # Null
    /\ head_' = next[Observed]
    /\ cached_head_' = next[Observed]
    /\ freed' = freed \cup {Observed}
    /\ got' = Observed
    /\ UNCHANGED <<next, allocated, cached_tail_, pc, newNode>>

(* lines 353-363: move the data out of next, head_.store(next),            *)
(* cached_head_ = next, delete the old head, return the data.              *)
DequeueTake ==
    /\ next[Observed] # Null
    /\ head_' = next[Observed]
    /\ cached_head_' = next[Observed]
    /\ freed' = freed \cup {Observed}
    /\ got' = next[Observed]
    /\ UNCHANGED <<next, allocated, cached_tail_, pc, newNode>>

(* lines 337-350: no successor after cached_head_ or after head_: return   *)
(* std::nullopt, having moved cached_head_ to head_ (line 345).            *)
DequeueEmpty ==
    /\ next[Observed] = Null
    /\ cached_head_' = Observed
    /\ got' = Null
    /\ UNCHANGED <<next, allocated, freed, head_, cached_tail_, pc, newNode>>

Next == \/ \E p \in Producers :
              EnqueueAlloc(p) \/ EnqueueLink(p) \/ EnqueueFinish(p)
        \/ DequeueTake
        \/ DequeueEmpty

(* The consumer is a worker loop that calls dequeue again and again.       *)
Spec == Init /\ [][Next]_vars /\ WF_vars(DequeueTake \/ DequeueEmpty)

-----------------------------------------------------------------------------
TypeOK == /\ next \in [Nodes -> Nodes \cup {Null}]
          /\ allocated \subseteq Nodes /\ freed \subseteq allocated
          /\ {head_, cached_head_, cached_tail_} \subseteq Nodes
          /\ pc \in [Producers -> {"idle", "link", "advance"}]
          /\ newNode \in [Producers -> Nodes \cup {Null}]
          /\ got \in Nodes \cup {Null}

(* The values pending in the queue: the nodes reachable from head_.        *)
RECURSIVE ChainFrom(_)
ChainFrom(n) == IF next[n] = Null THEN << >> ELSE <<next[n]>> \o ChainFrom(next[n])

Q == INSTANCE Fifo WITH Values <- Nodes, None <- Null, items <- ChainFrom(head_)

(* Queue law (spec.md 8): every enqueue appends its value at the end of    *)
(* the pending values when it links its node, and every dequeue returns    *)
(* the oldest pending value or nothing when none is pending.  A node       *)
(* linked over another one, or a node returned twice, breaks it.           *)
FifoRefinement == Q!Spec

(* Nodes are deleted only by the consumer (line 361): no producer is about *)
(* to link after a deleted node, and the consumer never reads one.         *)
NoUseAfterFree == /\ \A p \in Producers : pc[p] = "link" => cached_tail_ \notin freed
                  /\ cached_head_ \notin freed

(* A node whose enqueue has returned and that the consumer has not yet     *)
(* taken (it becomes head_ when taken).                                    *)
Pending(n) == /\ n \in allocated \ ({Dummy, head_} \cup freed)
              /\ \A p \in Producers : newNode[p] # n

(* An item whose enqueue has returned is eventually dequeued by the        *)
(* consumer loop.                                                          *)
EnqueuedIsDequeued == \A n \in Nodes : Pending(n) ~> got = n
=============================================================================
