------------------------------ MODULE MPMCQueue ------------------------------
(***************************************************************************)
(* utils::MPMCQueue<T, Size> (src/include/utils/mpmc_queue.hpp, lines      *)
(* 22-224): Vyukov's bounded ring.  Every cell carries a sequence number;  *)
(* a producer may write the cell of position pos when its sequence is pos, *)
(* a consumer may read it when its sequence is pos + 1.  Both positions    *)
(* advance by compare-exchange.                                            *)
(*                                                                         *)
(* Each thread calls the blocking enqueue(value, max_retries) or           *)
(* dequeue(max_retries), which call try_enqueue / try_dequeue up to        *)
(* MaxRetries times.  A thread's steps are its accesses to shared memory:  *)
(* the load of a position, the acquire load of a cell's sequence, the      *)
(* compare-exchange, and the data access with the release store of the    *)
(* sequence that follows it.  The value a producer enqueues is abstracted  *)
(* to the producer's name.  Positions are size_t and never wrap in a run   *)
(* of the program; producers stop calling enqueue once enqueue_pos_ has    *)
(* reached MaxPos, which bounds the model.                                 *)
(***************************************************************************)
EXTENDS Naturals, FiniteSets, Bags

CONSTANTS Producers,   \* threads calling enqueue
          Consumers,   \* threads calling dequeue
          Size,        \* the template parameter Size, a power of 2
          MaxRetries,  \* the max_retries argument of enqueue and dequeue
          MaxPos,      \* the number of enqueue calls the producers start
          None         \* an empty std::optional, a moved-from T

ASSUME Producers \cap Consumers = {} /\ Size \in {2, 4} /\ MaxRetries >= 1

Threads == Producers \cup Consumers
Cells == 0 .. Size - 1

(* buffer_[pos & MASK]                                                     *)
CellOf(p) == p % Size

VARIABLES sequence,      \* Cell::sequence of every cell
          data,          \* Cell::data of every cell
          enqueue_pos_,
          dequeue_pos_,
          pc,            \* where each thread is in its call
          pos,           \* each thread's local pos
          tries,         \* each thread's loop index i in enqueue / dequeue
          got            \* the value each consumer's latest dequeue returned

vars == <<sequence, data, enqueue_pos_, dequeue_pos_, pc, pos, tries, got>>

(* MPMCQueue(): sequence[i] = i (lines 45-51), both positions 0.           *)
Init == /\ sequence = [i \in Cells |-> i]
        /\ data = [i \in Cells |-> None]
        /\ enqueue_pos_ = 0
        /\ dequeue_pos_ = 0
        /\ pc = [t \in Threads |-> "idle"]
        /\ pos = [t \in Threads |-> 0]
        /\ tries = [t \in Threads |-> 0]
        /\ got = [c \in Consumers |-> None]

-----------------------------------------------------------------------------
(* enqueue / dequeue, lines 148 and 174: the loop starts at i = 0.         *)
Call(t) == /\ pc[t] = "idle"
           /\ t \in Producers => enqueue_pos_ < MaxPos
           /\ pc' = [pc EXCEPT ![t] = "load"]
           /\ tries' = [tries EXCEPT ![t] = 0]
           /\ UNCHANGED <<sequence, data, enqueue_pos_, dequeue_pos_, pos, got>>

(* lines 67, 95 and 106, 134: pos = enqueue_pos_ / dequeue_pos_.load().    *)
LoadPos(t) ==
    /\ pc[t] = "load"
    /\ pos' = [pos EXCEPT ![t] = IF t \in Producers THEN enqueue_pos_ ELSE dequeue_pos_]
    /\ pc' = [pc EXCEPT ![t] = "check"]
    /\ UNCHANGED <<sequence, data, enqueue_pos_, dequeue_pos_, tries, got>>

(* The sequence a cell has when position pos may be taken: pos for a       *)
(* producer (line 73), pos + 1 for a consumer (line 112).                  *)
Expected(t) == IF t \in Producers THEN pos[t] ELSE pos[t] + 1

(* try_enqueue / try_dequeue failed (full / empty): the blocking call      *)
(* retries while i < max_retries and otherwise returns false / nullopt     *)
(* (lines 148-164, 174-191).                                               *)
GiveUpOrRetryOffByOne(t) ==
    IF tries[t] + 1 <= MaxRetries
    THEN pc' = [pc EXCEPT ![t] = "load"] /\ tries' = [tries EXCEPT ![t] = @ + 1]
    ELSE pc' = [pc EXCEPT ![t] = "idle"] /\ UNCHANGED tries

GiveUpOrRetry(t) ==
    IF tries[t] + 1 < MaxRetries
    THEN pc' = [pc EXCEPT ![t] = "load"] /\ tries' = [tries EXCEPT ![t] = @ + 1]
    ELSE pc' = [pc EXCEPT ![t] = "idle"] /\ UNCHANGED tries

(* Mutant: a cell whose sequence is behind pos is taken as ready.         *)
CheckCellNoFullTest(t) ==
    /\ pc[t] = "check"
    /\ LET diff == sequence[CellOf(pos[t])] - Expected(t)
       IN  CASE diff = 0 \/ (diff < 0 /\ t \in Producers) -> pc' = [pc EXCEPT ![t] = "cas"] /\ UNCHANGED tries
             [] diff < 0 -> GiveUpOrRetry(t)
             [] diff > 0 -> pc' = [pc EXCEPT ![t] = "load"] /\ UNCHANGED tries
    /\ UNCHANGED <<sequence, data, enqueue_pos_, dequeue_pos_, pos, got>>

(* lines 71-75, 87-96 and 110-114, 126-135: load the cell's sequence and   *)
(* compare it with the position.                                           *)
CheckCell(t) ==
    /\ pc[t] = "check"
    /\ LET diff == sequence[CellOf(pos[t])] - Expected(t)
       IN  CASE diff = 0 -> pc' = [pc EXCEPT ![t] = "cas"] /\ UNCHANGED tries
             [] diff < 0 -> GiveUpOrRetry(t)
             [] diff > 0 -> pc' = [pc EXCEPT ![t] = "load"] /\ UNCHANGED tries
    /\ UNCHANGED <<sequence, data, enqueue_pos_, dequeue_pos_, pos, got>>

(* lines 78-79 and 117-118: compare_exchange_weak(pos, pos + 1).  On       *)
(* failure, real or spurious, pos receives the current position and the   *)
(* loop checks the cell again.                                             *)
CasPos(t) ==
    /\ pc[t] = "cas"
    /\ LET cur == IF t \in Producers THEN enqueue_pos_ ELSE dequeue_pos_
       IN  \/ /\ cur = pos[t]
              /\ IF t \in Producers THEN enqueue_pos_' = cur + 1 /\ UNCHANGED dequeue_pos_
                                    ELSE dequeue_pos_' = cur + 1 /\ UNCHANGED enqueue_pos_
              /\ pc' = [pc EXCEPT ![t] = "owned"]
              /\ UNCHANGED pos
           \/ /\ pos' = [pos EXCEPT ![t] = cur]
              /\ pc' = [pc EXCEPT ![t] = "check"]
              /\ UNCHANGED <<enqueue_pos_, dequeue_pos_>>
    /\ UNCHANGED <<sequence, data, tries, got>>

(* lines 82-84: cell.data = value; cell.sequence.store(pos + 1); return    *)
(* true, which ends enqueue (line 152).                                    *)
Publish(p) ==
    /\ pc[p] = "owned" /\ p \in Producers
    /\ data' = [data EXCEPT ![CellOf(pos[p])] = p]
    /\ sequence' = [sequence EXCEPT ![CellOf(pos[p])] = pos[p] + 1]
    /\ pc' = [pc EXCEPT ![p] = "idle"]
    /\ UNCHANGED <<enqueue_pos_, dequeue_pos_, pos, tries, got>>

(* Mutant: the consumer releases the cell with pos + 1, as a producer      *)
(* would, instead of pos + Size.                                           *)
ReleaseSameRound(c) ==
    /\ pc[c] = "owned" /\ c \in Consumers
    /\ got' = [got EXCEPT ![c] = data[CellOf(pos[c])]]
    /\ data' = [data EXCEPT ![CellOf(pos[c])] = None]
    /\ sequence' = [sequence EXCEPT ![CellOf(pos[c])] = pos[c] + 1]
    /\ pc' = [pc EXCEPT ![c] = "idle"]
    /\ UNCHANGED <<enqueue_pos_, dequeue_pos_, pos, tries>>

(* lines 121-123: T data = std::move(cell.data);                           *)
(* cell.sequence.store(pos + Size); return data, which ends dequeue        *)
(* (line 179).                                                             *)
Release(c) ==
    /\ pc[c] = "owned" /\ c \in Consumers
    /\ got' = [got EXCEPT ![c] = data[CellOf(pos[c])]]
    /\ data' = [data EXCEPT ![CellOf(pos[c])] = None]
    /\ sequence' = [sequence EXCEPT ![CellOf(pos[c])] = pos[c] + Size]
    /\ pc' = [pc EXCEPT ![c] = "idle"]
    /\ UNCHANGED <<enqueue_pos_, dequeue_pos_, pos, tries>>

(* empty() and size_approx(), lines 198-214: both positions loaded, and    *)
(* (enq - deq) & MASK; MASK = Size - 1 makes & MASK the remainder mod Size. *)
empty == enqueue_pos_ = dequeue_pos_
size_approx == (enqueue_pos_ - dequeue_pos_) % Size

Next == \E t \in Threads :
          Call(t) \/ LoadPos(t) \/ CheckCell(t) \/ CasPos(t) \/ Publish(t) \/ Release(t)

Spec == Init /\ [][Next]_vars

-----------------------------------------------------------------------------
TypeOK == /\ sequence \in [Cells -> 0 .. MaxPos + Size * 2]
          /\ data \in [Cells -> Producers \cup {None}]
          /\ {enqueue_pos_, dequeue_pos_} \subseteq 0 .. MaxPos + Cardinality(Producers)
          /\ pc \in [Threads -> {"idle", "load", "check", "cas", "owned"}]
          /\ pos \in [Threads -> Nat]
          /\ tries \in [Threads -> 0 .. MaxRetries - 1]
          /\ got \in [Consumers -> Producers \cup {None}]

(* A cell holds a published value: its sequence is pos + 1 for the         *)
(* position pos of this round.                                             *)
Full(i) == sequence[i] % Size = (i + 1) % Size

FullCells == {i \in Cells : Full(i)}

PendingBag == [v \in {data[i] : i \in FullCells} |->
                 Cardinality({i \in FullCells : data[i] = v})]

P == INSTANCE Pool WITH Values <- Producers, Capacity <- Size, pending <- PendingBag

(* Queue law (spec.md 8): the values dequeued are values enqueued, none    *)
(* lost and none handed out twice, and at most Size are pending.           *)
PoolRefinement == P!Spec

(* Two threads never own the same cell between winning the                 *)
(* compare-exchange and the release store of its sequence: the data        *)
(* accesses of lines 82 and 121 are never concurrent.                      *)
CellOwnersExclusive ==
    \A t, u \in Threads :
        /\ t # u /\ pc[t] = "owned" /\ pc[u] = "owned"
        => CellOf(pos[t]) # CellOf(pos[u])

(* Quiescent: no thread is inside a call, so every reserved cell has been  *)
(* published or released.                                                  *)
Quiescent == \A t \in Threads : pc[t] = "idle"

(* size_approx() (line 213), asked while no call is in progress, returns   *)
(* the number of values in the queue, and empty() says whether there are   *)
(* none.                                                                   *)
SizeApproxExact == Quiescent => /\ size_approx = BagCardinality(PendingBag)
                                /\ empty = (BagCardinality(PendingBag) = 0)
=============================================================================
