---------------------------- MODULE FeedSimulator ----------------------------
(***************************************************************************)
(* network::FeedSimulator (src/include/network/feed_simulator.hpp, lines   *)
(* 31-213), one simulator per feed.  A publisher thread stamps each update *)
(* with sequence_number_ and enqueues it on pending_updates_; the worker   *)
(* thread started by start() dequeues, sleeps for the injected latency,    *)
(* drops the update or records FeedStats and invokes the callback; stop()  *)
(* clears running_ and joins the worker.                                   *)
(*                                                                         *)
(* An update is abstracted to its sequence number.  pending_updates_ is an *)
(* SPSCQueue with one producer (the publisher) and one consumer (the       *)
(* worker), which the run spsc_single_producer shows to behave as the      *)
(* atomic FIFO used here.  The latency sleep and the random drop decision  *)
(* become a nondeterministic choice; latencies and the jitter statistics   *)
(* that need 100 messages are not modelled.  delivered is the history of   *)
(* the callback's arguments and stoppedAt the sequence number when the    *)
(* latest stop() returned; both are observations, not program state.                  *)
(***************************************************************************)
EXTENDS Naturals, Sequences

CONSTANTS Feeds,           \* the simulators, e.g. feed A and feed B
          SequenceStart,   \* FeedConfig::sequence_start
          MaxPublish       \* updates the publisher sends to each feed

VARIABLES running_,          \* FeedSimulator::running_
          worker,            \* where each worker thread is, "none" if not started
          ctl,               \* the control thread: "idle" or the feed it joins
          sequence_number_,  \* FeedSimulator::sequence_number_
          pending,           \* pending_updates_
          current,           \* the worker's update_opt, 0 when empty
          received,          \* stats_.messages_received
          dropped,           \* stats_.messages_dropped
          hasLast,           \* stats_.last_update is set (time_since_epoch() > 0)
          delivered,         \* updates passed to callback_, in order
          stoppedAt          \* sequence_number_ when the latest stop() returned

vars == <<running_, worker, ctl, sequence_number_, pending, current,
          received, dropped, hasLast, delivered, stoppedAt>>

(* The constructor: not running, sequence_number_(config.sequence_start),  *)
(* FeedStats zero-initialised (lines 36-37, 287-296).                      *)
Init == /\ running_ = [f \in Feeds |-> FALSE]
        /\ worker = [f \in Feeds |-> "none"]
        /\ ctl = "idle"
        /\ sequence_number_ = [f \in Feeds |-> SequenceStart]
        /\ pending = [f \in Feeds |-> << >>]
        /\ current = [f \in Feeds |-> 0]
        /\ received = [f \in Feeds |-> 0]
        /\ dropped = [f \in Feeds |-> 0]
        /\ hasLast = [f \in Feeds |-> FALSE]
        /\ delivered = [f \in Feeds |-> << >>]
        /\ stoppedAt = [f \in Feeds |-> SequenceStart]

-----------------------------------------------------------------------------
(* publish_quote / publish_trade (lines 70-87): fetch_add then enqueue.    *)
(* With the single publisher thread nothing observes the two apart.        *)
Publish(f) ==
    /\ sequence_number_[f] < SequenceStart + MaxPublish
    /\ sequence_number_' = [sequence_number_ EXCEPT ![f] = @ + 1]
    /\ pending' = [pending EXCEPT ![f] = Append(@, sequence_number_[f])]
    /\ UNCHANGED <<running_, worker, ctl, current, received, dropped, hasLast,
                   delivered, stoppedAt>>

(* Mutant: start() re-initialises sequence_number_ from the config.       *)
StartResetsSequence(f) ==
    /\ ctl = "idle" /\ ~running_[f]
    /\ running_' = [running_ EXCEPT ![f] = TRUE]
    /\ worker' = [worker EXCEPT ![f] = "test"]
    /\ sequence_number_' = [sequence_number_ EXCEPT ![f] = SequenceStart]
    /\ UNCHANGED <<ctl, pending, current, received, dropped, hasLast, delivered,
                   stoppedAt>>

(* start() (lines 45-53): running_.exchange(true) found it false, so a new *)
(* worker thread runs worker_loop.  When it found it true, start returns   *)
(* having changed nothing.                                                 *)
Start(f) ==
    /\ ctl = "idle" /\ ~running_[f]
    /\ running_' = [running_ EXCEPT ![f] = TRUE]
    /\ worker' = [worker EXCEPT ![f] = "test"]
    /\ UNCHANGED <<ctl, sequence_number_, pending, current, received, dropped,
                   hasLast, delivered, stoppedAt>>

(* stop() (lines 56-62): running_.exchange(false) found it true; the       *)
(* control thread goes on to join the worker.                              *)
StopBegin(f) ==
    /\ ctl = "idle" /\ running_[f]
    /\ running_' = [running_ EXCEPT ![f] = FALSE]
    /\ ctl' = f
    /\ UNCHANGED <<worker, sequence_number_, pending, current, received,
                   dropped, hasLast, delivered, stoppedAt>>

(* lines 63-66: worker_thread_.join() returns once worker_loop has ended.  *)
StopJoin(f) ==
    /\ ctl = f /\ worker[f] = "exited"
    /\ worker' = [worker EXCEPT ![f] = "none"]
    /\ ctl' = "idle"
    /\ stoppedAt' = [stoppedAt EXCEPT ![f] = sequence_number_[f]]
    /\ UNCHANGED <<running_, sequence_number_, pending, current, received,
                   dropped, hasLast, delivered>>

-----------------------------------------------------------------------------
(* worker_loop, line 112: while (running_.load()).                         *)
WorkerTest(f) ==
    /\ worker[f] = "test"
    /\ worker' = [worker EXCEPT ![f] = IF running_[f] THEN "dequeue" ELSE "exited"]
    /\ UNCHANGED <<running_, ctl, sequence_number_, pending, current, received,
                   dropped, hasLast, delivered, stoppedAt>>

(* Mutant: break out of the loop when the queue is empty.                  *)
WorkerDequeueExitOnEmpty(f) ==
    /\ worker[f] = "dequeue"
    /\ IF pending[f] = << >>
       THEN worker' = [worker EXCEPT ![f] = "exited"] /\ UNCHANGED <<pending, current>>
       ELSE /\ current' = [current EXCEPT ![f] = Head(pending[f])]
            /\ pending' = [pending EXCEPT ![f] = Tail(@)]
            /\ worker' = [worker EXCEPT ![f] = "deliver"]
    /\ UNCHANGED <<running_, ctl, sequence_number_, received, dropped, hasLast,
                   delivered, stoppedAt>>

(* lines 114-119: dequeue; when empty, sleep 1us and test running_ again.  *)
WorkerDequeue(f) ==
    /\ worker[f] = "dequeue"
    /\ IF pending[f] = << >>
       THEN worker' = [worker EXCEPT ![f] = "test"] /\ UNCHANGED <<pending, current>>
       ELSE /\ current' = [current EXCEPT ![f] = Head(pending[f])]
            /\ pending' = [pending EXCEPT ![f] = Tail(@)]
            /\ worker' = [worker EXCEPT ![f] = "deliver"]
    /\ UNCHANGED <<running_, ctl, sequence_number_, received, dropped, hasLast,
                   delivered, stoppedAt>>

(* Mutant: the drop branch is missing its continue and falls through to   *)
(* the delivery.                                                           *)
WorkerDropNoContinue(f) ==
    /\ worker[f] = "deliver"
    /\ dropped' = [dropped EXCEPT ![f] = @ + 1]
    /\ received' = [received EXCEPT ![f] = IF hasLast[f] THEN @ + 1 ELSE @]
    /\ hasLast' = [hasLast EXCEPT ![f] = TRUE]
    /\ delivered' = [delivered EXCEPT ![f] = Append(@, current[f])]
    /\ worker' = [worker EXCEPT ![f] = "test"]
    /\ current' = [current EXCEPT ![f] = 0]
    /\ UNCHANGED <<running_, ctl, sequence_number_, pending, stoppedAt>>

(* Mutant: the drop is not counted.                                        *)
WorkerDropUncounted(f) ==
    /\ worker[f] = "deliver"
    /\ worker' = [worker EXCEPT ![f] = "test"]
    /\ current' = [current EXCEPT ![f] = 0]
    /\ UNCHANGED <<running_, ctl, sequence_number_, pending, received, dropped,
                   hasLast, delivered, stoppedAt>>

(* lines 122-129: inject_latency(), then should_drop_packet() decided to   *)
(* drop: messages_dropped++ and continue.                                  *)
WorkerDrop(f) ==
    /\ worker[f] = "deliver"
    /\ dropped' = [dropped EXCEPT ![f] = @ + 1]
    /\ worker' = [worker EXCEPT ![f] = "test"]
    /\ current' = [current EXCEPT ![f] = 0]
    /\ UNCHANGED <<running_, ctl, sequence_number_, pending, received, hasLast,
                   delivered, stoppedAt>>

(* lines 132-153 with FeedStats::update_latency (298-304): only when       *)
(* last_update is set is the latency recorded and messages_received        *)
(* incremented; last_update = now; callback_(update, stats_).              *)
WorkerDeliver(f) ==
    /\ worker[f] = "deliver"
    /\ received' = [received EXCEPT ![f] = IF hasLast[f] THEN @ + 1 ELSE @]
    /\ hasLast' = [hasLast EXCEPT ![f] = TRUE]
    /\ delivered' = [delivered EXCEPT ![f] = Append(@, current[f])]
    /\ worker' = [worker EXCEPT ![f] = "test"]
    /\ current' = [current EXCEPT ![f] = 0]
    /\ UNCHANGED <<running_, ctl, sequence_number_, pending, dropped, stoppedAt>>

WorkerStep(f) == WorkerTest(f) \/ WorkerDequeue(f) \/ WorkerDrop(f) \/ WorkerDeliver(f)

Next == \E f \in Feeds :
          \/ Publish(f) \/ Start(f) \/ StopBegin(f) \/ StopJoin(f)
          \/ WorkerStep(f)

(* Each worker is an OS thread that keeps being scheduled; the publisher   *)
(* and the control thread may stop calling at any time.                    *)
Spec == Init /\ [][Next]_vars /\ \A f \in Feeds : WF_vars(WorkerStep(f))

-----------------------------------------------------------------------------
Seqs == SequenceStart .. SequenceStart + MaxPublish

TypeOK == /\ running_ \in [Feeds -> BOOLEAN]
          /\ worker \in [Feeds -> {"none", "test", "dequeue", "deliver", "exited"}]
          /\ ctl \in {"idle"} \cup Feeds
          /\ sequence_number_ \in [Feeds -> Seqs]
          /\ pending \in [Feeds -> Seq(Seqs)]
          /\ current \in [Feeds -> {0} \cup Seqs]
          /\ {received[f] + dropped[f] : f \in Feeds} \subseteq 0 .. MaxPublish
          /\ hasLast \in [Feeds -> BOOLEAN]
          /\ delivered \in [Feeds -> Seq(Seqs)]
          /\ stoppedAt \in [Feeds -> Seqs]

(* spec.md 5, "Sequence numbers are monotonic per feed": each feed's       *)
(* callback sees strictly increasing sequence numbers, across drops,       *)
(* stops and restarts.                                                     *)
DeliveredInSequence ==
    \A f \in Feeds : \A i \in 1 .. Len(delivered[f]) - 1 :
        delivered[f][i] < delivered[f][i + 1]

(* Every update a feed was given is in exactly one place: still pending,   *)
(* in the worker's hands, counted as dropped, or delivered to the          *)
(* callback.                                                               *)
UpdatesAccounted ==
    \A f \in Feeds :
        sequence_number_[f] - SequenceStart
          = Len(pending[f]) + (IF current[f] = 0 THEN 0 ELSE 1)
            + dropped[f] + Len(delivered[f])

(* An update queued on a running feed is taken and handled (delivered or   *)
(* dropped) by the worker unless the feed is stopped.                      *)
QueuedIsHandled ==
    \A f \in Feeds : \A s \in Seqs :
        (\E i \in DOMAIN pending[f] : pending[f][i] = s)
          ~> (~running_[f] \/ (current[f] # s /\ \A i \in DOMAIN pending[f] : pending[f][i] # s))

(* spec.md 5: "messages enqueued but not yet delivered are discarded on    *)
(* stop": no update published before the latest stop() returned reaches    *)
(* the callback afterwards.                                                *)
DiscardedOnStop ==
    [][\A f \in Feeds :
         Len(delivered'[f]) > Len(delivered[f]) => delivered'[f][Len(delivered'[f])] >= stoppedAt[f]]_vars

(* FeedStats::messages_received counts the messages the callback received, *)
(* as test_network.cpp (FeedSimulatorBasic) expects of the two counts.     *)
ReceivedCountsDelivered == \A f \in Feeds : received[f] = Len(delivered[f])
=============================================================================
