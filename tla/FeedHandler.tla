----------------------------- MODULE FeedHandler -----------------------------
(***************************************************************************)
(* network::FeedHandler (src/include/network/feed_handler.hpp) with the    *)
(* ArbitrageDetector it owns (the third header of feed_simulator.hpp,      *)
(* lines 325-566).  The publisher thread sends every quote and trade to    *)
(* feed A and then to feed B; each feed's worker (FeedSimulator) delivers  *)
(* it to process_feed_update, which passes it to                          *)
(* ArbitrageDetector::on_feed_update and, for quotes of feed A, submits a  *)
(* bid and an ask order to the matching engine.                            *)
(*                                                                         *)
(* on_feed_update holds the detector's mutex for its whole body, so it is  *)
(* one step, taken inside the worker's delivery step.  The engine is       *)
(* represented by the orders submitted to it (MatchingEngine models what   *)
(* it does with them).  Timestamps are publication ticks: the quotes of    *)
(* one publish_quote get consecutive ticks, A's first, and two             *)
(* publications are more than 1 ms apart (the demo publishes every 10 ms). *)
(* FeedStats, and the double-valued profit and latency statistics, are     *)
(* read only by printing and are not modelled.                             *)
(***************************************************************************)
EXTENDS Naturals, Sequences, FiniteSets

CONSTANTS Symbols,      \* symbol ids
          Quotes,       \* <<bid, ask>> pairs a publisher may send
          MaxPublish,   \* publications per feed
          RecentCap,    \* the 1000 of recent_opportunities_ (line 548)
          MaxStarts     \* calls of FeedHandler::start

Feeds == {"A", "B"}
NoUpdate == [kind |-> "none"]

VARIABLES running_, worker, ctl, sequence_number_, pending, current,
          received, dropped, hasLast, delivered, stoppedAt,
          payload,       \* payload[f][s]: the update feed f numbered s
          pub,           \* the update publish_* still owes feed B
          clock,         \* the tick stamped by the next Quote/TradeTick
          quotes,        \* symbol_states_: latest quote per feed, NoUpdate if none
          tradeTimes,    \* trade_timestamps_: latest trade tick per feed, 0 if none
          recent,        \* recent_opportunities_
          history,       \* every opportunity recorded (observation)
          stats,         \* ArbitrageStats counters
          nextOrderId,   \* generate_order_id's static next_id
          submitted,     \* orders passed to matching_engine_->submit_order
          starts         \* FeedHandler::start calls so far (bounded by MaxStarts)

FS == INSTANCE FeedSimulator WITH Feeds <- Feeds, SequenceStart <- 1

fsVars == <<running_, worker, ctl, sequence_number_, pending, current,
            received, dropped, hasLast, delivered, stoppedAt>>
detVars == <<quotes, tradeTimes, recent, history, stats>>
vars == <<fsVars, payload, pub, clock, detVars, nextOrderId, submitted, starts>>

Seqs == 1 .. MaxPublish + 1
(* What the publisher passes to publish_quote / publish_trade; the trade's *)
(* price, quantity and side are read by nobody downstream.                 *)
Inputs == {[kind |-> "quote", sym |-> y, bid |-> q[1], ask |-> q[2], ts |-> 0] :
             y \in Symbols, q \in Quotes}
          \cup [kind : {"trade"}, sym : Symbols, ts : {0}]

Init == /\ FS!Init
        /\ payload = [f \in Feeds |-> [s \in Seqs |-> NoUpdate]]
        /\ pub = NoUpdate
        /\ clock = 1
        /\ quotes = [y \in Symbols |-> [f \in Feeds |-> NoUpdate]]
        /\ tradeTimes = [y \in Symbols |-> [f \in Feeds |-> 0]]
        /\ recent = << >>
        /\ history = << >>
        /\ stats = [opportunities_detected |-> 0, profitable_opportunities |-> 0,
                    missed_opportunities |-> 0]
        /\ nextOrderId = 1000000
        /\ submitted = << >>
        /\ starts = 0

-----------------------------------------------------------------------------
(* Mutant: only buying on A and selling on B counts.                      *)
ProfitableOneWay(o) == o.aAsk > 0 /\ o.bBid > 0 /\ o.bBid > o.aAsk

(* ArbitrageOpportunity::profit_basis_points() > 0.0 (lines 341-359): the  *)
(* quotient of two positive integers is a positive double.                 *)
Profitable(o) == \/ o.aAsk > 0 /\ o.bBid > 0 /\ o.bBid > o.aAsk
                 \/ o.bAsk > 0 /\ o.aBid > 0 /\ o.aBid > o.bAsk

(* check_arbitrage, lines 500-542: the opportunity built from the latest   *)
(* quotes of the two feeds; the feed with the smaller timestamp is         *)
(* fast_feed, B on a tie.                                                  *)
Opportunity(y, a, b) ==
    [sym |-> y, fast |-> IF a.ts < b.ts THEN "A" ELSE "B",
     aBid |-> a.bid, aAsk |-> a.ask, bBid |-> b.bid, bAsk |-> b.ask,
     aTs |-> a.ts, bTs |-> b.ts]

(* line 518: bid_diff > 0 || ask_diff > 0 || has_opportunity               *)
Recorded(o) == o.aBid # o.bBid \/ o.aAsk # o.bAsk \/ Profitable(o)

(* Mutant: the oldest entry is erased only beyond 1001 entries.            *)
KeepRecentLate(r) == IF Len(r) > RecentCap + 1 THEN Tail(r) ELSE r

(* Mutant: the oldest entry is erased already at 1000 entries.             *)
KeepRecentEarly(r) == IF Len(r) >= RecentCap THEN Tail(r) ELSE r

(* lines 545-551: push_back, then erase the oldest beyond 1000.            *)
KeepRecent(r) == IF Len(r) > RecentCap THEN Tail(r) ELSE r

(* check_arbitrage, lines 518-557, with ArbitrageStats::record_opportunity *)
(* (372-382); callback_ only prints in this program.                       *)
CheckArbitrage(o) ==
    IF Recorded(o)
    THEN /\ stats' = [stats EXCEPT !.opportunities_detected = @ + 1,
                                   !.profitable_opportunities = IF Profitable(o) THEN @ + 1 ELSE @]
         /\ recent' = KeepRecent(Append(recent, o))
         /\ history' = Append(history, o)
    ELSE UNCHANGED <<stats, recent, history>>

(* process_quote, lines 469-478, with SymbolState::update_quote (449-461). *)
ProcessQuote(f, u) ==
    LET st == [quotes[u.sym] EXCEPT ![f] = u]
    IN  /\ quotes' = [quotes EXCEPT ![u.sym] = st]
        /\ IF st["A"] # NoUpdate /\ st["B"] # NoUpdate
           THEN CheckArbitrage(Opportunity(u.sym, st["A"], st["B"]))
           ELSE UNCHANGED <<stats, recent, history>>
        /\ UNCHANGED tradeTimes

(* line 490: more than 1 ms apart, i.e. from different publications.       *)
MoreThanOneMs(t1, t2) == t1 - t2 > 1 \/ t2 - t1 > 1

(* process_trade, lines 480-495.                                           *)
ProcessTrade(f, u) ==
    LET tt == [tradeTimes[u.sym] EXCEPT ![f] = u.ts]
    IN  /\ tradeTimes' = [tradeTimes EXCEPT ![u.sym] = tt]
        /\ stats' = [stats EXCEPT !.missed_opportunities =
                       IF tt["A"] > 0 /\ tt["B"] > 0 /\ MoreThanOneMs(tt["A"], tt["B"])
                       THEN @ + 1 ELSE @]
        /\ UNCHANGED <<quotes, recent, history>>

(* on_feed_update, lines 404-416, under mutex_.                            *)
OnFeedUpdate(f, u) == IF u.kind = "quote" THEN ProcessQuote(f, u) ELSE ProcessTrade(f, u)

(* The maker orders of process_feed_update (feed_handler.hpp 163-192).     *)
MakerOrders(u) ==
    (IF u.bid > 0 THEN << [id |-> nextOrderId, side |-> "BUY", price |-> u.bid] >> ELSE << >>)
    \o (IF u.ask > 0
        THEN << [id |-> nextOrderId + (IF u.bid > 0 THEN 1 ELSE 0), side |-> "SELL", price |-> u.ask] >>
        ELSE << >>)

(* feed_handler.hpp 163-192: for a quote of feed A, a BUY at the bid and a *)
(* SELL at the ask, each with generate_order_id() (lines 208-212), when    *)
(* the price and size are positive (sizes are always positive here).      *)
Synthesize(f, u) ==
    IF f = "A" /\ u.kind = "quote"
    THEN /\ submitted' = submitted \o MakerOrders(u)
         /\ nextOrderId' = nextOrderId + Len(MakerOrders(u))
    ELSE UNCHANGED <<submitted, nextOrderId>>

(* process_feed_update (feed_handler.hpp 154-194), the callback of the     *)
(* delivery step of feed f.                                                *)
ProcessFeedUpdate(f, u) == OnFeedUpdate(f, u) /\ Synthesize(f, u)

-----------------------------------------------------------------------------
(* The Quote / TradeTick constructor stamps now() (feed_simulator.hpp      *)
(* 234-269); FeedSimulator::publish_quote / publish_trade (70-87) numbers  *)
(* and enqueues it on feed f.                                              *)
PublishTo(f, u) ==
    /\ FS!Publish(f)
    /\ payload' = [payload EXCEPT ![f][sequence_number_[f]] = [u EXCEPT !.ts = clock]]
    /\ clock' = clock + 1

(* FeedHandler::publish_quote / publish_trade (feed_handler.hpp 60-71),    *)
(* first half: the update goes to feed A.                                  *)
PublishA ==
    /\ pub = NoUpdate
    /\ \E u \in Inputs :
         /\ PublishTo("A", u)
         /\ pub' = u
    /\ UNCHANGED <<detVars, nextOrderId, submitted, starts>>

(* second half: the same update goes to feed B.                            *)
PublishB ==
    /\ pub # NoUpdate
    /\ PublishTo("B", pub)
    /\ pub' = NoUpdate
    /\ UNCHANGED <<detVars, nextOrderId, submitted, starts>>

(* FeedHandler::start (44-50): feed A's start, then feed B's.  stop        *)
(* (53-57): feed A's stop (exchange and join), then feed B's.              *)
HandlerStart(f) ==
    /\ IF f = "A" THEN ~running_["B"] /\ starts < MaxStarts ELSE running_["A"]
    /\ FS!Start(f)
    /\ starts' = IF f = "A" THEN starts + 1 ELSE starts
HandlerStopBegin(f) ==
    /\ IF f = "A" THEN running_["B"] ELSE ~running_["A"] /\ worker["A"] = "none"
    /\ FS!StopBegin(f)
    /\ UNCHANGED starts

Control == \E f \in Feeds :
             \/ HandlerStart(f) \/ HandlerStopBegin(f)
             \/ FS!StopJoin(f) /\ UNCHANGED starts

(* The worker of feed f; its delivery runs the callback set by             *)
(* setup_callbacks (139-151), process_feed_update(f, update).              *)
Worker(f) ==
    \/ /\ FS!WorkerTest(f) \/ FS!WorkerDequeue(f) \/ FS!WorkerDrop(f)
       /\ UNCHANGED <<payload, pub, clock, detVars, nextOrderId, submitted, starts>>
    \/ /\ FS!WorkerDeliver(f)
       /\ ProcessFeedUpdate(f, payload[f][current[f]])
       /\ UNCHANGED <<payload, pub, clock, starts>>

Next == \/ PublishA \/ PublishB
        \/ Control /\ UNCHANGED <<payload, pub, clock, detVars, nextOrderId, submitted>>
        \/ \E f \in Feeds : Worker(f)

Spec == Init /\ [][Next]_vars /\ \A f \in Feeds : WF_vars(Worker(f))

-----------------------------------------------------------------------------
Opp == [sym : Symbols, fast : Feeds, aBid : Nat, aAsk : Nat, bBid : Nat,
        bAsk : Nat, aTs : Nat, bTs : Nat]

TypeOK == /\ FS!TypeOK
          /\ pub \in Inputs \cup {NoUpdate}
          /\ \A y \in Symbols, f \in Feeds : quotes[y][f] = NoUpdate \/ quotes[y][f].kind = "quote"
          /\ tradeTimes \in [Symbols -> [Feeds -> 0 .. clock]]
          /\ recent \in Seq(Opp) /\ Len(recent) <= RecentCap
          /\ history \in Seq(Opp)
          /\ stats \in [{"opportunities_detected", "profitable_opportunities",
                         "missed_opportunities"} -> Nat]
          /\ submitted \in Seq([id : Nat, side : {"BUY", "SELL"}, price : Nat])

(* recent_opportunities_ holds exactly the RecentCap (1000) most recent    *)
(* opportunities check_arbitrage recorded, oldest first, however the two   *)
(* feed workers' deliveries interleave.                                    *)
RecentIsLatest ==
    LET n == Len(history)
    IN  recent = SubSeq(history, IF n > RecentCap THEN n - RecentCap + 1 ELSE 1, n)

(* spec.md 4.8: an opportunity is profitable when one feed's bid is above  *)
(* the other's ask (both positive); ArbitrageStats counts every recorded   *)
(* opportunity and exactly the profitable ones.                            *)
Crossed(o) == \E b, s \in {<<o.aBid, o.bAsk>>, <<o.bBid, o.aAsk>>} :
                b = s /\ b[2] > 0 /\ b[1] > b[2]
ProfitableCounted ==
    /\ stats.opportunities_detected = Len(history)
    /\ stats.profitable_opportunities
         = Cardinality({i \in 1 .. Len(history) : Crossed(history[i])})

(* The publication a tick belongs to: publication k stamps 2k-1 on feed A  *)
(* and 2k on feed B.                                                       *)
Publication(ts) == (ts + 1) \div 2

(* The comment "Determine which feed is faster" (line 524) and the names   *)
(* fast_feed / slow_feed: the fast feed of a recorded opportunity is the   *)
(* one whose quote is the more recent publication, the feed that is ahead. *)
FastFeedIsAhead ==
    \A i \in 1 .. Len(history) :
        LET o == history[i]
        IN  Publication(o.aTs) # Publication(o.bTs)
              => (o.fast = "A" <=> Publication(o.aTs) > Publication(o.bTs))
=============================================================================
