----------------------------- MODULE OrderBook -----------------------------
(***************************************************************************)
(* The per-symbol limit order book of src/src/core/orderbook.cpp          *)
(* (OrderBookImpl with its PriceLevelImpl).                                *)
(*                                                                         *)
(* State, as in the class:                                                 *)
(*   levels[s]  : the std::map of side s, price -> PriceLevelImpl, as a    *)
(*                function whose DOMAIN is the set of map keys; a level    *)
(*                is [orders |-> FIFO of order ids, volume |-> total_volume_]*)
(*   orderMap   : order_map_, order id -> the shared Order object           *)
(*                (side, price, remaining quantity).  A level holds ids;    *)
(*                the quantity lives once, in the object both share.       *)
(*   nextTradeId: next_trade_id_                                           *)
(*   lastTrades : the std::vector<Trade> returned by the last call         *)
(*   lastCall   : the inputs of the last call (history, for properties)    *)
(*   arrivals   : resting order ids in the order they were placed in the    *)
(*                book (history, the time in price-time priority)          *)
(*                                                                         *)
(* Every public mutator is one atomic action: the book is owned by the     *)
(* engine's single worker thread, so no call interleaves with another.     *)
(* The matching loop is the RECURSIVE operator MatchOrder.                 *)
(***************************************************************************)
EXTENDS Integers, Sequences, FiniteSets, SequencesExt

CONSTANTS
    OrderIds,     \* order ids the callers use
    InputPrices,  \* prices callers submit (may contain non-positive ones)
    Quantities,   \* quantities callers submit (may contain 0)
    MaxTradeId    \* bound on next_trade_id_

Sides == {"BUY", "SELL"}
Opposite(s) == IF s = "BUY" THEN "SELL" ELSE "BUY"

\* An Order as the book sees it (Order in src/unnamed/part_000).
OrderRec == [id: OrderIds, side: Sides, price: InputPrices, quantity: Quantities]

VARIABLES levels, orderMap, nextTradeId, lastTrades, lastCall, arrivals

vars == <<levels, orderMap, nextTradeId, lastTrades, lastCall, arrivals>>

NoCall == [op |-> "none"]

-----------------------------------------------------------------------------
(* Map helpers: erase a key, insert or overwrite a key.                    *)
Erase(f, k) == Restrict(f, DOMAIN f \ {k})
Put(f, k, v) == (k :> v) @@ f

-----------------------------------------------------------------------------
(* PriceLevelImpl.                                                         *)

\* Mutation (checks MatchesFollowPriority): a level that pushes new orders
\* to the front, losing time priority.
LevelAddAtFront(lvl, id, qty) ==
    [orders |-> <<id>> \o lvl.orders, volume |-> lvl.volume + qty]

\* add_order: push to the tail, total_volume_ += order->quantity.
LevelAdd(lvl, id, qty) ==
    [orders |-> Append(lvl.orders, id), volume |-> lvl.volume + qty]

\* Mutation (checks VolumeMatchesOrders): remove_front() used after a fill,
\* subtracting the front order's quantity, which the fill already set to 0.
RemoveFrontStale(lvl, filledQty) ==
    IF lvl.orders = <<>> THEN lvl
    ELSE [orders |-> Tail(lvl.orders), volume |-> lvl.volume - 0]

\* remove_front_after_fill: pop the front, total_volume_ -= filled_quantity.
RemoveFrontAfterFill(lvl, filledQty) ==
    IF lvl.orders = <<>> THEN lvl
    ELSE [orders |-> Tail(lvl.orders), volume |-> lvl.volume - filledQty]

\* update_volume_after_partial_fill: total_volume_ -= filled_quantity.
UpdateVolumeAfterPartialFill(lvl, filledQty) ==
    [lvl EXCEPT !.volume = @ - filledQty]

\* remove_order: drop every entry with this id, subtracting the shared
\* object's quantity once per entry found.
RemoveOrder(lvl, id, qty) ==
    LET kept == SelectSeq(lvl.orders, LAMBDA x : x # id)
    IN  [orders |-> kept,
         volume |-> lvl.volume - (Len(lvl.orders) - Len(kept)) * qty]

-----------------------------------------------------------------------------
(* Matching.  m is the part of the book the loop touches plus the          *)
(* incoming order's remaining quantity and the trades emitted so far.      *)

\* Trade(id, buy, sell, price, qty) is called by generate_trade as
\* Trade(id, aggressive_order, passive_order, ...) for BOTH sides.
GenerateTrade(tid, aggressorId, passiveId, qty, price) ==
    [trade_id |-> tid, buy_order_id |-> aggressorId,
     sell_order_id |-> passiveId, price |-> price, quantity |-> qty]

\* sell_levels_.begin() is the lowest ask, buy_levels_.begin() the highest bid.
BestPrice(side, lv) ==
    IF side = "BUY" THEN Max(DOMAIN lv) ELSE Min(DOMAIN lv)

\* Mutation (checks BookNotCrossed): the loop also stops at an equal price.
CrossesStrict(side, limit, p) ==
    IF side = "BUY" THEN limit > p ELSE limit < p

\* The loop continues only while the incoming price crosses the best level.
Crosses(side, limit, p) ==
    IF side = "BUY" THEN ~(limit < p) ELSE ~(limit > p)

\* Mutation (checks TypeOK): the operands of the passive order's
\* decrement swapped; the uint32_t result wraps.
ReduceQuantitySwapped(qty, filled) == filled - qty

\* The resting order's quantity after a fill: quantity -= match_quantity.
ReduceQuantity(qty, filled) == qty - filled

\* One fill against the front order pid of the level at price p: the trade
\* at the passive price, both quantities reduced, and the filled order
\* popped from its level and order_map_ (the level erased once empty), or
\* the partial fill taken from the level's volume.
FillFront(o, m, opp, p, pid, q) ==
    LET filled == ReduceQuantity(m.orderMap[pid].quantity, q) = 0
        lvl2   == IF filled THEN RemoveFrontAfterFill(m.levels[opp][p], q)
                            ELSE UpdateVolumeAfterPartialFill(m.levels[opp][p], q)
    IN [m EXCEPT !.levels[opp] = IF filled /\ lvl2.orders = << >> THEN Erase(@, p)
                                                              ELSE [@ EXCEPT ![p] = lvl2],
                 !.orderMap = IF filled THEN Erase(@, pid)
                              ELSE [@ EXCEPT ![pid].quantity = ReduceQuantity(@, q)],
                 !.qty = @ - q,
                 !.tid = @ + 1,
                 !.trades = Append(@, GenerateTrade(m.tid, o.id, pid, q, p))]

\* match_buy_order / match_sell_order: one iteration per resting order met.
\* The loop runs while the incoming order has quantity and the opposite
\* side has a level; it stops at the first level that does not cross; an
\* empty level is erased and the loop continues.
RECURSIVE MatchOrder(_, _), MatchBest(_, _, _, _)
MatchBest(o, m, opp, p) ==
    IF ~Crosses(o.side, o.price, p) THEN m
    ELSE IF m.levels[opp][p].orders = << >>
    THEN MatchOrder(o, [m EXCEPT !.levels[opp] = Erase(@, p)])
    ELSE MatchOrder(o, FillFront(o, m, opp, p, Head(m.levels[opp][p].orders),
                                 Min({m.qty, m.orderMap[Head(m.levels[opp][p].orders)].quantity})))

MatchOrder(o, m) ==
    IF m.qty = 0 \/ DOMAIN m.levels[Opposite(o.side)] = {} THEN m
    ELSE MatchBest(o, m, Opposite(o.side),
                   BestPrice(Opposite(o.side), m.levels[Opposite(o.side)]))

\* add_to_book: create the level on first use, append, index the order.
AddToBook(m, o) ==
    LET s   == o.side
        lv  == m.levels[s]
        lvl == IF o.price \in DOMAIN lv THEN lv[o.price]
                                        ELSE [orders |-> <<>>, volume |-> 0]
    IN [m EXCEPT !.levels[s] = Put(lv, o.price, LevelAdd(lvl, o.id, m.qty)),
                 !.orderMap = Put(m.orderMap, o.id,
                                  [side |-> s, price |-> o.price, quantity |-> m.qty])]

\* Add the remaining quantity to the book, if any.
PlaceResidual(m, o) == IF m.qty > 0 THEN AddToBook(m, o) ELSE m

\* OrderBookImpl::add_order as a function of the book: validation, the
\* duplicate check, matching, and placing the residual.
AddOrderResult(o, lv, om, tid) ==
    LET m0 == [levels |-> lv, orderMap |-> om, qty |-> o.quantity,
               tid |-> tid, trades |-> <<>>]
    IN
    IF o.quantity = 0 \/ o.price <= 0 THEN m0
    ELSE IF o.id \in DOMAIN om THEN m0
    ELSE PlaceResidual(MatchOrder(o, m0), o)

\* Mutation (checks LevelsMatchIndex): cancel_order that never erases the
\* level it empties.
CancelKeepLevel(id, lv, om) ==
    IF id \notin DOMAIN om THEN [levels |-> lv, orderMap |-> om]
    ELSE
      LET ord == om[id]
          s   == ord.side
      IN
      IF ord.price \notin DOMAIN lv[s] THEN [levels |-> lv, orderMap |-> Erase(om, id)]
      ELSE [levels |-> [lv EXCEPT ![s][ord.price] =
                          RemoveOrder(@, id, ord.quantity)],
            orderMap |-> Erase(om, id)]

\* cancel_order as a function of the book (levels, orderMap).
CancelResult(id, lv, om) ==
    IF id \notin DOMAIN om THEN [levels |-> lv, orderMap |-> om]
    ELSE
      LET ord == om[id]
          s   == ord.side
          om2 == Erase(om, id)
      IN
      IF ord.price \notin DOMAIN lv[s] THEN [levels |-> lv, orderMap |-> om2]
      ELSE
        LET lvl2 == RemoveOrder(lv[s][ord.price], id, ord.quantity)
            side2 == IF lvl2.orders = <<>> THEN Erase(lv[s], ord.price)
                                          ELSE [lv[s] EXCEPT ![ord.price] = lvl2]
        IN [levels |-> [lv EXCEPT ![s] = side2], orderMap |-> om2]

\* modify_order as a function of the book, for an id in order_map_: copy
\* the order, cancel it, add_order the copy with the new price and
\* quantity (add_order may silently reject it).  The trades add_order
\* returns are discarded: modify_order returns only the new Order.
ModifyResult(id, newPrice, newQty, lv, om, tid) ==
    LET old == om[id]
        c   == CancelResult(id, lv, om)
        new == [id |-> id, side |-> old.side, price |-> newPrice,
                quantity |-> newQty]
    IN  AddOrderResult(new, c.levels, c.orderMap, tid)

-----------------------------------------------------------------------------
(* The specification.                                                      *)

\* History: drop the ids that left the book and id itself, then append id
\* if it is in the book after the call (placed last in time priority).
Arrived(newMap, id) ==
    SelectSeq(arrivals, LAMBDA x : x \in DOMAIN newMap /\ x # id)
      \o (IF id \in DOMAIN newMap THEN <<id>> ELSE << >>)

Init ==
    /\ levels = [s \in Sides |-> << >>]
    /\ orderMap = << >>
    /\ nextTradeId = 1
    /\ lastTrades = << >>
    /\ lastCall = NoCall
    /\ arrivals = << >>

\* add_order(order).  A call can emit at most one trade per resting order,
\* so the guard keeps next_trade_id_ within MaxTradeId.
AddOrder(o) ==
    /\ nextTradeId + Cardinality(DOMAIN orderMap) <= MaxTradeId
    /\ LET r == AddOrderResult(o, levels, orderMap, nextTradeId)
       IN /\ levels' = r.levels
          /\ orderMap' = r.orderMap
          /\ nextTradeId' = r.tid
          /\ lastTrades' = r.trades
    /\ lastCall' = [op |-> "add", order |-> o]
    /\ arrivals' = IF o.id \in DOMAIN orderMap THEN arrivals
                   ELSE Arrived(orderMap', o.id)

\* cancel_order(order_id); the bool result is not state.
CancelOrder(id) ==
    /\ LET r == CancelResult(id, levels, orderMap)
       IN /\ levels' = r.levels
          /\ orderMap' = r.orderMap
    /\ lastTrades' = << >>
    /\ lastCall' = [op |-> "cancel", id |-> id]
    /\ arrivals' = Arrived(orderMap', id)
    /\ UNCHANGED nextTradeId

\* modify_order(order_id, new_price, new_quantity); an unknown id returns
\* std::nullopt before touching the book.
ModifyOrder(id, newPrice, newQty) ==
    /\ id \in DOMAIN orderMap
    /\ nextTradeId + Cardinality(DOMAIN orderMap) <= MaxTradeId
    /\ LET r == ModifyResult(id, newPrice, newQty, levels, orderMap, nextTradeId)
       IN /\ levels' = r.levels
          /\ orderMap' = r.orderMap
          /\ nextTradeId' = r.tid
    /\ lastTrades' = << >>
    /\ lastCall' = [op |-> "modify", id |-> id, price |-> newPrice,
                    quantity |-> newQty]
    /\ arrivals' = Arrived(orderMap', id)

\* clear(): both maps and the index emptied; next_trade_id_ is kept.
Clear ==
    /\ levels' = [s \in Sides |-> << >>]
    /\ orderMap' = << >>
    /\ lastTrades' = << >>
    /\ lastCall' = [op |-> "clear"]
    /\ arrivals' = << >>
    /\ UNCHANGED nextTradeId

Next ==
    \/ \E o \in OrderRec : AddOrder(o)
    \/ \E id \in OrderIds : CancelOrder(id)
    \/ \E id \in OrderIds, p \in InputPrices, q \in Quantities :
          ModifyOrder(id, p, q)
    \/ Clear

Spec == Init /\ [][Next]_vars

-----------------------------------------------------------------------------
(* Properties.                                                             *)

Level == [orders: Seq(OrderIds), volume: Int]

TypeOK ==
    /\ \A s \in Sides : /\ DOMAIN levels[s] \subseteq InputPrices
                      /\ \A p \in DOMAIN levels[s] : levels[s][p] \in Level
    /\ DOMAIN orderMap \subseteq OrderIds
    /\ \A id \in DOMAIN orderMap :
          orderMap[id] \in [side: Sides, price: InputPrices, quantity: Quantities]
    /\ nextTradeId \in 1..MaxTradeId
    /\ lastTrades \in Seq([trade_id: Nat, buy_order_id: OrderIds,
                           sell_order_id: OrderIds, price: InputPrices,
                           quantity: Quantities])

Occurrences(seq, id) == Len(SelectSeq(seq, LAMBDA x : x = id))

\* The book laws, stated on a book (lv, om) so that the engine can state
\* them of every registered book.
Uncrossed(lv) ==
    (DOMAIN lv["BUY"] # {} /\ DOMAIN lv["SELL"] # {}) =>
        Max(DOMAIN lv["BUY"]) < Min(DOMAIN lv["SELL"])

IndexConsistent(lv, om) ==
    /\ \A s \in Sides : \A p \in DOMAIN lv[s] :
          /\ lv[s][p].orders # << >>
          /\ \A i \in 1..Len(lv[s][p].orders) :
                LET id == lv[s][p].orders[i]
                IN  /\ id \in DOMAIN om
                    /\ om[id].side = s
                    /\ om[id].price = p
    /\ \A id \in DOMAIN om :
          /\ om[id].price \in DOMAIN lv[om[id].side]
          /\ Occurrences(lv[om[id].side][om[id].price].orders, id) = 1

VolumeConsistent(lv, om) ==
    \A s \in Sides : \A p \in DOMAIN lv[s] :
        /\ lv[s][p].volume =
              FoldLeft(LAMBDA acc, id : acc + om[id].quantity, 0, lv[s][p].orders)
        /\ \A i \in 1..Len(lv[s][p].orders) : om[lv[s][p].orders[i]].quantity > 0

\* P1 / I1: after every call, the highest bid is strictly below the lowest
\* ask.  Broken if match_buy_order / match_sell_order stop too early, or
\* if a resting order is placed without matching first.
BookNotCrossed == Uncrossed(levels)

\* I2: the price maps and order_map_ describe the same orders.  No level
\* is left empty (empty levels are erased at once), every queued id is
\* indexed with that level's side and price, and every indexed order sits
\* exactly once in the level of its side and price.  A cancel, a fill or a
\* modify that forgets one of its two structures breaks it.
LevelsMatchIndex == IndexConsistent(levels, orderMap)

\* I3 / P2: each level's total_volume_ equals the sum of the remaining
\* quantities of the orders queued at it, and no resting order has a
\* remaining quantity of 0.  The aggregate is maintained incrementally on
\* four different paths (add, partial fill, fill-and-pop, remove), so a
\* path that subtracts the wrong amount drifts it.
VolumeMatchesOrders == VolumeConsistent(levels, orderMap)

-----------------------------------------------------------------------------
(* Reference definition of price-time priority.  The resting orders of a  *)
(* side, best price first and FIFO within a price, and the fills a         *)
(* greedy sweep of them gives an incoming order.                           *)

BetterFor(s, a, b) == IF s = "BUY" THEN a > b ELSE a < b

\* Position of a resting order in time priority.
ArrivalRank(id) == CHOOSE i \in 1..Len(arrivals) : arrivals[i] = id

\* a comes before b: better price, or the same price and placed earlier.
Precedes(s, a, b) ==
    \/ BetterFor(s, orderMap[a].price, orderMap[b].price)
    \/ /\ orderMap[a].price = orderMap[b].price
       /\ ArrivalRank(a) < ArrivalRank(b)

\* The resting orders of side s at eligible prices, in priority order.
PriorityQueue(s, eligible(_)) ==
    LET ids == SetToSortSeq({id \in DOMAIN orderMap : orderMap[id].side = s
                                  /\ eligible(orderMap[id].price)},
                            LAMBDA a, b : Precedes(s, a, b))
    IN  [i \in 1..Len(ids) |-> <<ids[i], orderMap[ids[i]].price>>]

RECURSIVE Sweep(_, _, _)
Sweep(queue, qty, om) ==
    IF qty = 0 \/ queue = << >> THEN << >>
    ELSE LET id == Head(queue)[1]
             q  == IF qty < om[id].quantity THEN qty ELSE om[id].quantity
         IN  <<[passive |-> id, price |-> Head(queue)[2], quantity |-> q]>>
               \o Sweep(Tail(queue), qty - q, om)

ExpectedFills(o) ==
    Sweep(PriorityQueue(Opposite(o.side),
                        LAMBDA p : IF o.side = "BUY" THEN p <= o.price ELSE p >= o.price),
          o.quantity, orderMap)

\* The order id in a trade that is not the incoming order's.
PassiveOf(t, o) == IF t.buy_order_id = o.id THEN t.sell_order_id ELSE t.buy_order_id

\* P5 / P6: an accepted add_order executes exactly the fills the reference
\* sweep gives: resting orders consumed best price first and FIFO within a
\* price, each trade priced at the resting order's price, for the quantity
\* min(incoming remaining, resting remaining), with consecutive trade ids
\* from next_trade_id_; and it rests the unfilled remainder at its limit.
MatchesFollowPriority ==
    [][ (lastCall'.op = "add" /\ lastCall'.order.quantity > 0
          /\ lastCall'.order.price > 0 /\ lastCall'.order.id \notin DOMAIN orderMap)
        => LET o   == lastCall'.order
               exp == ExpectedFills(o)
               done == FoldLeft(LAMBDA acc, f : acc + f.quantity, 0, exp)
           IN  /\ Len(lastTrades') = Len(exp)
               /\ \A i \in 1..Len(exp) :
                     /\ PassiveOf(lastTrades'[i], o) = exp[i].passive
                     /\ lastTrades'[i].price = exp[i].price
                     /\ lastTrades'[i].quantity = exp[i].quantity
                     /\ lastTrades'[i].trade_id = nextTradeId + i - 1
               /\ (done < o.quantity) =>
                     orderMap'[o.id] = [side |-> o.side, price |-> o.price,
                                        quantity |-> o.quantity - done]
      ]_vars

\* Trade records name the buy order in buy_order_id and the sell order in
\* sell_order_id (Trade in src/unnamed/part_000, checked for a buy
\* aggressor in src/tests/test_order.cpp).  Stated for every add_order.
TradeSidesCorrect ==
    [][ lastCall'.op = "add" =>
        LET o == lastCall'.order
            SideOf(id) == IF id = o.id THEN o.side ELSE orderMap[id].side
        IN \A i \in 1..Len(lastTrades') :
              /\ SideOf(lastTrades'[i].buy_order_id) = "BUY"
              /\ SideOf(lastTrades'[i].sell_order_id) = "SELL"
      ]_vars

=============================================================================
