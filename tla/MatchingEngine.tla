--------------------------- MODULE MatchingEngine ---------------------------
(***************************************************************************)
(* MatchingEngineImpl (src/unnamed/part_006, declared in                   *)
(* src/include/core/matching_engine.hpp): a registry of order books, one    *)
(* request queue, one worker thread, statistics and callbacks.             *)
(*                                                                         *)
(* Threads:                                                                *)
(*   - client threads call submit_order / cancel_order / modify_order:     *)
(*     each checks running_ (throwing if false) and then enqueues, two      *)
(*     separate steps;                                                     *)
(*   - the control thread calls start, stop (exchange running_, then        *)
(*     join), register_symbol, unregister_symbol and clear_all_books;      *)
(*   - the worker runs worker_loop: process requests while running_, then   *)
(*     drain what is left, then exit.                                      *)
(*                                                                         *)
(* The request queue is modelled as an atomic FIFO (one producer, as the   *)
(* SPSCQueue requires); each book operation is the pure operator of        *)
(* OrderBook applied to that symbol's book.  A request for a registered    *)
(* symbol takes the worker two steps: the dequeue with order_books_.find,  *)
(* after which the worker holds a reference to the book, and the book      *)
(* operation with its callbacks; the control thread may run in between.   *)
(***************************************************************************)
EXTENDS Integers, Sequences, FiniteSets, SequencesExt

CONSTANTS
    Clients,      \* threads that submit requests
    Symbols,      \* symbol ids
    OrderIds,
    InputPrices,
    Quantities,
    MaxRequests   \* bound on the number of requests ever submitted

OB == INSTANCE OrderBook WITH MaxTradeId <- 0, levels <- [s \in {"BUY", "SELL"} |-> << >>],
        orderMap <- << >>, nextTradeId <- 1, lastTrades <- << >>,
        lastCall <- [op |-> "none"], arrivals <- << >>

Sides == OB!Sides

\* An Order as submitted to the engine (it carries its symbol_id).
EOrder == [id: OrderIds, symbol: Symbols, side: Sides, price: InputPrices,
           quantity: Quantities]

\* OrderRequest: NEW_ORDER, CANCEL_ORDER, MODIFY_ORDER.
Request ==
    [type: {"NEW"}, order: EOrder]
      \cup [type: {"CANCEL"}, symbol: Symbols, id: OrderIds]
      \cup [type: {"MODIFY"}, symbol: Symbols, id: OrderIds,
            price: InputPrices, quantity: Quantities]

EmptyBook == [levels |-> [s \in Sides |-> << >>], orderMap |-> << >>, tid |-> 1]

ZeroStats == [total_orders |-> 0, total_trades |-> 0, total_volume |-> 0,
              rejected_orders |-> 0, cancelled_orders |-> 0,
              modified_orders |-> 0]

VARIABLES
    running,     \* running_
    worker,      \* worker thread: "none", "loop" (while running_), "drain"
    ctl,         \* control thread: "idle" or "joining" (inside stop())
    books,       \* order_books_: DOMAIN is the registered symbols
    queue,       \* order_queue_: [tag, req] items
    client,      \* per client: pc and the request it is submitting
    stats,       \* stats_
    nextTag,     \* tags requests in submission order (history)
    processed,   \* tags of the requests the worker has processed (history)
    callbacks,   \* order/trade callbacks fired by the last worker step
    pendingAtStop, \* tags queued when stop() cleared running_ (history)
    inHand       \* the request whose book the worker found, or NoItem

vars == <<running, worker, ctl, books, queue, client, stats, nextTag,
          processed, callbacks, pendingAtStop, inHand>>

NoItem == [tag |-> 0]

Tags(q) == {q[i].tag : i \in 1..Len(q)}

-----------------------------------------------------------------------------
(* Request processing by the worker (process_order_request).  Each        *)
(* returns the new books, stats and the callbacks it fires, in order.      *)

\* An add_order result as an engine book and the trades it returned.
AsBook(r) == [levels |-> r.levels, orderMap |-> r.orderMap, tid |-> r.tid]

\* The order as the book sees it (the book does not read symbol_id).
BookOrder(o) == [id |-> o.id, side |-> o.side, price |-> o.price, quantity |-> o.quantity]

\* The rest of process_new_order once book->add_order(order) returned r:
\* report the order accepted, then report and count every trade.
NewOrderAdded(o, bks, st, r) ==
    [books |-> [bks EXCEPT ![o.symbol] = AsBook(r)],
     stats |-> [st EXCEPT
                  !.total_trades = @ + Len(r.trades),
                  !.total_volume = @ + FoldLeft(LAMBDA a, t : a + t.quantity, 0, r.trades)],
     cbs |-> <<[kind |-> "order", id |-> o.id, accepted |-> TRUE]>>
             \o [i \in 1..Len(r.trades) |-> [kind |-> "trade", trade |-> r.trades[i]]]]

\* stats_.total_orders.fetch_add(1), the first statement of
\* process_new_order, before the book is looked up.
CountNew(req, st) ==
    IF req.type = "NEW" THEN [st EXCEPT !.total_orders = @ + 1] ELSE st

\* process_new_order from `auto &book = it->second` on: add_order on the
\* book, then the callbacks and trade counters.
AddToBook(o, bks, st) ==
    NewOrderAdded(o, bks, st,
                  OB!AddOrderResult(BookOrder(o), bks[o.symbol].levels,
                                    bks[o.symbol].orderMap, bks[o.symbol].tid))

\* process_new_order: count, reject an unknown symbol, else add_order,
\* report the order accepted, then report and count every trade.
ProcessNewOrder(o, bks, st) ==
    LET counted == CountNew([type |-> "NEW"], st)
    IN IF o.symbol \notin DOMAIN bks
       THEN [books |-> bks,
             stats |-> [counted EXCEPT !.rejected_orders = @ + 1],
             cbs |-> <<[kind |-> "order", id |-> o.id, accepted |-> FALSE]>>]
       ELSE AddToBook(o, bks, counted)

\* process_cancel_order: ignore an unknown symbol; count a found order.
ProcessCancelOrder(sym, id, bks, st) ==
    IF sym \notin DOMAIN bks THEN [books |-> bks, stats |-> st, cbs |-> << >>]
    ELSE
      LET b == bks[sym]
          r == OB!CancelResult(id, b.levels, b.orderMap)
      IN [books |-> [bks EXCEPT ![sym] = [b EXCEPT !.levels = r.levels,
                                                   !.orderMap = r.orderMap]],
          stats |-> IF id \in DOMAIN b.orderMap
                    THEN [st EXCEPT !.cancelled_orders = @ + 1] ELSE st,
          cbs |-> << >>]

\* process_modify_order: ignore an unknown symbol; modify_order returns a
\* value exactly when the id was in the book, and that is counted.  No
\* callback fires: the trades the modify executed are not returned.
ProcessModifyOrder(sym, id, p, q, bks, st) ==
    IF sym \notin DOMAIN bks \/ id \notin DOMAIN bks[sym].orderMap
    THEN [books |-> bks, stats |-> st, cbs |-> << >>]
    ELSE [books |-> [bks EXCEPT ![sym] =
                       AsBook(OB!ModifyResult(id, p, q, bks[sym].levels,
                                              bks[sym].orderMap, bks[sym].tid))],
          stats |-> [st EXCEPT !.modified_orders = @ + 1],
          cbs |-> << >>]

\* The symbol whose book a request is for.
SymbolOf(req) == IF req.type = "NEW" THEN req.order.symbol ELSE req.symbol

ProcessOrderRequest(req, bks, st) ==
    CASE req.type = "NEW"    -> ProcessNewOrder(req.order, bks, st)
      [] req.type = "CANCEL" -> ProcessCancelOrder(req.symbol, req.id, bks, st)
      [] req.type = "MODIFY" -> ProcessModifyOrder(req.symbol, req.id, req.price,
                                                   req.quantity, bks, st)

\* What process_order_request still does once the book has been found and
\* a new order counted.  Cancel and modify are applied to a map in which
\* their symbol is present, so their find takes the path it took.
ApplyRequest(req, bks, st) ==
    IF req.type = "NEW" THEN AddToBook(req.order, bks, st)
    ELSE ProcessOrderRequest(req, bks, st)

-----------------------------------------------------------------------------

Init ==
    /\ running = FALSE
    /\ worker = "none"
    /\ ctl = "idle"
    /\ books = << >>
    /\ queue = << >>
    /\ client = [c \in Clients |-> [pc |-> "idle"]]
    /\ stats = ZeroStats
    /\ nextTag = 1
    /\ processed = {}
    /\ callbacks = << >>
    /\ pendingAtStop = {}
    /\ inHand = NoItem

(* Client thread: submit_order / cancel_order / modify_order.             *)

\* if (!running_) throw ...; otherwise build the request.
ClientCheckRunning(c, req) ==
    /\ client[c].pc = "idle"
    /\ nextTag <= MaxRequests
    /\ running
    /\ client' = [client EXCEPT ![c] = [pc |-> "enqueue",
                                        item |-> [tag |-> nextTag, req |-> req]]]
    /\ nextTag' = nextTag + 1
    /\ UNCHANGED <<running, worker, ctl, books, queue, stats, processed,
                   callbacks, pendingAtStop, inHand>>

\* order_queue_.enqueue(request): the SPSC queue is unbounded, so the
\* yield-and-retry loop never spins.
ClientEnqueue(c) ==
    /\ client[c].pc = "enqueue"
    /\ queue' = Append(queue, client[c].item)
    /\ client' = [client EXCEPT ![c] = [pc |-> "idle"]]
    /\ UNCHANGED <<running, worker, ctl, books, stats, nextTag, processed,
                   callbacks, pendingAtStop, inHand>>

(* Worker thread: worker_loop.                                            *)

\* The worker's copy of what process_order_request did.
Processed(r) ==
    /\ books' = r.books
    /\ stats' = r.stats
    /\ callbacks' = r.cbs

\* order_queue_.dequeue() and, in process_*, order_books_.find: a request
\* for a symbol that is not registered is finished here (the early
\* returns); otherwise the worker goes on holding `auto &book = it->second`.
ProcessHead ==
    /\ queue # << >>
    /\ inHand = NoItem
    /\ queue' = Tail(queue)
    /\ IF SymbolOf(Head(queue).req) \in DOMAIN books
       THEN /\ inHand' = Head(queue)
            /\ stats' = CountNew(Head(queue).req, stats)
            /\ UNCHANGED <<books, callbacks, processed>>
       ELSE /\ Processed(ProcessOrderRequest(Head(queue).req, books, stats))
            /\ processed' = processed \cup {Head(queue).tag}
            /\ UNCHANGED inHand

\* Mutation (checks EnqueuedWhileRunningIsProcessed): the loop dequeues
\* only once a batch of two requests is waiting.
WorkerProcessBatched ==
    /\ worker = "loop"
    /\ running
    /\ Len(queue) >= 2
    /\ ProcessHead
    /\ UNCHANGED <<running, worker, ctl, client, nextTag, pendingAtStop>>

\* while (running_) { dequeue; process }
WorkerProcess ==
    /\ worker = "loop"
    /\ running
    /\ ProcessHead
    /\ UNCHANGED <<running, worker, ctl, client, nextTag, pendingAtStop>>

\* Mutation (checks StopDrainsPending): worker_loop without the drain loop.
WorkerStopSeenNoDrain ==
    /\ worker = "loop"
    /\ inHand = NoItem
    /\ ~running
    /\ worker' = "none"
    /\ UNCHANGED <<running, ctl, books, queue, client, stats, nextTag,
                   processed, callbacks, pendingAtStop, inHand>>

\* book->add_order / cancel_order / modify_order on the book found, then
\* the callbacks and counters.  If the control thread erased the book in
\* the meantime the reference dangles and the call runs on freed memory,
\* undefined behaviour.  The outcome taken: the freed storage still holds
\* the book unregister_symbol cleared, the worker's counters and callbacks
\* follow from it, and its write to the book is lost.
WorkerApply ==
    /\ worker \in {"loop", "drain"}
    /\ inHand # NoItem
    /\ LET sym == SymbolOf(inHand.req)
           seen == IF sym \in DOMAIN books THEN books
                   ELSE OB!Put(books, sym, EmptyBook)
           r == ApplyRequest(inHand.req, seen, stats)
       IN Processed([r EXCEPT !.books = IF sym \in DOMAIN books THEN @ ELSE books])
    /\ processed' = processed \cup {inHand.tag}
    /\ inHand' = NoItem
    /\ UNCHANGED <<running, worker, ctl, queue, client, nextTag, pendingAtStop>>

\* the loop condition reads running_ == false: go to the drain loop.
WorkerStopSeen ==
    /\ worker = "loop"
    /\ inHand = NoItem
    /\ ~running
    /\ worker' = "drain"
    /\ UNCHANGED <<running, ctl, books, queue, client, stats, nextTag,
                   processed, callbacks, pendingAtStop, inHand>>

\* while (auto request = order_queue_.dequeue()) process(request);
WorkerDrain ==
    /\ worker = "drain"
    /\ ProcessHead
    /\ UNCHANGED <<running, worker, ctl, client, nextTag, pendingAtStop>>

\* the drain loop found the queue empty: the thread function returns.
WorkerExit ==
    /\ worker = "drain"
    /\ inHand = NoItem
    /\ queue = << >>
    /\ worker' = "none"
    /\ UNCHANGED <<running, ctl, books, queue, client, stats, nextTag,
                   processed, callbacks, pendingAtStop, inHand>>

(* Control thread.                                                        *)

\* start(): running_.exchange(true) (throws if it was true), spawn worker.
Start ==
    /\ ctl = "idle"
    /\ ~running
    /\ running' = TRUE
    /\ worker' = "loop"
    /\ UNCHANGED <<ctl, books, queue, client, stats, nextTag, processed,
                   callbacks, pendingAtStop, inHand>>

\* stop(): running_.exchange(false) (returns at once if it was false) ...
StopBegin ==
    /\ ctl = "idle"
    /\ running
    /\ running' = FALSE
    /\ ctl' = "joining"
    /\ pendingAtStop' = Tags(queue)
    /\ UNCHANGED <<worker, books, queue, client, stats, nextTag, processed,
                   callbacks, inHand>>

\* ... then worker_thread_.join().
StopJoin ==
    /\ ctl = "joining"
    /\ worker = "none"
    /\ ctl' = "idle"
    /\ UNCHANGED <<running, worker, books, queue, client, stats, nextTag,
                   processed, callbacks, pendingAtStop, inHand>>

\* register_symbol(id): false if present, else a new empty book.
RegisterSymbol(sym) ==
    /\ ctl = "idle"
    /\ sym \notin DOMAIN books
    /\ books' = OB!Put(books, sym, EmptyBook)
    /\ UNCHANGED <<running, worker, ctl, queue, client, stats, nextTag,
                   processed, callbacks, pendingAtStop, inHand>>

\* unregister_symbol(id): clear the book, erase it from the registry.
UnregisterSymbol(sym) ==
    /\ ctl = "idle"
    /\ sym \in DOMAIN books
    /\ books' = OB!Erase(books, sym)
    /\ UNCHANGED <<running, worker, ctl, queue, client, stats, nextTag,
                   processed, callbacks, pendingAtStop, inHand>>

\* clear_all_books(): clear() every book; next_trade_id_ is kept.
ClearAllBooks ==
    /\ ctl = "idle"
    /\ books' = [s \in DOMAIN books |->
                   [books[s] EXCEPT !.levels = [x \in Sides |-> << >>],
                                    !.orderMap = << >>]]
    /\ UNCHANGED <<running, worker, ctl, queue, client, stats, nextTag,
                   processed, callbacks, pendingAtStop, inHand>>

Next ==
    \/ \E c \in Clients, req \in Request : ClientCheckRunning(c, req)
    \/ \E c \in Clients : ClientEnqueue(c)
    \/ WorkerProcess \/ WorkerApply \/ WorkerStopSeen \/ WorkerDrain \/ WorkerExit
    \/ Start \/ StopBegin \/ StopJoin \/ ClearAllBooks
    \/ \E s \in Symbols : RegisterSymbol(s) \/ UnregisterSymbol(s)

\* The worker and a thread blocked in join() are scheduled by the OS; the
\* clients and the control thread may stop calling at any time.
Fairness ==
    /\ WF_vars(WorkerProcess \/ WorkerApply \/ WorkerStopSeen \/ WorkerDrain \/ WorkerExit)
    /\ WF_vars(StopJoin)

Spec == Init /\ [][Next]_vars /\ Fairness

-----------------------------------------------------------------------------
(* Properties.                                                             *)

Item == [tag: 1..MaxRequests, req: Request]

TypeOK ==
    /\ running \in BOOLEAN
    /\ worker \in {"none", "loop", "drain"}
    /\ ctl \in {"idle", "joining"}
    /\ DOMAIN books \subseteq Symbols
    /\ \A s \in DOMAIN books : \A id \in DOMAIN books[s].orderMap :
          books[s].orderMap[id] \in [side: Sides, price: InputPrices, quantity: Quantities]
    /\ queue \in Seq(Item)
    /\ \A c \in Clients : client[c] \in [pc: {"idle"}] \cup [pc: {"enqueue"}, item: Item]
    /\ stats \in [DOMAIN ZeroStats -> Nat]
    /\ processed \subseteq 1..MaxRequests
    /\ pendingAtStop \subseteq 1..MaxRequests
    /\ inHand \in Item \cup {NoItem}

\* A step in which the worker processed one request.
Processing == processed' # processed

\* stop() "drains remaining requests before returning": once stop() has
\* returned, and until the engine is started again, every request that was
\* queued when stop() cleared running_ has been processed.  It depends on
\* the order of running_.exchange, the worker's loop test and its drain.
StopDrainsPending ==
    (ctl = "idle" /\ ~running) => pendingAtStop \subseteq processed

\* A request that sits in the queue while the engine is running is
\* eventually processed, whether the engine keeps running or is stopped
\* (then the drain loop takes it).  Needs the worker to be scheduled.
EnqueuedWhileRunningIsProcessed ==
    \A t \in 1..MaxRequests :
        (t \in Tags(queue) /\ running) ~> (t \in processed)

\* Every request that submit_order / cancel_order / modify_order put in the
\* queue (the call returned without throwing) is eventually processed, so
\* a new order gets its order_callback (spec: "order_callback fires exactly
\* once per submitted new order"; "no request enqueued before stop may be
\* lost").
SubmittedIsProcessed ==
    \A t \in 1..MaxRequests : (t \in Tags(queue)) ~> (t \in processed)

\* order_callback(order, true) is fired only for an order the book took:
\* it rests in the book after the call or took part in one of its trades.
AcceptedOrderTaken ==
    [][ Processing =>
        \A i \in 1..Len(callbacks') :
           LET cb == callbacks'[i]
               o  == (IF inHand # NoItem THEN inHand ELSE Head(queue)).req.order
           IN  (cb.kind = "order" /\ cb.accepted) =>
                  \/ /\ o.symbol \in DOMAIN books'
                     /\ o.id \in DOMAIN books'[o.symbol].orderMap
                  \/ \E j \in 1..Len(callbacks') :
                        /\ callbacks'[j].kind = "trade"
                        /\ o.id \in {callbacks'[j].trade.buy_order_id,
                                     callbacks'[j].trade.sell_order_id}
      ]_vars

\* Every trade a book executes reaches trade_callback and total_trades:
\* in each processing step, the number of trade ids a book consumed equals
\* the number of trade callbacks fired (spec 9: the trades of a modify
\* "go through the same trade_callback").
TradesReported ==
    [][ Processing =>
        \A s \in DOMAIN books \cap DOMAIN books' :
           books'[s].tid - books[s].tid =
              Len(SelectSeq(callbacks', LAMBDA cb : cb.kind = "trade"))
      ]_vars

\* spec.md 4.6: books live until unregister_symbol, and registration while
\* the engine runs "must synchronize the map": the book the worker found
\* for the request it is processing is still registered while it uses it,
\* whatever the control thread does meanwhile.
HeldBookRegistered ==
    inHand # NoItem => SymbolOf(inHand.req) \in DOMAIN books

=============================================================================
