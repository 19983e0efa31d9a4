# TLA+ models of the matching engine

This directory holds TLA+ models of the C++ matching engine in `src/`. TLC
checks them. Each module is written from the source, and `PROJECT.json` maps
every modelled definition to the lines it translates.

## The system

| Part | Source | Runs on | State |
|---|---|---|---|
| `Order`, `Trade` records | `src/unnamed/part_000` (order.hpp) | — | order id, symbol, side, price, remaining quantity; trade id, buy/sell order ids, price, quantity |
| `PriceLevelImpl` | `src/src/core/orderbook.cpp:13-100` | caller | FIFO `orders_` of shared orders, `total_volume_` (uint32) |
| `OrderBookImpl` | `src/src/core/orderbook.cpp:103-429` | caller | `buy_levels_` (price descending), `sell_levels_` (ascending), `order_map_`, `next_trade_id_` |
| `MatchingEngineImpl` | `src/unnamed/part_006:196-489`, `src/include/core/matching_engine.hpp` | client threads, one worker, control thread | `order_books_` by symbol, `order_queue_` (an `SPSCQueue`), `running_`, `worker_thread_`, `stats_`, two callbacks |
| `SPSCQueue`, `MPMCQueue` | `src/include/utils/mpmc_queue.hpp` | producers, consumers | linked list with head/tail; bounded ring of cells with per-cell sequence numbers |
| `FeedSimulator` | `src/include/network/feed_simulator.hpp:31-213` | one publisher thread, one feed worker, the control thread | an `SPSCQueue` of updates, `sequence_number_`, `running_`, drop/latency configuration, `FeedStats` |
| `ArbitrageDetector` | `src/include/network/feed_simulator.hpp:396-566` | the feed workers, under `mutex_` | per-symbol quotes and trades of feeds A and B, statistics, the last 1000 opportunities |
| `FeedHandler` | `src/include/network/feed_handler.hpp` | the publisher, both feed workers, the control thread | two simulators (A and B), a detector, the engine |
| `main` | `src/matchingengine/src/main.cpp` | the main thread, with SIGINT/SIGTERM handlers on its stack | `g_running` (atomic bool), the default spdlog logger and its sink mutex, the parsed symbols |
| Demos, benchmarks, tests, build | `unnamed/part_001..006`, `tests/` | — | — |

How the parts interact:
- Client threads call `submit_order`, `cancel_order` or `modify_order`. Each checks `running_`, then enqueues an `OrderRequest`.
- The worker (`worker_loop`) dequeues requests while `running_` holds. Each one goes through `process_order_request` to the symbol's book, which fires `order_callback` and `trade_callback`.
- `stop()` clears `running_` and joins the worker. The worker then drains the queue before exiting.
- `register_symbol`, `unregister_symbol` and `clear_all_books` change `order_books_` from the control thread, with no lock.
- `main` parses its options, sets up spdlog, splits `--symbols` at commas, installs `signal_handler` for SIGINT and SIGTERM, and sleeps in `while (g_running)`. The handler logs and clears `g_running`. The engine and feed handler are still TODO comments in `main`.
- The feed handler publishes every quote and trade to feed A and then to feed B. Each feed's worker applies latency and drops and calls `process_feed_update`. That passes the update to the detector under its mutex and, for feed A quotes only, submits a synthesised bid and ask to the engine.

### What is hard to test here

The full list, each hazard with its source line, is in `PROJECT.json` under `hazards`. The main ones:
- **Book maintenance.** The book keeps two structures: the price levels and `order_map_`. Each level also keeps an incremental `total_volume_`. These are updated on separate paths for add, fill-and-pop, partial fill, cancel and modify.
- **Matching.** Matching must follow price-time priority. It must stop exactly when the prices no longer cross, with equal prices trading.
- **Stop/submit race.** Between a client's `running_` test and its enqueue, `stop()` can complete. Separately, the worker's loop test and its drain must together leave no request queued when `stop()` returns.
- **Unsynchronised registry.** The registry and the books are changed by the control thread while the worker processes requests.
- **Queues.** The SPSC queue is used by several producers. Its consumer deletes the node the producer may still hold. In the MPMC ring a thread's position can be a whole round stale when it reaches the cell. The MPMC queue's `size_approx` is wrong at full capacity.
- **Feeds.** `stop()` leaves queued updates behind for the next `start()`. The first delivery is not counted. Sequence numbers must stay increasing across drops and restarts.
- **Signals.** `signal_handler` calls `spdlog::info`, which takes the sinks' mutex. A signal that arrives while `main` is inside an info log runs the handler on the same thread, and that thread then waits for itself.
- **Detector and handler.** The 1000-entry cap on recent opportunities is an off-by-one boundary. The fast feed is chosen from publish timestamps. Only feed A's worker may produce engine orders, since the engine queue is single-producer.

## Modules

### `OrderBook.tla`: one symbol's book (`orderbook.cpp`)

**State**
- `levels[side]` is a function from price to a level record `[orders, volume]`. Its DOMAIN is the set of keys in `buy_levels_` or `sell_levels_`. The price order of `std::map` is modelled by `BestPrice` (Max for bids, Min for asks).
- `orderMap` is `order_map_`, keyed by order id.
- `nextTradeId` is `next_trade_id_`.
- Three history variables: `lastCall`, `lastTrades`, and `arrivals`, the time order of the resting ids.

**Book operations.** Each is a pure operator on the book, so the engine can reuse it:
- `AddOrderResult` models `add_order`: the validation, the duplicate check, `MatchOrder` and `AddToBook`.
- `MatchOrder` covers both `match_buy_order` and `match_sell_order`. It is RECURSIVE, one call per loop iteration. `MatchBest` is the cross test and the `continue` that erases an empty level, and `FillFront` is one fill against the front order.
- `CancelResult` models `cancel_order`.
- `ModifyResult` models `modify_order`: cancel, then add the copy, with the trades discarded.

The level helpers each model one `PriceLevelImpl` method: `LevelAdd`, `RemoveFrontAfterFill`, `UpdateVolumeAfterPartialFill` and `RemoveOrder`.

**Actions.** `AddOrder`, `CancelOrder`, `ModifyOrder` and `Clear`. `Clear` keeps `next_trade_id_`, as the code does.

**Properties**
- `BookNotCrossed` (via `Uncrossed`): the best bid is strictly below the best ask.
- `LevelsMatchIndex` (via `IndexConsistent`): no empty level exists, and levels and `order_map_` name the same orders exactly once.
- `VolumeMatchesOrders` (via `VolumeConsistent`): each level's volume is the sum of its orders' quantities, and no resting order has quantity 0.
- `MatchesFollowPriority` (action): an accepted order's trades equal those of a reference sweep. The sweep is built independently from the arrival history, with `PriorityQueue` and `Sweep`. The check covers the passive ids, prices, quantities and consecutive trade ids, and requires the residual to rest with what is left.
- `TradeSidesCorrect` (action): `buy_order_id` names a buy order and `sell_order_id` a sell order.

### `MatchingEngine.tla`: the engine (`part_006`)

The engine instantiates `OrderBook` as `OB` and stores one book record `[levels, orderMap, tid]` per registered symbol.

**Variables**
- `running` models `running_`.
- `worker` is the worker thread's phase: `none`, `loop` or `drain`.
- `ctl` is the control thread: `idle` or `joining` inside `stop()`.
- `books` models `order_books_`.
- `queue` is the request queue, modelled as an atomic FIFO.
- `client` is each client thread's pc and the request it is submitting.
- `stats` models `stats_`.
- `inHand` is the request whose book the worker has found in `order_books_` and still holds by the reference `it->second`, or `NoItem`.
- History variables: `nextTag`, `processed`, `callbacks` (the callbacks fired by the last processing step) and `pendingAtStop`.

**Actions**

| Action | Code |
|---|---|
| `ClientCheckRunning(c, req)` | the `running_` test of `submit_order` / `cancel_order` / `modify_order` |
| `ClientEnqueue(c)` | the enqueue loop of those calls; the SPSC queue is unbounded, so it never retries |
| `WorkerProcess` | in `while (running_)`: the dequeue, the `total_orders` count of a new order (`CountNew`, line 246) and `order_books_.find`; an unknown symbol finishes the request here (the early returns) |
| `WorkerApply` | the rest of `process_*` on the book found (`ApplyRequest`, `AddToBook`): `add_order`/`cancel_order`/`modify_order`, the callbacks and the counters |
| `WorkerStopSeen` | the loop test reading `false` |
| `WorkerDrain` | the dequeue and find of one drain iteration |
| `WorkerExit` | the drain found the queue empty |
| `Start` | `start()` |
| `StopBegin` | `running_.exchange(false)` in `stop()` |
| `StopJoin` | `join()` returning |
| `RegisterSymbol`, `UnregisterSymbol`, `ClearAllBooks` | the registry calls |

Processing is split at `order_books_.find` because the registry calls run on the control thread with no lock and can change the map between the find and the use of the book. If the book was erased meanwhile, the reference dangles: undefined behaviour. `WorkerApply` takes the outcome in which the freed storage still holds the book that `unregister_symbol` cleared, so the counters and callbacks follow from an empty book and the write to it is lost.

Processing a request is `ProcessOrderRequest`, which dispatches to `ProcessNewOrder`, `ProcessCancelOrder` or `ProcessModifyOrder`. Each applies the `OB` operators and updates the statistics and callbacks as the code does.

**Properties**
- `StopDrainsPending`: once `stop()` has returned, every request queued at the stop has been processed.
- `EnqueuedWhileRunningIsProcessed` (liveness).
- `SubmittedIsProcessed` (liveness).
- `AcceptedOrderTaken` (action): an order reported accepted rests in the book or traded.
- `TradesReported` (action): every trade id a book consumes reaches a trade callback.
- `HeldBookRegistered`: the book the worker holds for its current request is still registered (spec.md 4.6: registration while running requires a synchronised map).

### `Fifo.tla` and `SPSCQueue.tla`: the linked queue (`mpmc_queue.hpp:247-392`)

`Fifo` is the abstract queue: a sequence `items` and the last result `got`, with `Enqueue`, `Dequeue` and `DequeueEmpty`.

`SPSCQueue` models the heap of nodes.
- **State.** `next` (each node's `next` pointer), `allocated`, `freed`, `head_`, `cached_head_`, `cached_tail_`, each producer's `pc` and `newNode`, and the consumer's `got`. `tail_` is written but never read, so it is left out.
- **Producer.** `enqueue` is three steps: `EnqueueAlloc` (`new Node`), `EnqueueLink` (`cached_tail_->next = new_node`) and `EnqueueFinish` (`cached_tail_ = new_node`, the `tail_` store).
- **Consumer.** `Observed` is the node whose `next` `dequeue` reads, after its `cached_head_` refresh. `DequeueTake` advances `head_` and `cached_head_` and deletes the old head. `DequeueEmpty` returns nullopt.
- **Properties.**
  - `FifoRefinement` is `Fifo!Spec` under the mapping `items <- ChainFrom(head_)`, the values linked after the head.
  - `NoUseAfterFree`: no pointer the code still uses names a deleted node.
  - `EnqueuedIsDequeued` (liveness): an enqueued value is eventually returned.

### `Pool.tla` and `MPMCQueue.tla`: the Vyukov ring (`mpmc_queue.hpp:22-224`)

`Pool` is the abstract bounded queue: a bag of at most `Capacity` pending values, with `got` per consumer. The ring does not keep FIFO order between concurrent producers, so the bag is what it promises.

`MPMCQueue` has the cells' `sequence` and `data`, `enqueue_pos_`, `dequeue_pos_`, and per thread its `pc`, `pos`, `tries` and `got`.
- **Steps.** Each thread's shared-memory accesses are separate steps. `Call` starts `enqueue`/`dequeue`. `LoadPos` is the relaxed position load and `CheckCell` the sequence load with its three-way test. `CasPos` is the compare-exchange, with real and spurious failure. `Publish` and `Release` are the data access with the release store. `GiveUpOrRetry` is the `max_retries` loop.
- **Operators.** `empty` and `size_approx` read the positions.
- **Properties.**
  - `PoolRefinement` is `Pool!Spec` with `pending <- PendingBag`, the values in full cells.
  - `CellOwnersExclusive`: no two threads hold one cell.
  - `SizeApproxExact`: with no call in progress, `size_approx()` is the number of values held.

### `FeedSimulator.tla`: one feed (`feed_simulator.hpp:31-213`)

An update is abstracted to its sequence number. `pending_updates_` is an `SPSCQueue` with one producer, which `spsc_single_producer` shows behaves as an atomic FIFO, so it is one here.
- **State.** `running_`, the worker's phase, the control thread (`ctl`), `sequence_number_`, `pending`, the update in the worker's hands (`current`), `received` and `dropped` from `FeedStats`, and whether `last_update` is set (`hasLast`). `delivered` (the callback's arguments) and `stoppedAt` are observations.
- **Actions.** `Publish` is `publish_quote`/`publish_trade`. `Start` is `start()`. `StopBegin` and `StopJoin` are `stop()`'s exchange and join. The `worker_loop` steps are `WorkerTest`, `WorkerDequeue`, `WorkerDrop` and `WorkerDeliver`. The latency sleep and the random drop are a nondeterministic choice between the last two.
- **Properties.**
  - `DeliveredInSequence`: each feed's callback sees strictly increasing sequence numbers.
  - `UpdatesAccounted`: each published update is pending, in hand, dropped or delivered.
  - `QueuedIsHandled` (liveness): a queued update is handled unless the feed stops.
  - `DiscardedOnStop` (action): spec.md section 5 says updates queued at a stop are discarded.
  - `ReceivedCountsDelivered`: `messages_received` equals the number of callbacks.

### `FeedHandler.tla`: the handler and the arbitrage detector (`feed_handler.hpp`, `feed_simulator.hpp:325-566`)

`FS == INSTANCE FeedSimulator` with `Feeds <- {"A", "B"}` supplies both feeds.
- **Handler state.** `payload[f][s]` is the quote or trade feed `f` numbered `s`. `pub` is the update the publisher still owes feed B, and `clock` the next timestamp tick.
- **Detector state.** `quotes` and `tradeTimes` (`symbol_states_`, `trade_timestamps_`), `recent` (`recent_opportunities_`) and the integer counters of `ArbitrageStats`. `history`, every opportunity recorded, is an observation.
- **Engine input.** `nextOrderId` is `generate_order_id`'s static counter and `submitted` the orders passed to `submit_order`. What the engine does with them is `MatchingEngine`'s business.
- **Publishing.** `PublishA` and `PublishB` are the two halves of `FeedHandler::publish_quote`/`publish_trade`. Each half stamps the `Quote`/`TradeTick` timestamp, so A's is earlier, and publications are more than 1 ms apart.
- **Control.** `HandlerStart` and `HandlerStopBegin` are `start()` and `stop()`, feed A first. `FS!StopJoin` is the join.
- **Workers.** `Worker(f)` is feed `f`'s worker. Its delivery step runs `ProcessFeedUpdate`: `OnFeedUpdate` (`process_quote` with `CheckArbitrage`, or `process_trade`) as one step, because `on_feed_update` holds `mutex_` throughout, followed by `Synthesize` (feed A quotes become `MakerOrders`).
- **Properties.**
  - `RecentIsLatest`: `recent` is exactly the last `RecentCap` opportunities recorded.
  - `ProfitableCounted`: `profitable_opportunities` counts exactly the recorded opportunities whose quotes cross. That is spec.md 4.8's definition, written independently of `profit_basis_points`.
  - `FastFeedIsAhead`: the `fast_feed` of an opportunity is the feed whose quote is the more recent publication.

### `MainProgram.tla`: the program (`matchingengine/src/main.cpp`)

`main.cpp` is one thread. Signals are the only concurrency: a handler runs on top of whatever `main` or an outer handler was doing.
- **State.** `pc` is main's position. `level` is the `--log-level` string, `affinity` is `--cpu-affinity`, and `input` is `--symbols`. `symbols` is the vector built from them and `gRunning` is `g_running`. `installed` records that `std::signal` was called.
- **Logging.** `lock` is the spdlog sink mutex: "none", "main" or the signal whose handler holds it. `InfoLogged(level)` is spdlog's filter. `warn` and `error` drop info messages, and an unknown level leaves the logger at info.
- **Main's steps.**
  - `Parse` may end in `--help` or in the catch block.
  - `SetupLogging` is `setup_logging`.
  - Every log call is `LogEnter` then `LogLeave`, a critical section of the mutex whenever the level lets the message through. `MainOrder` has one site per call, and gives the step that follows each site. The two TSC logs are separate sites; the calibration between them holds no lock.
  - `Split` is the `find`/`substr`/`erase` loop. Its value is `SplitAtCommas`, a RECURSIVE operator that follows the loop.
  - `Install` is the pair of `std::signal` calls.
  - `Affinity` takes the `--cpu-affinity` branch. `pthread_setaffinity_np` may fail, so that is a free choice.
  - `Loop` is one test of `while (g_running)`.
  - `Return` is `return 0` or the catch block's `return 1`.
- **Signals.**
  - `Deliver(s)` before `Install` ends the process: pc becomes "killed".
  - After `Install`, `Deliver(s)` pushes a handler frame onto `frames`. The frame runs `HandlerLogEnter`, `HandlerLogLeave` and `HandlerStore` (`g_running = false`).
  - Main takes no step while a frame is on its stack.
- **Properties.**
  - `SymbolsAreFields`: after the split, `symbols` equals `ExpectedSymbols(input)`. That reference is defined declaratively from the comma positions: every field, with an empty last field dropped. It is checked against `SplitAtCommas` for every string of length up to 4.
  - `InterruptEndsProgram`: a signal delivered after installation eventually ends the program. This is violated; see below.

### MC modules

`MC_MainProgram.tla` fixes the alphabet of symbol characters. `MC_OrderBook.tla`, `MC_MatchingEngine.tla`, `MC_SPSCQueue.tla`, `MC_MPMCQueue.tla`, `MC_FeedSimulator.tla` and `MC_FeedHandler.tla` declare the model values, the symmetry sets and small constant sets. `MC_MatchingEngine.tla` also defines `MC_ProcessOrderRequest` and `MC_AddToBook`, explained under Fairness.

## Runs

| Run | cfg | Expect | What it shows |
|---|---|---|---|
| orderbook_safety | `MC_OrderBook.cfg` | pass | Any sequence of add, cancel, modify and clear keeps the book uncrossed, indexed, with exact volumes, and every fill follows price-time priority (about 52k states). |
| orderbook_trade_sides | `MC_OrderBook_TradeSides.cfg` | violation | A resting buy at 1 hit by a sell at 1 gives `buy_order_id` = the sell order: `match_sell_order` passes (sell, buy) to a `Trade(id, buy, sell, …)` constructor (orderbook.cpp:206). |
| engine_safety | `MC_MatchingEngine.cfg` | pass | Across all interleavings of a client, the worker and the control thread, `stop()` never returns with a request queued at the stop still unprocessed. This includes a registry call between the worker's find and its use of the book, as well as `clear_all_books` and re-register. |
| engine_liveness | `MC_MatchingEngine_Live.cfg` | pass | A request queued while the engine runs is eventually processed (about 599k states). |
| engine_submit_stop_race | `MC_MatchingEngine_Submitted.cfg` | violation | See the race below. |
| engine_unregister_race | `MC_MatchingEngine_Registry.cfg` | violation | See the registry race below. |
| spsc_single_producer | `MC_SPSCQueue.cfg` | pass | With one producer, the linked queue implements `Fifo`, never touches a deleted node, and returns every value (about 1.2k states). |
| spsc_two_producers | `MC_SPSCQueue_TwoProducers.cfg` | violation | Two producers both link after the same `cached_tail_`, and one value is lost. The engine's `submit_order` exposes the queue to every client thread. |
| mpmc_safety | `MC_MPMCQueue.cfg` | pass | Two producers and two consumers on a ring of two cells that wraps: it implements `Pool`, and no cell has two owners (about 259k states). |
| feed_safety | `MC_FeedSimulator.cfg` | pass | Publisher, worker and stop/start interleaved: deliveries stay in sequence, every update is accounted for, and queued updates are handled (560 states). |
| handler_safety | `MC_FeedHandler.cfg` | pass | The publisher, both feed workers and start/stop interleaved: recent opportunities and profitable counts are exact. |
| main_program | `MC_MainProgram.cfg` | pass | For every log level, affinity choice and `--symbols` string of up to 4 characters, with one SIGINT at any point: the split gives exactly the comma fields (about 27.5k states). |

The submit/stop race in `engine_submit_stop_race` runs in this order:
1. A client passes `if (!running_)`.
2. `stop()` clears `running_`.
3. The worker sees it, drains an empty queue and exits, and `join` returns.
4. The client enqueues. Nothing will ever dequeue that request.

The registry race in `engine_unregister_race` runs in this order:
1. The control thread registers symbol 1 and starts the engine; a client submits a new order for symbol 1.
2. The worker dequeues it and `process_new_order` finds the book (`part_006:249`).
3. The control thread calls `unregister_symbol(1)`, which clears the book and erases it (`part_006:420-421`).
4. The worker calls `book->add_order(order)` through the reference it took at line 261: a use after free. The UnregisterSymbol test calls it on a started engine, and spec.md 4.6 asks for a synchronised map.

Seven more properties are stated in the modules and found violated by TLC, but no run checks them. The runs are kept to one per question, so these are listed here instead. To reproduce one, add it to the named cfg:
- `InterruptEndsProgram`. Add it as a PROPERTY to `MC_MainProgram.cfg`, in place of the others. TLC finds this trace:
  1. The log level is one that prints info.
  2. `main` installs the handlers and enters `spdlog::info("Initializing matching engine...")` (line 145), taking the sink mutex.
  3. SIGINT arrives. The handler's `spdlog::info` waits for the mutex that `main` holds, on the same thread.
  4. Nothing can ever run again, so Ctrl+C hangs the program. `spdlog::info` is not async-signal-safe.

  The same happens for every log at lines 123-161. It also happens for a SIGTERM delivered inside the SIGINT handler's own log.
- `TradesReported`. Add it as a PROPERTY to `MC_MatchingEngine.cfg`. A crossing `modify_order` executes trades, and `add_order`'s result is discarded (`orderbook.cpp:362`), so those trades reach neither `trade_callback` nor `total_trades`. A unit test of modify reaches this too.
- `AcceptedOrderTaken`. Add it as a PROPERTY to `MC_MatchingEngine.cfg`, with `Quantities = {0, 1}` and `MaxRequests = 2`. An order of quantity 0 is reported `order_callback(order, true)` though the book rejected it.
- `DiscardedOnStop`. Add it as a PROPERTY to `MC_FeedSimulator.cfg`. An update published before `stop()` returned stays in `pending_updates_` and is delivered after the next `start()`, whereas spec.md section 5 says it is discarded. No driver restarts a feed.
- `SizeApproxExact`. Add it as an INVARIANT to `MC_MPMCQueue.cfg`. A full ring of two cells reports `size_approx() == 0` and `empty() == false` (`mpmc_queue.hpp:213`).
- `ReceivedCountsDelivered`. Add it as an INVARIANT to `MC_FeedSimulator.cfg`. After the first delivery, `messages_received` is still 0, because it is counted only once `last_update` is set (`feed_simulator.hpp:133`).
- `FastFeedIsAhead`. Add it as an INVARIANT to `MC_FeedHandler.cfg`. Feed A delivers publication 2 while B still holds publication 1, and the opportunity names B, the lagging feed, as `fast_feed`. The timestamps are taken at publication (`feed_simulator.hpp:249`), so the smaller one belongs to the older quote.

Every property of a passing run has a mutant in `PROJECT.json`: a plausible bug in a mapped definition that TLC then catches.

| Property | Mutant |
|---|---|
| `BookNotCrossed` | `CrossesStrict`: stops at equal prices |
| `LevelsMatchIndex` | `CancelKeepLevel`: cancel keeps an empty level |
| `VolumeMatchesOrders` | `RemoveFrontStale`: the pop does not subtract |
| `MatchesFollowPriority` | `LevelAddAtFront`: FIFO violated |
| `TypeOK` | `ReduceQuantitySwapped`: the uint32 decrement wraps |
| `StopDrainsPending` | `WorkerStopSeenNoDrain`: no drain loop |
| `EnqueuedWhileRunningIsProcessed` | `WorkerProcessBatched`: waits for a batch of two |
| `NoUseAfterFree` | `DequeueTakeDeleteNext`: deletes the new head |
| `FifoRefinement` | `DequeueTakeOldHead`: returns the old head's value |
| `EnqueuedIsDequeued` | `DequeueTakeHeadFirst`: trusts a stale head and reports empty |
| `TypeOK` (SPSC) | `DequeueTakeUnchecked`: no null check |
| `CellOwnersExclusive` | `CheckCellNoFullTest`: takes a cell still behind `pos` as ready |
| `PoolRefinement` | `ReleaseSameRound`: releases the cell with `pos + 1` instead of `pos + Size` |
| `TypeOK` (MPMC) | `GiveUpOrRetryOffByOne`: one retry too many |
| `DeliveredInSequence` | `StartResetsSequence` |
| `UpdatesAccounted` | `WorkerDropUncounted` |
| `QueuedIsHandled` | `WorkerDequeueExitOnEmpty` |
| `TypeOK` (feed) | `WorkerDropNoContinue`: a drop falls through to delivery |
| `RecentIsLatest` | `KeepRecentEarly`: trims at 1000 instead of beyond |
| `TypeOK` (handler) | `KeepRecentLate`: keeps 1001 |
| `ProfitableCounted` | `ProfitableOneWay`: only buy-on-A/sell-on-B counts |
| `TypeOK` (main) | `SplitAtCommasWithComma`: `substr(0, pos + 1)` keeps the comma |
| `SymbolsAreFields` | `SplitAtCommasNoTail`: the last symbol is not pushed |

## Bounds and why they are enough

**OrderBook**
- Constants: 3 order ids (symmetric), prices {0,1,2}, quantities {0,1,2}, trade ids up to 7.
- Price 0 and quantity 0 exercise the validation branch.
- Two prices per side allow a sweep across levels.
- Three orders allow two makers at one level (FIFO) plus a taker, and partial fills on both sides.
- The guard `nextTradeId + |orderMap| <= MaxTradeId` is the bound on trade ids.

**MatchingEngine**
- Constants: one client, one symbol, 2 order ids, prices {1,2}, quantities {1,2}, at most 3 requests.
- Three requests are enough to see a request enqueued before a stop and one after, and two orders that trade.
- The control thread can register, unregister, clear and restart at any point, so every ordering of these against the worker is checked.
- The violation runs need only the first two requests.

**SPSCQueue**
- Constants: one producer and five nodes: the dummy and four payloads.
- Three enqueues let the consumer delete a node the producer still holds, and empty the queue between enqueues.
- The two-producer run needs two.

**MPMCQueue**
- Constants: two producers, two consumers, `Size = 2`, `MaxRetries = 2`, and 3 enqueue calls in all.
- Three values on a ring of two make positions wrap to cell 0 in the second round. A stale `pos` then meets a cell of a later round, and a full ring exists for `size_approx`.
- Symmetry over producers and over consumers is sound here because no run with symmetry checks liveness.

**FeedSimulator**
- Constants: one feed and three publications, with unbounded stop/start cycles.
- The feeds share no state, so a second feed only multiplies the states.

**FeedHandler**
- Constants: one symbol, quotes `<<1,2>>`, `<<2,3>>`, `<<3,4>>`, three publications, `RecentCap = 2` and one `start()` (`MaxStarts = 1`).
- Three different consecutive quotes give three recorded opportunities, which exceed the cap of 2. They also give crossed pairs both ways (A's bid above B's ask and the reverse) and touching pairs (bid = ask), which are not profitable.
- Start, stop and join happen once each, as in `main` and every test. Restart of a feed is checked in `feed_safety`.
- Once the handler has stopped and the publisher is done the program has ended, so deadlock checking is off for these runs.

**MainProgram**
- Constants: symbols over `{"A"}` and the comma, every string up to 4 characters (31 inputs), all five log levels, both affinity settings, and one SIGINT.
- Strings of length 4 include every shape the loop treats differently: leading, trailing and doubled commas, and no comma at all.
- The single SIGINT can arrive at any step, including before `std::signal` and while the handler is not yet installed.
- A second signal (SIGTERM inside the SIGINT handler, or during the shutdown log) only adds the same self-deadlock, which `InterruptEndsProgram` shows with one. No passing property is about the stop path: with one signal, nothing can block `main` once `g_running` is cleared.
- The program returns or is killed, so deadlock checking is off.

## Fairness

- **Worker.** `worker_loop` always makes progress when scheduled, because every branch of `process_order_request` returns. The OS scheduler is assumed to run a thread that stays runnable, which gives weak fairness on the worker's actions.
- **`stop()`.** A thread blocked in `join()` resumes once the worker exits, which gives weak fairness on `StopJoin`.
- **Clients and control thread.** These get no fairness: they may stop calling at any time.
- **Queue consumers.** The SPSC consumer loop gets weak fairness. Both callers of `dequeue` (the engine worker and the feed worker) poll it while running. The MPMC run checks no liveness and assumes no fairness.
- **Feed workers.** Each feed worker thread gets weak fairness on its steps. `worker_loop` never blocks except in a bounded sleep.
- **`main`.** The main thread and a running handler get weak fairness: `main` sleeps a bounded time per loop iteration. Signals get none; they may never come.
- **Cost of ENABLED.** TLC does not cache values while it evaluates ENABLED. That makes the recursive book computation inside the worker's fairness condition very costly.
- **The liveness runs' override.** The liveness runs replace `ProcessOrderRequest` by `MC_ProcessOrderRequest`, through a cfg override, and this is sound. `AddToBook`, the step after the book was found, is replaced the same way by `MC_AddToBook`. Both operators return the books and statistics unchanged. It is a sound abstraction for properties about which requests get processed, because the control flow of the worker and the queue does not depend on the book contents. The book contents are checked by the safety runs.

## Not modelled, and why

Within the modelled components:
- **MatchingEngine's queue.** `MatchingEngine` uses an atomic FIFO for the request queue rather than the `SPSCQueue` model, Two runs cover the queue separately. `spsc_two_producers` shows what the several submitters do to the real queue. The registry calls are each one step; the race they have with the worker is modelled at the worker's side, between its find and its use of the book, which is where it bites.
- **Queue internals.** `SPSCQueue`'s move constructor and destructor, and `MPMCQueue`'s destructor, are called by no modelled caller.
- **Feed configuration.** `FeedSimulator::set_volatile_market` and `set_callback` are not actions. Volatility changes only the simulated latency, which is already a free choice. The callback is set once, before `start()`. The latency and jitter statistics are also left out.
- **Detector statistics.** The double-valued statistics (`total_profit_bps`, the latency sums) are read only by printing.
- **Readers.** `get_stats`, `get_recent_opportunities` and `print_stats` only read.
- **The engine in the handler.** `FeedHandler` stops at the orders it submits. `MatchingEngine` covers what happens to them. In the repository's drivers no symbol is registered, so every synthesised order is rejected.

- **`main`'s unbuilt parts.** `calibrate_tsc_frequency` and the metrics server come from `utils/time_utils.hpp` and `monitoring/metrics_server.hpp`. Neither header is in the repository, and `main.cpp` is not in the CMake build. The calibration is an opaque step between two logs. The metrics server, engine and feed handlers in `main` are TODO comments. The numeric options are only printed, and cxxopts' parse errors are the catch block.

Left out for good:
- Console demos and benchmarks, which only print.
- The tests, which are used as statements of intended behaviour.
- Timing values such as latencies, which become nondeterministic choices. Timestamps become publication ticks.
- Formatting.
- The uint32 overflow of `total_volume_`. TLC's integers cannot reach 2^32 with small quantities; the hazard is recorded.
