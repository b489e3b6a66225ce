# A verification project for the market data decoder

TLA+ specifications of the exchange market data decoder, the TLC configurations
that model-check them on small instances, and TLAPS proofs of what matters most
for every value of the constants. Every definition is translated from the
source; `PROJECT.json` maps each one to the lines it stands for.

## The system

| Component | State | Operations | Interacts with |
|---|---|---|---|
| `SpscRingBuffer` (`include/ring_buffer.hpp`) | slots, `head_`, `tail_` | `push`, `pop`, `size_approx` | one dispatcher thread pushes, one worker thread pops, the owner's thread polls the size |
| `OrderBook` (`include/order_book.hpp`) | quantity per level and side, best indices, base price, drop counter | `init`, `add`, `reduce`, accessors | written by one worker; read by the aggregator, the guard, Python |
| Wire protocol (`include/protocol.hpp`) | none | five message structs, `msg_size` | everything |
| `Normalizer` (`include/normalizer.hpp`) | per shard a queue, an order map, books, counters; `stop_` | `start`, `dispatch`, `drain_and_stop`, `apply`, `worker_loop` | one worker thread per shard; a caller that dispatches |
| `MarketSimulator` (`include/market_simulator.hpp`) | reference prices, live orders, next id | `next_message` | the source of every message |
| Offline pipeline (`OfflineBooks`, `tests/correctness_test.cpp`, `src/decoder_bench.cpp`) | - | generate, dispatch with retry, drain | simulator, normalizer |
| `LiveFeed` (`include/live_feed.hpp`) | two threads, a packet, `publisher_done_`, counters, latency samples, `running_`, `drained_` | constructor, `start`, `wait`, destructor, `received_so_far`, `publish_loop`, `receive_loop` | simulator, UDP sockets, normalizer, its owner's thread |
| UDP sockets (`include/multicast_udp.hpp`) | the receive buffer of the system | `send`, `recv` with a time-out | live feed |
| `VenueFeed` (`include/venue_feed.hpp`) | a simulator, an order map, a book | `step` | the aggregator reads its book |
| `NbboAggregator` (`include/nbbo.hpp`) | none | `best_bid`, `best_offer`, `classify`, scanning oracles | books of all venues |
| `TradeThroughGuard` (`include/trade_through_guard.hpp`) | none | `evaluate` | aggregator, books |
| `QueuePositionBook`, `FastAheadTracker` (`include/queue_book.hpp`) | a list of orders per level, an id map, a sequence counter; a position | `apply`, `qty_ahead_of_seq`, `consume` | the backtest |
| `BacktestEngine` (`include/backtest_sim.hpp`) | two books, active hypothetical orders, results | `run` | simulator, both books |
| Fault injection (`src/nbbo_fault_injection.cpp`) | scenarios constructed and caught, false positives | search for a scenario, inject an order, clean sessions | venues, aggregator, guard |
| Python extension (`python/mdfeed_ext.cpp`) | views on the books' memory | reads of levels and of the touch, polling | the books, while a worker writes them; the live feed |
| Benchmarks, demo, CLIs, statistics | - | - | not modelled, see the end |

What is hard here: the ring buffer and its memory order; three to five threads
that hand messages over through queues which refuse when full; a drain that
polls an approximate size while a worker still applies; datagrams dropped by the
socket; the end of the live feed, where a time-out races with the last datagram;
a second `start()`; a Python thread that polls the feed and reads books while a
worker writes them, with no synchronization at all; and state that is maintained incrementally (best indices,
depth, queue positions) through any mix of partial executions, cancels, deletes
and replaces at prices that drift out of the band. What makes each component
right is the "properties" column of the next table; the hazards, line by line,
are in `PROJECT.json`.

## Modules

| Module | Models | Composed from |
|---|---|---|
| `SpscRing` | `push`, `pop`, `size_approx`, one step per shared access | - |
| `BoundedFifo` | abstract: a bounded queue with one producer and one consumer | implemented by `SpscRing` |
| `OrderBook` | a book as a record; `BookAdd`, `BookReduce` | - |
| `Protocol` | the messages and `Normalizer::apply()` on orders and one book (`Apply`) | `OrderBook` |
| `Normalizer` | routing, shard queues, workers, `drain_and_stop()`, with a caller that may dispatch any message | `Protocol` |
| `InstrumentReplay` | abstract: each instrument replayed alone, in order, without shards | implemented by `FeedReplay` and `BookReader` |
| `MarketSimulator` | `next_message()`, every draw a choice | `Protocol` |
| `FeedReplay` | the offline pipeline | `Normalizer`, `MarketSimulator` |
| `Udp` | one sender, one receiver and the system's receive buffer, which drops | - |
| `LiveFeed` | constructor, publisher, receiver, `start`, polling, `wait`, destructor | `Normalizer`, `MarketSimulator`, `Udp` |
| `BookReader` | one book, its worker store by store, and a Python thread load by load; implements `InstrumentReplay` | `MarketSimulator` |
| `VenueFeed` | any number of venues, each with its `step()` | `MarketSimulator` |
| `Nbbo` | the aggregator and the guard, as operators on the venues' books | `VenueFeed` |
| `FaultInjection` | the fault-injection harness: both its parts, on the venues | `Nbbo` |
| `QueueBook` | the FIFO book and the tracker, as operators | `Protocol` |
| `Backtest` | `BacktestEngine::run()` | `QueueBook`, `MarketSimulator` |
| `SpscRingProofs`, `NormalizerProofs`, `VenueProofs`, `LiveFeedProofs`, `BookReaderProofs`, `BacktestProofs` | theorems, each with its inductive invariant | the component, and the next row; the live feed's on the normalizer's |
| `ProtocolProofs`, `SimulatorProofs` | the lemmas they share: sums, books, `Apply`, `next_message()` | the module of that name |
| `MC*` | instances for TLC | the module of that name |

How they correspond to the code:

- **Ring.** A call of `push()` is `PushCheck` (the load of `tail_`), `PushWrite`
  (the copy into the slot), `PushPublish` (the release store of `head_`), or
  `PushFull`; `pop()` likewise. `headVis` and `tailVis` are what the acquire
  loads of the other thread return: they follow the stores in `Propagate` steps,
  so a store may be seen arbitrarily late. The slot copies are separate steps and
  therefore show a race if there is one (`NoSlotRace`). The remainder stands for
  the mask; it is the same for the powers of two the code asks for.
- **Queues.** In `Normalizer` a shard queue is the bounded sequence that
  `SpscRing` is shown to implement; `Room` is the capacity less the slot the
  ring leaves empty. (The ring may also refuse, or look empty, on an index that is
  seen late; that is as if the other thread were behind by so much, since the two
  meet at the queue only.)
- **Workers.** `worker_loop()` is `WorkerPop`, `WorkerApply`, `WorkerFindsEmpty`,
  `WorkerChecksStop`; popping and applying are separate, so the drain loop can see
  an empty queue while a message is being applied. No other thread writes a
  shard's orders and books, so applying is one step.
- **Books.** `bestBid` and `bestAsk` are indices with the sentinels of the code
  (-1 and the number of levels). `IndexOf` narrows the 64-bit difference to an
  `int` by wrapping it at `IntRange`, and `LevelTotal` narrows the total of a level
  to the same width, as `level_total_qty()` does.
- **Generator.** Seeds, probabilities and distributions are dropped: a draw is
  any value of its range, and every choice the code makes with it is a disjunct.
- **Socket.** `Udp` keeps the datagrams in order. `Send` appends one if there is
  room or loses it, at any time: nobody looks at what `sendto()` returns.
  `recv()` times out only on an empty buffer.
- **Live feed.** Each line of the owner's calls after which another thread may
  act is a step: the constructor (which may throw for the socket, before any
  thread exists), `StartFeed` with its two refusals as guards, `Poll` and
  `PollEnds` for the loop on `running` and `received_so_far`, and `wait()` as two
  joins, the drain and what follows. In the receiver, a message is taken out of
  the datagram and its sample appended (`Unpack`), then dispatched and counted
  (`Dispatch`, whatever `dispatch()` returns), and the snapshot is made at the end
  of the datagram (`EndDatagram`). `latencyRoom` is the capacity of the sample
  vector: it changes exactly when `push_back` moves the samples.
- **Reader.** `ApplyStores` lists what memory is after each store of `add()` and
  `reduce()`, in program order, the walk of the best index level by level
  included. The reader's `has_bid()` and the load for the price are two steps, or
  one if the compiler keeps the value. The reads are a
  data race by the letter of C++; the model has what the documented build makes of
  it: on `x86_64` an aligned load does not tear, which is what the extension says,
  stores become visible in order, and the compiler is taken to leave the few stores
  of a message in the order of the source. A worker in
  its store sequence and a reader are all there is to it: no other thread touches
  a book, so one instrument is enough. `steady` and `seen` record which orders
  rested all through a call, and at some moment of it. An order that is executed in
  part meanwhile is one that rested, with the smaller of its quantities (`Staying`).
- **Harness.** The program steps its venues in rounds and tries a bounded number
  of them; `FaultInjection` steps them one at a time, any number, which contains
  every round. `NewSession` builds the venues anew.
- **Time.** Time-outs, spins and yields are steps that may be taken at any time
  their condition holds.
- **Variants.** A definition under a comment `Variant:` is not part of the system:
  it is the neighbouring definition with a plausible mistake, and shows that a
  property notices it.

## Runs

Each takes less than three minutes on two cores. Bounds are constants of the
`.cfg` files.

| Run | Question | Bounds, and why they are enough |
|---|---|---|
| `ring` | No slot race, FIFO, a drain that ends and ends empty; implements `BoundedFifo` | 4 slots, 9 items: both indices wrap twice, full and empty occur at every slot |
| `normalizer` | Types, top of book and complete drain for a caller that dispatches anything | 3 instruments on 2 shards (one shared), 10 messages among them unknown ids, ids used twice, a Replace onto itself, prices out of band; 4 accepted; queues that refuse |
| `feed` | Sharded books equal the single-threaded replay; levels equal orders; the drain ends; implements `InstrumentReplay` | 3 instruments, 2 shards, 3 messages, a queue of 1: refusals, retries and a shared worker; all interleavings. Instrument 0 has orders of up to 2 shares and a price that drifts upwards: executions in part, and after one drift its offers are dropped above a band of 4 levels. The other two only share the queue, the worker and the order map: bids of one share, at a steady price (`MCFetch`) |
| `injection` | Orders, depth and best indices of a venue after every message; NBBO, locked/crossed pairs, guard, for every order around the band; the harness passes | 3 venues, 3 messages a session, 3 ids, quantities to 2 at one of them, drift and offset 1, bands of 4 levels: partial executions and replaces, prices that leave and re-enter the band, ties, locked, crossed and one-sided books all occur; 2 scenarios (a buy, a sell), 4 clean orders (both sides, two of them at the price and two away from it) |
| `reader` | What a read during the run may return; the stores implement `InstrumentReplay` | 1 book of 5 levels, orders up to 3 ticks from the reference so that some fall out of the band, 3 messages, quantities to 2: partial reductions, walks over several empty levels, replaces on one level and across two |
| `backtest` | Positions against the oracle, the two books against each other, one result per order, naive first, fills from the front | 7 messages, 2 bid levels, quantities to 2, a pair at every second message with a life of 3, so that pairs overlap, expire and fill; an integer width of 10 that the prices and the totals (at most 6) just fit |
| `live` | Every message and the statistics accounted for, datagram size, quiescence, joins, termination, samples that stay in place in the first run | 3 messages, a datagram for two, a socket of 1 and a queue of 1: both overflow; a request for a fourth message is refused |
| `venue_reference`, `live_restart`, `live_poll`, `live_samples`, `guard_texts` | Statements of the documentation that the code does not keep | see Findings |

`MaxRefusals` bounds how often a full queue refuses (the program retries without
bound), `MaxItems`, `MaxMessages` and `MaxAccepted` the length of the input,
`MaxOrderId` the ids, `MaxStarts` the calls of `start()`. Deadlock is not checked
where the system really stops: after the last message, after the drain, after
the destructor. The `ring` run, where the system never stops, checks it.

The abstract specifications are properties of three runs: `ImplementsFifo`
maps the ring to the queue of the items between `tail` and `head`, an item being
in the queue from the release store of the producer to that of the consumer;
`ImplementsReplay` maps the shards to one replay per instrument, where the
messages of an instrument are the subsequence of its shard's queue and item, and
its orders those of the shard's map that carry its number. In `reader` the same
abstract step, a whole message at once, is taken when the last store of a message
is done: a store left out or one too many would leave another book.

What a reader gets (`TouchIsRecent`, `DepthIsRecent`) needs saying carefully,
because nothing simpler is true. A call that overlaps a message may return a level
the walk is passing, though no order is there; it may return a price one below the
band, but only if no order rested all through the call; both sides read one after
the other may be crossed; and the levels of a Replace may be seen without either
order. What holds is that no order that rested all through the call, executed in part or
not, is better than the touch returned, that some order of the call was as good, and
that a level is between the orders that rested throughout, each with the smaller of
its quantities, and those that rested at some moment, each with the larger.
The variant `WalkStoresRescan`, which looks for the best level from the far end,
leaves the same book after every message, and only a concurrent reader tells.

### Fairness

Only what the threads justify: each worker, the publisher, the receiver and the
owner's thread *inside* a call or a polling loop keep taking steps (weak fairness of the thread's
own step). Nothing makes a caller dispatch, start, wait or drain, and the ring's
propagation is fair because a store becomes visible eventually. Liveness is
`DrainTerminates` (ring and normalizer) and `WaitTerminates`, which is about every
call of `wait()` and of the destructor that joins or drains, of a feed that was never
started as well. `PollTerminates` is
violated under the same fairness: no step of any thread is left that would end the
loop.

## What is proved

For every number of slots, shards, instruments, orders, venues and levels, and feeds
of any length: every invariant, every action property and every refinement
that a passing run checks (some of them under the hypotheses named at the end of this
section). Only liveness is left to TLC.

- `SpscRingProofs`: `TypeCorrect`, `RaceFree`, `InOrder`, `DrainIsComplete`,
  `RingImplementsFifo`. The inductive invariant is `RingInv`: the type; `IndexInv`,
  that the visible indices lie between the real ones on the circle and how much room
  and content a side that passed its check still has; and `Contents`, that the slots
  from `tail` to `head` are the last items of `pushed`, and `delivered` the ones
  before them. Neither safety property is inductive alone: that two threads are at
  the same slot is excluded only by what their earlier, possibly stale, checks
  guarantee. The circle is handled by a few lemmas about `Distance` and the
  remainder. The refinement reads the abstract queue off the two histories: a
  publishing store appends to it, a releasing one takes its head, all else stutters.
- `ProtocolProofs`, on books: `WalkDown` and `WalkUp` find the next occupied level
  (`LeastNatural`, from the library's well-ordering of the naturals);
  `BookAddKeeps` and `BookReduceKeeps`, that both operations keep `NothingBetter`
  and `BestIsOccupied`; `ApplyKeeps`: a well-formed message leaves a typed order map
  of positive orders and a good book.
- `ProtocolProofs`, on sums. The sums of the model are folds of the community
  modules, of whose value no library theorem speaks. Induction over the set is not
  to be had, so the lemmas go by way of a table of the values on all subsets of a
  finite set and a least counterexample in it: the table exists
  (`SumTableExists`), holds what the fold computes (`SumInTable`), and with that a
  sum splits (`SumSplits`), changes by what one term changes (`SumChanged`), needs
  only the terms that are not 0 (`SumOfSupport`) and is that of the images under an
  injection (`SumOfImages`). Then `ApplyKeepsDepth`: after any message every level
  is still the sum of the orders priced there (`DepthMatches`), provided the new id
  is not in use and the old one is of the same instrument (`FitsMap`). `reduce()`
  clamps, and would lose the sum if a level held less than an order of it.
- `SimulatorProofs`: every message of `next_message()` is well formed, ids are
  given once, and an order map that `Mirrors` the simulator's live orders still
  does after the message is applied to it (`NextMessageFollows`).
- `NormalizerProofs`, for a caller that dispatches any well-formed message:
  `TypeCorrect`, `TopOfBookHolds`, `DrainIsComplete`. `TypedBooks` joins the types
  with "every book is good" because `reduce()` keeps the top of a book only if it
  was right before, and keeps the order map positive only if the types hold.
  `DrainComplete` follows from `Drained`: once draining has passed a shard its
  queue stays empty, since nothing is pending; a worker exits only after the flag,
  which is raised after all queues were empty; and `processed` plus what is queued
  and held equals `accepted`.
- `NormalizerProofs`, with the simulator as the caller: `MatchesReferenceHolds`,
  `LevelsAreOrdersHolds`, `ImplementsReplayHolds`, and `FeedImplementsNormalizer`,
  that this caller is one of those above, so that `FeedIsDrained` needs no proof of
  its own. `FeedInv` adds three things. `Routed`: every id has an owner, the
  instrument whose messages name it, and the state a shard will reach when its
  worker has applied what it holds and what is queued is the part of the reference
  that belongs to its instruments (`LeadsToReference`); without owners two
  instruments of different shards could meet in one order map of the reference and
  not in those of the shards. `Fresh`: the new ids still to be applied are new to
  the shard and differ. `Deep`: levels are sums. The refinement projects a shard's
  queue on an instrument; that the projection of a longer queue is longer by a
  message or the same is again shown by the least counterexample.
- `VenueProofs`: `VenueTypeCorrect`, `OrdersAreLiveHolds`, `DepthIsLiveHolds`,
  `OracleAgreesHolds`, `GuardIsExactHolds`, `InversionIsReportedHolds`,
  `NbboIsBestRestingHolds`. `VenueInv` says that every venue has a good book, as deep
  as its orders, and a map that mirrors its simulator; the messages are well formed
  only because the simulator is, so its state is part of the invariant. What the
  NBBO names is first shown of any typed books (`FirstBest`, `NationalBidIsFirst`,
  `NationalOfferIsFirst`), and the guard is then a case analysis on them.
- `VenueProofs`, on the harness: `HarnessPassesHolds`, `HarnessVenuesHold`,
  `HarnessNbboHolds`. `HarnessInv` is `VenueInv`, which a new session establishes as the
  first one does, with the verdict. A scenario is caught because the NBBO is at least
  as good as the rival's touch and so strictly better than the victim's, and then
  names another venue (`ThroughBuyIsRefused`, `ThroughSellIsRefused`), whichever pair
  the two loops stop at (`FirstPairIsAPair`); a clean order names the venue of the quote.
- `LiveFeedProofs`: `DestroyedIsJoinedHolds`, `LiveTypesHold`, `LiveTopOfBook`,
  `NothingUnaccountedHolds`, `StatsAddUpHolds`, for any number of runs. `ThreadsInv`
  says what each party knows of the threads: the drain loop which workers it has
  joined, and the owner, by `running` and `drained`, whether the publisher and the
  receiver have been joined since the last `start()` and the workers at all. The
  destructor, and `wait()` when called again, decide on nothing else. `TypedLive` joins
  the types of all parts; after a second `start()` the receiver no longer is the caller
  that `Normalizer` expects, so its steps are shown to keep the types anew.
  `CountedInv` adds where the messages are: a thread outside its loop holds none
  (`AtWork`), and the statistics of a finished run are those of the threads
  (`Reported`).
- `LiveFeedProofs`, for the first run of a feed: `WaitQuiescesOnce`,
  `LatencyStaysHolds`. A second `start()` breaks both (runs `live_restart` and
  `live_samples`), so they say "as long as `start()` was called at most once",
  a condition on the state and not on the constants. `LiveInv` is `CountedInv` and, as
  long as that holds, `FirstRun` (while a thread is at work the normalizer is running
  and has the room that the constructor reserved), the `Drained` of the normalizer,
  and `OwnedInv`: the ids of every message in the packet, the socket and the datagram
  have owners, so a lost or refused message does no more harm than to be missing.
- `BookReaderProofs`: `ImplementsReplayHolds`, `TouchIsRecentHolds`,
  `DepthIsRecentHolds`. The stores of `add()` and `reduce()` lead from one whole book
  to the next (`Leads`), and every book on the way has each level as it was or as it
  will be and its best index between the old and the new one (`Between`); a Replace goes
  by way of the book after its Delete (`Halfway`). `WriterInv` says it of memory and of
  the stores still to be made. A reader that finds a best index therefore finds it
  between those of two whole books, of which the orders are known (`TouchBounds`);
  `TouchInv` carries from `has_bid()` to the load of the price that the call has seen an
  order. For a level, the staying orders have one quantity each (`StayingIsOneEach`),
  which is no more than what either whole book has of them (`LeastOfLevel`).
- `BacktestProofs`: `NaiveFillsFirstHolds`, `EveryOrderOnceHolds`. The invariant
  `OrdersOK` adds to them `TwinsTogether`: a tracked order that is still active has
  its naive twin beside it, at the same level and of the same age, or the twin has
  been filled. That is why the tracked order cannot fill first: what fills it is an
  execution at that level, which fills the twin, and the two can only expire
  together. The arguments about one message are lemmas about any set of orders
  (`MessagePairs`, `MessageTwins`, `PlaceKeeps`, `CloseKeeps`).
- `BacktestProofs`, on the two books: `TrackersMatchOracleHolds`, `BooksAgreeHolds`,
  `FillsFromTheFrontHolds`. `BooksInv` says that the queues hold exactly the resting
  orders, each once, in the order of their sequence numbers (`QueuesOrders`), that the
  aggregated book is the sums of the same orders, and that a tracker is at all times
  what a new one would be if it took its place now (`AllTrack`). The oracle's
  quantity ahead is a sum over the orders (`AheadIsSum`), and a message moves it by
  what its reduction reports (`Moves`), whatever its kind. A new tracker takes its
  position from `level_total_qty()`, which is narrowed; that the narrowing changes
  nothing (`TotalIsExact`) is where `TotalsFit` is needed, with a bound on sums
  (`SumIsBounded`) and on the quantity of an order (`OrdersStaySmall`).

Assumptions: the `ASSUME`s on the constants, which TLC evaluates in every run, and
three hypotheses that theorems or properties state themselves.

- `WalkFitsInt` (`NbboIsBestRestingHolds`, `HarnessNbboHolds`) and `WalkFitsBand`
  (`BooksAgreeHolds`): prices cannot walk so far from the band that their distance
  wraps an `int`. `index_of()` narrows that distance, so a price 2^32 ticks away would
  be taken for one in the band. A message moves the price by 3 ticks and an order is at
  most 200 from it: 2^31 ticks take 700 million messages in one direction. The
  constants of the runs satisfy both.
- `TotalsFit` (in `TrackersMatchOracle` and `FillsFromTheFront`): all orders a
  simulator ever adds together have fewer shares than 32 bits count: 8 million orders,
  at its 500 shares or less an order. `level_total_qty()` narrows the total of a level,
  and a level of 2^32 shares would put an order placed behind it at the front; for
  that so many orders would have to rest at one price. `BooksAgree` needs no such hypothesis: it compares
  what the narrowing leaves.
- `starts <= 1` (`WaitQuiescesOnce`, and in `LatencyStaysInFirstRun`), as above.

## What is only model-checked

- Liveness: `DrainTerminates` (of the ring and of the normalizer) and
  `WaitTerminates`. Fairness is out of reach of the prover.
- The violations of the next section, which are counterexamples.

## Findings

Each is a violation run; the texts quoted are in `PROJECT.json`.

1. `venue_reference`: a venue centres its book on the shared price but its
   simulator draws a price of its own, so venues with different seeds trade around
   different prices, and orders more than half a band away are dropped. This is
   why the locked and crossed cases never occurred in the repository's long
   replays; its README ascribes that to chance.
2. `live_restart`: a second `start()` after `wait()` feeds queues whose workers
   have been joined, and the second `wait()` returns with messages in them.
3. `live_poll`: `running` stays true after both threads have ended, until `wait()` is
   called; the loop of the README's Python example, which polls `running` and
   `received_so_far` and calls `wait()` afterwards, spins for ever if the count stays
   below its target. A lost datagram would do that, but the property allows it:
   the run shows that it happens without a loss. The receiver looks at
   `publisher_done_` only after `recv()` timed out, so a last datagram sent between the
   two is never read, although `wait()` is said to block until the socket is quiet.
   (`StatsAddUp` counts such datagrams with the lost ones.)
4. `live_samples`: a second run appends its latency samples to those of the first, and
   `start()` compares its messages with the whole capacity again, so `push_back`
   reallocates in the middle of the run, which `capacity` is documented to prevent. An
   array that Python holds on the samples then points to freed memory.
5. `guard_texts`: the README of the repository (lines 623-625) and the header's comment
   (lines 12-15) describe `TradeThroughGuard::evaluate`, and one state refutes both. An
   order beyond the NBBO, which should be rejected, is accepted when its own venue has
   the NBBO price (and when it rests); an order that is not marketable, which should
   be accepted, is rejected when its venue has nothing on the other side
   (`include/trade_through_guard.hpp:52`). `GuardIsExact` states what the code does, and
   the harness agrees with it.

Two differences need no run: `ahead_qty_at_place` is commented as 0 for the naive model
(`include/backtest_sim.hpp:57`) and is set to the same value for both orders
of a pair (line 204); and `include/backtest_sim.hpp:178` refers to a
`tests/backtest_invariants_test.cpp` that is not in the repository. Its subject,
that the two books agree, is `BooksAgree`.

## Not modelled

- `latency_stats.hpp`, the values of the latency samples (their number and the room
  for them are in `LiveFeed`), the normalizer's own and the timing in all drivers: nothing
  decides on them.
- The socket calls behind `Udp`, `WSAStartup`, a sender that cannot be constructed in
  the publisher thread, two feeds on one group and port, and allocations that fail: of
  the constructor's exceptions only the one for its socket is modelled, not that of
  `latency_ns_.reserve`, which would leave the started workers behind.
- That the backtest erases from the vector it iterates over: the active orders are a
  set.
- Two Python threads inside `start()` and `wait()` of one feed.
- Byte layout and alignment of the packed structs. Reading them through references
  is undefined in C++ as the repository's README says; the compilers it names
  produce plain loads.
- Of the Python extension: the bindings themselves, and that an array keeps its feed
  alive, which is nanobind's doing.
- Benchmarks, the demo, the backtest CLI and the analysis script: drivers and
  statistics without state of their own.

## Plan

Done: the ring, the books, the normalizer, the offline pipeline, the live feed with
its socket and its polling owner, the reader of a book being written, the venues
with the NBBO, the guard and its fault injection, the backtest; proofs of every
safety, action and refinement property of their runs.

Next, in this order:

1. The live feed as a refinement: its normalizer implements `InstrumentReplay` in a first
   run, as the offline pipeline does.
2. Corollaries worth stating: a touch that no message overlaps is exact; a second run
   that nothing was sent in is harmless.
3. Shorter proofs where a step takes the prover several
   seconds: the order maps of a shard in `NormalizerProofs`, a Replace in
   `BookReaderProofs`.
