# MiniTrader in TLA+

MiniTrader is a small trading system in C++20: market ticks travel through a
lock-free queue to an engine, a market-making strategy turns them into orders,
a risk gate checks the orders, and an order book matches them and reports the
fills back to the strategy.  This directory holds a TLA+ model of it, TLC
configurations that check the model on small instances, and TLAPS proofs of its
main invariants for every instance.  Paths below are relative to the repository
root, which is `src/` here (so `src/orderbook/order_book.cpp` of the repository
is `src/src/orderbook/order_book.cpp` in `PROJECT.json`).

## 1. The system

| component | state | operations | talks to |
|---|---|---|---|
| SPSC queue, `include/core/spsc_queue.h` | slots, atomics `head_`, `tail_` | `try_push`, `try_pop`, `empty` | producer thread and consumer thread |
| Order book, `src/orderbook/` | price levels of each side, cached best prices, `order_map_` | `add_order` (`match`), `cancel_order` | calls `fill_callback_` twice per trade |
| Risk gate, `src/risk/` | position, rate window, order and cancel counts, tracked orders | `check`, `track_order`, `untrack_order`, `on_fill`, `reset` | called by the engine |
| Strategy, `src/strategy/` | ids of the two quotes, profit and loss, spread average | `on_tick`, `on_fill`, `cancel_resting_quotes` | calls the engine, is called by it |
| Engine, `src/engine/` | the parts above, counters, latency histograms, `running_` | `push_tick`, `run_once`, `run`, `stop`, `submit_order`, `cancel_order`, `on_fill` | joins all |
| Market receiver, `src/network/` | `running_`, socket and epoll descriptors | `run`, `stop` | callback per tick, the kernel on Linux |
| `src/main.cpp`, `bench/`, `tests/` | – | three run modes, benchmarks, tests | clients of the engine |

Trading takes two threads.  The producer only calls `push_tick`; everything else
runs on the consumer thread: `run_once` pops a tick and calls `on_tick`, which
calls `submit_order`, which calls `RiskGate::check` and `OrderBook::add_order`,
which calls `TradingEngine::on_fill`, which calls `SpreadStrategy::on_fill`,
which may call `cancel_order` on the book that is in the middle of `match()`.
Any thread may call `stop()` of the engine or of the receiver.

What is hard here:

* the queue is correct only by the acquire/release order of two atomics;
* the book is re-entered by cancels while `match()` holds a reference to an
  order and an index of a level;
* the best price, the total of a level, `order_map_` and the tracked orders
  are caches of the book's content kept up to date in many places;
* the strategy learns its order ids only after both orders have been submitted,
  and fills may come before;
* refusals by the gate and partial fills are not reported as such;
* `stop()` races with the start of `run()`, with its loops, and, in the
  receiver, on a plain `bool`; edge-triggered epoll tells of data only once;
* the latency statistics are spread over nine fields, and two reports share one
  counter of samples.

`PROJECT.json` lists every such hazard with its line, and the properties that
would catch it going wrong.

## 2. The modules

| module | models | composed of |
|---|---|---|
| `FifoChannel` | what the queue promises: a FIFO of bounded capacity | |
| `SPSCQueue` | `try_push` and `try_pop` under the C++ memory model | instantiates `FifoChannel` |
| `PriceTimePriority` | what a limit order book promises | |
| `OrderBook` | the book, with callbacks inside the matching loop | instantiates `PriceTimePriority` |
| `RiskGate` | the gate with a clock; operators for the engine and a specification of its own | |
| `SpreadStrategy` | the steps of `on_tick`, and `on_fill` | |
| `RealtimeReplay` | the two threads of `--realtime`: queue, drops, the end of the loop | instantiates `FifoChannel` |
| `TradingEngine` | engine, book, gate, strategy and clients on the consumer thread | `SpreadStrategy`, `OrderBook` as `Book`, `RiskGate` as `Risk` |
| `LatencyStats` | histograms, reset and percentiles of `run_once` | |
| `EngineLifecycle` | `run`, `stop`, `run_once` and `push_tick` of the engine | |
| `MarketReceiver` | both bodies of the receiver's `run`, `stop`, the kernel's socket | |
| `MarketFeed` | a receiver whose callback is `push_tick` | `MarketReceiver` as `Receiver`, `EngineLifecycle` as `Engine` |
| `Arithmetic` | facts about `%` and about sums | |
| `SPSCQueueProofs`, `OrderBookProofs`, `RiskGateProofs`, `LatencyStatsProofs`, `RealtimeReplayProofs`, `MarketFeedProofs` | proofs about the module they are named after | |
| `TradingEngineProofs` | proofs about the engine | instantiates `OrderBookProofs` for the engine's book |
| `MC*` | values of constants for TLC | |

Definitions whose comment begins with *Fault:* are single mistakes planted
beside the definition they vary; no specification uses them.  Each stands for a
bug that one property has to notice when it takes the definition's place.

### SPSCQueue

Each atomic has one writer, so its modification order is a sequence of messages
`[idx, built]` (`tail_`) or `[idx, freed]` (`head_`).  A thread reads its own
index exactly; a load of the other one returns any message at or after the last
one read.  A message carries how many constructions (destructions) happen
before its release store, an acquire load joins that number into the reader's
view, and a slot access is race-free when the previous access to the slot lies
in the view.  `Construct`/`Publish` and `Take`/`Release` are steps of their own.
Both `PushFull` and `PopEmpty` may happen on stale values, as in the code.

### OrderBook

`add_order` is split where the code calls out.  `phase` says where `match()`
stands:

| phase | code | next step |
|---|---|---|
| `match` | head of the outer `while` (99, 129) | `EnterLevel`, or `Rest`/`Discard` when it ends |
| `level` | head of the inner `while` (103, 133) | `ReportTaker`, or `LeaveLevel` when it ends |
| `taker` | inside the first `emit_fill` (108, 137) | `ReportMaker` |
| `maker` | inside the second (110, 139) | `Settle` (113–120) |

`CancelOrder` is enabled when the book is idle, and while a callback runs for
any order but the one `match()` refers to (`MayCancel`).  That restriction is
the book's contract with its callback; `TradingEngine` checks that the engine
and the strategy keep it.  The two symmetric halves of each function are one
definition with the side as a parameter.  A level is its total and its queue of
`[id, qty]`; a `list::iterator` is the position of the id in that queue.

### RiskGate

`check` always counts the attempt, so every verdict but the first three lines'
effect is the same; `Passes` is the conjunction of the four checks.  The clock
`now` advances in fractions of a second (`Second` units); the first check finds
`last_rate_reset_` at the epoch, more than a second ago.  `InWindow` is what the
window that a check made now belongs to has counted, 0 if the check starts a new
one; the bound `MaxAttempts` is on it.  `reset()` clears the counters, and with
them the history `accepted`: `RateBounded` counts orders since the last
`reset()`, which may let the limit pass once more.

### SpreadStrategy and TradingEngine

`pc` is where `on_tick` stands: `bid` and `ask` before the two `submit_order`
calls, `store` before the ids are stored.  `SubmitBid` and `SubmitAsk` are the
engine's `submit_order` up to the start of `match()`, which then runs as the
book's own steps.  When the book reports (`ReportStep`), `handled` becomes
FALSE, and only `OnFill`, the engine's and the strategy's handlers together,
lets the loop go on.  Order ids are unique in the code and numbered here in the
order the book sees them; an order that the gate refused has the id `Refused`,
which the book and the gate do not know.  Clients act between ticks:
`SubmitExternal` (`main.cpp` submits aggressive orders through the same
engine), `SubmitCancel` (an order of type `Cancel`, an interface no file of
the repository uses) and `cancel_resting_quotes` (the benchmarks).

Abstractions: the moving average only chooses between the two widths of the
spread, so either may be chosen; `skew_per_lot` is in tenths and the cancel
ratio in percent; diagnostic counters and printing are left out; ids and
quantities are small integers (32-bit totals cannot overflow at the bounds).

### RealtimeReplay

The threads of `run_realtime_mode`.  The ring of `SPSCQueue` appears as counts:
its proof shows that the n-th message of an index stands for n elements, so a
load that may be stale returns any count from the last one read up to the true
one.  `Accept` and `Drop` are `push_tick`; `ReadNotDone`, `ReadDone` and
`CheckEmpty` the two halves of the loop's condition at `main.cpp:261`, an
acquire load and a relaxed look at the queue; `Pop`, `Handle` and `PopEmpty`
are `run_once`, used in the loop and once after it (`final`); `Join` lets the
report read the producer's counters.  When `sleep_until` returns is left open,
so every speed of the replay is covered.

### LatencyStats

The two statistics are copies of one piece of code and here two records
`[hist, sum, max]`, with a history of the recorded times beside each.
`PushTick` puts a time into a tick when tracking is on, or the feed has done so
(`market_receiver.cpp:130`, `main.cpp:393`); of a queued tick only that is kept.
`EnableTracking` may come at any time, although `main.cpp:225` calls it before
the first tick.  `Handle` is a turn of `run_once`, which records the wait when
tracking is on and the tick has a time in it; `Reset` is `reset_latency_stats`,
which leaves the queue; `Percentile` is the search and interpolation of the two
percentile functions, in exact arithmetic on tenths of a percent.

The reference for `PercentileIsClose` is the history, sorted: the answer lies
between the buckets of the two samples whose ranks are the percentage of the
number of samples, rounded down and rounded up.  From the median up the lower
of them is at least the first sample; below, the code rounds the rank of a few
samples down to 0 and answers 0.  `switched` notes that tracking was switched
among the ticks that count.  Then the report divides the waits by the ticks and
looks for ranks that the waits do not have: of two ticks queued before the
switch, one with a time in it, the P50 of the waits is above their P99.  The
statements about waits are made for the other case.

### EngineLifecycle, MarketReceiver and MarketFeed

`pc` is where a `run()` stands: `start` before it stores `running_ = true`,
`loop` at the test of `running_`.  A receiver whose file has no name or does not
open returns before that (`market_receiver.cpp:60` to 72) and changes nothing,
so that such a call is no step of the model.  `Stop` may come at any time; before `Start`
it is lost, as in the code.  A test may find the TRUE of `run()`'s own store as
long as the FALSE of `stop()` is not visible (`Continue`).  In the engine
`pop` and `handle` are inside `run_once`, which does not look at `running_`;
`Accept`, `Drop`, `Pop` and `PopEmpty` use the queue as counts, like
`RealtimeReplay`.

`platform` is the branch of the `#ifdef`.  On Linux `Arrive` is the kernel's:
a datagram is its length, 0 or more, goes into the receive buffer if there is
room, and sets `edge`; `Event` is an `epoll_wait` that reports the edge and
clears it; `Recv` and `RecvEnds` are the drain loop, which takes a datagram of
length 0 for the end.  A second `run()` opens a second socket while the first
has the port (`Listening`).  Elsewhere `Skip`, `Parse` and `CallBack` replay
the file; between the last two the thread sleeps.  The receiver's `bool` is
read afresh at each turn, because every turn calls functions the compiler
cannot see into.  `MarketFeed` joins `CallBack` and `PushTick`, the way
`trading_engine.h:29` draws it, and lets everything else interleave.

## 3. The runs

| run | checks | bounds |
|---|---|---|
| `spsc` | types, no racing overwrite, no read of raw bytes, refinement of `FifoChannel`, delivery of every accepted value | 4 slots, 2 values, 6 pushes: the indices wrap and one index value occurs twice in the modification order |
| `book` | types, exact best prices, uncrossed book, level totals, exact map, the callback's reference, accounting of quantities, refinement of `PriceTimePriority`, `add_order` returns | 3 prices, quantities to 3, 4 orders: two queue at a level, one crosses several levels, cancels anywhere |
| `risk` | types, rate bound, tracked orders uncrossed | 3 ids, 2 prices, 5 instants, windows of 2 |
| `engine` | types, position nets out, paired quotes, one cancels the other, what rests untracked has been a maker, refinement of `OrderBook`, dead quotes are forgotten by `cancel_resting_quotes` only, every call returns | shipped setting (`check_self_trade` off), 5 orders, a limit of 3 per window, partial and whole fills from both sides, both quotes of a pair refused or one of them |
| `replay` | types, the loop drains the queue, ticks add up, no early drop, refinement of `FifoChannel`, the replay ends | 6 ticks through 3 places: ticks are dropped and accepted again later |
| `engine_checked` | no self trade | check on, two widths of quotes, cancels by order |
| `latency` | counters, sums and histograms agree, percentiles lie between the buckets of the samples around their rank and are ordered | 4 ticks between resets, 2 in the queue, with and without a time, times below, at and above each bound, ranks rounded up, down and to 0 |
| `feed` | nothing left behind without an edge, announced datagrams are read, both `stop()`s are heeded, queued ticks are handled | 2 runs of each side, 3 datagrams into a buffer of 2, a file of 2 ticks and 2 skipped lines, a queue of 2: datagrams and ticks are dropped, ticks outlive a run |

The bounds cut off behaviours at a number of orders, pushes or clock units, so
the specifications may stop there: `CHECK_DEADLOCK FALSE` in the book and
engine runs.  The replay stops after its report, too, and `ReplayEnds` checks
that it stops nowhere else.  The other runs are checked for deadlock, too; in `feed`
`stop()` can always be called, and its liveness properties say more.

Four runs expect a violation; each states what a comment or document says and
shows that the code does something else:

| run | the text says | the code does |
|---|---|---|
| `dead_quote_ids` | the strategy that has quotes out waits until they are filled or cancelled | the rate limit refuses both quotes of a pair, their ids are stored, and neither can be filled: quoting stops until `cancel_resting_quotes` is called |
| `untracked_rest` | an order leaves the tracking table when it is filled in full | the first partial fill as a maker untracks it; the rest of it is in the book |
| `double_quote` | while a quote rests, no second pair is quoted | a partial fill clears the ids and the next tick quotes again |
| `rounded_up_rank` | the rank of a percentile is rounded up | it is rounded to the nearest: the P99 of 51 ticks is that of the 50th, and one slow tick does not show |

More of the kind have no run of their own.  `order.h:26` and `risk_gate.cpp:89`
have a market order carry price 0 and trade at any price; `match()` compares
that price with the best ask (line 99), so that a market buy never trades.
`strategy_base.h:57` calls `position()` the net holding; both sides of each
trade are counted, external orders included, so that it is 0 between calls
(`PositionNetsOut`), and the position limit, the quoting pause and the skew see
0.  `spread_strategy.h:69` says that a nonzero id names an active quote; a quote
that is filled while `on_tick` submits finds no stored id, its profit is not
counted, and `on_tick` stores the id of the filled order afterwards.
`market_receiver.cpp:186` says that the drain goes on until `EAGAIN`; a datagram
of length 0 ends it (line 189), and what is behind stays unread until the next
arrival, which is what `NothingLeftBehind` has to exempt.  `risk_gate.h:73` calls
`total_cancels_` the cancels of the day, but nothing increments it.
`risk_gate.h:50` says an order is untracked when it is cancelled or fully
filled; a limit order filled on arrival stays tracked for ever.
`trading_engine.h:64` says that `run()` blocks until `stop()` is called; a
`stop()` that comes before line 89 of the source file is lost, and one that
comes while ticks keep arriving waits for a gap (`run_once` and the receiver's
drain do not look at their flags).  A second `run()` of a Linux receiver ignores that `bind()` fails and receives
nothing.  The interpolation of a percentile reaches the upper end of a bucket, so
that a P99.9 can exceed the peak.  `docs/architecture.md:127`
calls the order rate a sliding window, while `check_order_rate` restarts its
counter at fixed points: what holds is `RateBounded`, twice the limit in any
second.  With the shipped `check_self_trade = false` the tracking table is not
read; with the check on no trade ever happens, which is what `NoSelfTrade`
shows.

What the two settings leave of the tracking is `TrackedUntilFilled`: whatever is
submitted, cancelled and filled in between, an order that rests and is not
tracked has been filled as a maker.  And `StuckUntilCancelled` is why
`dead_quote_ids` matters: a strategy with two dead quotes stays so through all
ticks, fills and orders of clients.

Fairness.  `SPSCQueue!FairSpec`: the consumer polls for ever (`run()`, the
replay loop) and C++ makes a store visible in finite time, so popping with the
newest `tail_` is weakly fair; the producer finishes a push it began and owes
no more.  `OrderBook!FairSpec`: a function call runs until it returns, so the
matching steps together are weakly fair; nothing is assumed of callers.
`RealtimeReplay!FairSpec`: both threads run (`sleep_until` returns, the main
thread spins), and the loop, which loads `producer_done` again and again, does
not read a stale false for ever (strong fairness of `ReadDone`).
`MarketFeed!FairSpec`: both threads run (`epoll_wait` has a timeout, sleeps
end), and neither a stored FALSE nor the newest `tail_` is missed for ever
(strong fairness of `Leave` and `Pop`, which the loops enable again and again);
nobody has to call `run()` or `stop()`.  Arrivals and the file are finite: with
endless ones neither loop gets to look at its flag.  `TradingEngine!FairSpec`:
a call that has begun runs until it returns (weak fairness of `CallStep`); no
tick, order or passing of time is owed.

## 4. The proofs

Every invariant and every refinement that a passing run checks is also a
theorem: it holds for all values of the constants, for all numbers of
orders, ticks, pushes and calls.  Each theorem rests on an inductive invariant,
whose conjuncts TLC checked on the run's instance before they were proved.

`Arithmetic` has the few facts on `\div` and `%` that the ring and the price
grid need, from `DivMod` on, which the SMT backend proves, and the facts on
`SumFunctionOnSet` that the totals, rates and histograms need.  That a fold over
a set is a sum is induction over finite sets: `SmallerFirst` derives it from the
library's `WFMin` with a set in the place of the predicate, because the
library's own induction theorems take an operator.

`SPSCQueueProofs`: for every `Cap`, every set of values and any number of
pushes, `Spec => []TypeOK`, `[]NoOverwriteRace`, `[]NoUninitializedRead` and
`Spec => RefinesFifo`.  None of these is inductive.  `IndInv` adds that the
k-th message of `tail_` has index `(k-1) % Cap` and carries `k-1` constructions
(likewise `head_`), that at most `Cap - 1` elements lie between the two, which
slots are alive, when each was last touched, and that what is in flight is
`sent` after `delivered`.  The number of elements a thread sees in flight errs
on the safe side: a stale `head_` makes the ring look fuller, a stale `tail_`
emptier.

`OrderBookProofs`: for every price grid and every set of orders, all that the
run `book` checks but liveness.  It has two layers and what rests on them.

* `IndInv` is `TypeOK`, the facts on the local variables of `match()`
  (`InCall`, `Callback`), `BestIsExact` and `Uncrossed`: the incoming order
  crosses the level being matched, so nothing on its own side rests at or
  beyond it, and a callback's cancel leaves the front of the level in place, so
  the level cannot empty under the loop.
* `QueueInv` adds that the ids of a queue ascend (`Ascending`), that each of
  them is located where it is (`Located`) and each location is right
  (`Found`), that no id at or above `next_id` is in use (`Numbered`), what is
  half reported (`Trading`), and `QuantityAccounted`.  `MapIsExact` follows.
* `Totals` (each total is the sum over its queue) is inductive on top of
  `QueueInv`; erasing from the middle of a queue renumbers what is behind,
  hence `SumReindexed`.
* `RefinesPriceTime`: the refinement mapping reads the resting orders off the
  queues and the last id off `next_id`.  `Settle` maps to a trade, and
  the front of the best level precedes every candidate (`FrontPrecedes`)
  because ids ascend; `Rest` maps to resting, and `NoCandidates` shows that
  nothing crosses then.

`RiskGateProofs`: `Spec => []TypeOK` and `[]TrackedUncrossed`, inductive
together, and `[]RateBounded`, which speaks of all seconds while the code knows
only the last window.  `RateInv` therefore bounds the orders of the window by
its counter and by the limit, those of each second that ends before the window
began by the limit, and says that nothing has passed in the future; a second
overlaps at most one such stretch and one window.

`TradingEngineProofs` composes.  `EngineInv` contains the book's `QueueInv`,
which every step of the engine preserves because it is a step of the book or
leaves the book alone (`StepEngine`); this is `Spec => RefinesBook`, so that the
book's theorems carry over to the book of the engine (`BookOfEngine`).  It needs
`Identified`: the ids that the strategy cancels in a callback are older
than the incoming order, and the order it has just been told about is no longer
among them.  `TypeOK`, `PositionNetsOut` and `QuotesComeInPairs` follow.
`TrackInv` (with the check on, the gate knows side and price of all that rests,
so an order that passes crosses nothing) gives `NoSelfTrade`.  `CoverInv` (the
limit order in hand is tracked, and so is what rests unless it has been a maker)
gives `TrackedUntilFilled` in every setting.  `StuckUntilCancelled` needs no
invariant beyond `EngineInv`: an order joins the book only at the end of its own
match (`OnlyRestAdds`), the order in hand is younger than the stored quotes, and
reports name the order in hand or one that rests (`DeadStays`).  `PairInv` (of two quotes submitted together both rest only while
`on_tick` holds their ids in its locals or the strategy in its fields) gives
`OneCancelsOther`.  Two assumptions are the engine's own.  `PartsAssumption`
hands the book and the gate what each of them assumes.  `QuotesOnGrid` says that
the quotes around each tick are prices of the book; nothing in the code makes
sure of it, the shipped configuration and feed do, and without it
`price_to_index` leaves the array.

`LatencyStatsProofs`: `CountsAgree`, `PercentilesOrdered` and
`PercentileIsClose` for every ascending array of bounds, every finite set of
times and every percentage.  `LatencyInv`: each bucket counts exactly the
recorded times that fall into it, and as long as tracking is not switched all
that is queued has a time in it or none is looked at.  Then the bucket where the
search stops is the bucket of the n-th smallest time, for the target n, and the
interpolated value lies within it and grows with n, within a bucket and across
empty ones; the target lies between the whole ranks around it (`RanksEnclose`).

`RealtimeReplayProofs`: for every length of the file and every capacity,
`Spec => []TypeOK`, `[]DrainedBeforeLast`, `[]EveryTickAccounted`,
`[]NoEarlyDrop` and `Spec => RefinesFifo`.  `IndInv` adds the accounts of both
threads and what the flag tells (`Flags`): once it has been read, no more ticks
come and the reader knows the newest `tail_`, so the relaxed test is exact.
The last `run_once` of `main.cpp:266` therefore never finds a tick.

`MarketFeedProofs`: `Spec => []TypeOK` and `[]NothingLeftBehind` for every file,
size of the buffer and queue, and any number of datagrams and calls.
`Announced` adds what holds before the loop: nothing arrives before the first
`run()`, and what arrives between the socket's setup and the first `epoll_wait`
leaves its edge.

Returning.  `MatchingEnds` (of the book) and `CallsEnd` (of the engine) are the
part of `AddOrderReturns` and `CallsReturn` that needs no fairness: a count of
the steps that are left, 0 exactly when no call is running, falls with each step
of a call and never rises before its return.  `Remaining` gives `match()` five
steps for each unit left to trade, since between two trades it leaves a level,
enters one that is not empty because the best price is exact, and reports
twice; `StepsLeft` adds the handling of the reports and the orders that
`on_tick` has yet to submit.  An order of n units thus takes `add_order` at most
5n + 4 steps, whatever the callbacks cancel.

Only model-checked: that fairness turns this into liveness, and the other
liveness properties (`EveryPushIsDelivered`, `ReplayEnds`, `ArrivalsAreRead`,
`ReceiverStopIsHeeded`, `EngineStopIsHeeded`, `QueuedIsHandled`), for which the
prover would need fairness and `ENABLED`; and the four expected violations,
which are counterexamples.

## 5. Not modelled, and the plan

To come, proofs: counts of the remaining steps, like `Remaining`, for the loops
of the replay and of the receiver; that the queue of `RealtimeReplay` is the
ring of `SPSCQueue`, which the README argues and no theorem states.

Left out for good: how a line is parsed and how long a sleep lasts, printing,
CPU pinning, the benchmarks as such; `MySPSCQueue` (`spsc_queue_dev.h`), which
no other file includes; the diagnostic counters `orders_submitted_`,
`orders_rejected_` and `fills_received_`; prices off the grid and repeated
order ids, which the code does not check and the modules assume away
(`RequestAssumption`, ids in order); strategies other than `SpreadStrategy`,
whose `on_fill` might submit orders inside the matching loop.
