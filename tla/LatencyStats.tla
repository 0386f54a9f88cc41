---------------------------- MODULE LatencyStats ----------------------------
(***************************************************************************)
(* The latency statistics of TradingEngine: run_once records, for each     *)
(* tick, how long on_tick took and, when tracking is on and the tick has a *)
(* time in it, how long it waited in the queue.  push_tick puts the time   *)
(* in when tracking is on; a feed may have done so before.  A statistic is *)
(* a histogram with a sum and a peak; a percentile is read off the         *)
(* histogram by linear interpolation.                                      *)
(*                                                                         *)
(* Both statistics are kept by copies of the same code; here they are two  *)
(* records of one shape.  A percentage is given in tenths of a percent and *)
(* the arithmetic on doubles is exact.                                     *)
(***************************************************************************)
EXTENDS Integers, Sequences, FiniteSetsExt, Functions

CONSTANTS
  LogicBounds,  \* kHistBounds: the upper bounds of the buckets but the last
  WaitBounds,   \* kQHistBounds
  LogicTimes,   \* durations of on_tick
  WaitTimes,    \* times spent in the queue
  Percents,     \* the percentages that are asked for
  QueueCap,     \* ticks that tick_queue_ holds
  MaxTicks      \* bound of the model: ticks handled between two resets

Ascending(bounds) == \A b, c \in DOMAIN bounds : b < c => bounds[b] < bounds[c]

ASSUME BoundsAssumption ==
  /\ LogicBounds \in Seq(Nat \ {0}) /\ Ascending(LogicBounds)
  /\ WaitBounds \in Seq(Nat \ {0}) /\ Ascending(WaitBounds)
\* Times are counted in 64 bits.
ASSUME TimesAssumption ==
  /\ LogicTimes \subseteq Nat /\ IsFiniteSet(LogicTimes)
  /\ WaitTimes \subseteq Nat /\ IsFiniteSet(WaitTimes)
ASSUME PercentAssumption == Percents \subseteq 0 .. 1000
ASSUME MaxTicksAssumption == MaxTicks \in Nat /\ QueueCap \in Nat \ {0}

VARIABLES
  ticks_processed_,
  logic,                 \* latency_sum_ns_, latency_max_ns_, latency_hist_
  queue_wait,            \* queue_wait_sum_ns_, queue_wait_max_ns_, queue_wait_hist_
  track_queue_latency_,
  tick_queue_,            \* of each tick in the queue: whether it has a time in it
  logic_seen, wait_seen,  \* history: how often each time was recorded
  switched                \* history: tracking was switched among the ticks that count

stats == <<ticks_processed_, logic, queue_wait, logic_seen, wait_seen>>
vars == <<stats, track_queue_latency_, tick_queue_, switched>>

EmptyStat(bounds) == [hist |-> [b \in 1 .. Len(bounds) + 1 |-> 0], sum |-> 0, max |-> 0]

Never(times) == [x \in times |-> 0]

Init ==
  /\ ticks_processed_ = 0
  /\ logic = EmptyStat(LogicBounds) /\ queue_wait = EmptyStat(WaitBounds)
  /\ track_queue_latency_ = FALSE
  /\ tick_queue_ = << >>
  /\ logic_seen = Never(LogicTimes) /\ wait_seen = Never(WaitTimes)
  /\ switched = FALSE

-----------------------------------------------------------------------------
(* Recording                                                               *)

\* Fault: a bucket includes its upper bound.
BucketClosed(bounds, x) == Min({b \in DOMAIN bounds : x <= bounds[b]} \cup {Len(bounds) + 1})

\* The first bucket whose upper bound lies above x, or the last one.
Bucket(bounds, x) == Min({b \in DOMAIN bounds : x < bounds[b]} \cup {Len(bounds) + 1})

Record(stat, bounds, x) ==
  [hist |-> [stat.hist EXCEPT ![Bucket(bounds, x)] = @ + 1],
   sum |-> stat.sum + x,
   max |-> Max({stat.max, x})]

\* push_tick of a tick that its feed has put a time in, or not.  A full queue
\* drops it.
PushTick(timed) ==
  /\ Len(tick_queue_) < QueueCap
  /\ tick_queue_' = Append(tick_queue_, track_queue_latency_ \/ timed)
  /\ UNCHANGED <<stats, track_queue_latency_, switched>>

\* enable_queue_latency_tracking: main.cpp:225 calls it before the first tick,
\* but it may be called at any time.
EnableTracking(on) ==
  /\ track_queue_latency_' = on
  /\ switched' = (switched \/ (on # track_queue_latency_ /\
                               (tick_queue_ # << >> \/ ticks_processed_ > 0)))
  /\ UNCHANGED <<stats, tick_queue_>>

\* One turn of run_once's loop.
Handle(ns, wait) ==
  /\ tick_queue_ # << >>
  /\ ticks_processed_ < MaxTicks
  /\ tick_queue_' = Tail(tick_queue_)
  /\ ticks_processed_' = ticks_processed_ + 1
  /\ logic' = Record(logic, LogicBounds, ns)
  /\ logic_seen' = [logic_seen EXCEPT ![ns] = @ + 1]
  /\ IF track_queue_latency_ /\ Head(tick_queue_)
     THEN /\ queue_wait' = Record(queue_wait, WaitBounds, wait)
          /\ wait_seen' = [wait_seen EXCEPT ![wait] = @ + 1]
     ELSE UNCHANGED <<queue_wait, wait_seen>>
  /\ UNCHANGED <<track_queue_latency_, switched>>

\* Fault: the histogram of the waits is not cleared.
ResetKeepsWaits ==
  /\ ticks_processed_' = 0
  /\ logic' = EmptyStat(LogicBounds)
  /\ queue_wait' = [queue_wait EXCEPT !.sum = 0, !.max = 0]
  /\ logic_seen' = Never(LogicTimes) /\ wait_seen' = Never(WaitTimes)
  /\ switched' = (switched /\ tick_queue_ # << >>)
  /\ UNCHANGED <<track_queue_latency_, tick_queue_>>

\* reset_latency_stats, after the warm-up round; it leaves the queue alone.
Reset ==
  /\ ticks_processed_' = 0
  /\ logic' = EmptyStat(LogicBounds) /\ queue_wait' = EmptyStat(WaitBounds)
  /\ logic_seen' = Never(LogicTimes) /\ wait_seen' = Never(WaitTimes)
  /\ switched' = (switched /\ tick_queue_ # << >>)
  /\ UNCHANGED <<track_queue_latency_, tick_queue_>>

Next ==
  \/ \E timed \in BOOLEAN : PushTick(timed)
  \/ \E on \in BOOLEAN : EnableTracking(on)
  \/ \E ns \in LogicTimes, wait \in WaitTimes : Handle(ns, wait)
  \/ Reset

Spec == Init /\ [][Next]_vars

-----------------------------------------------------------------------------
(* latency_percentile_ns and queue_wait_percentile_ns                      *)

\* Fault: truncated without the half.
TargetTruncated(pct) == (pct * ticks_processed_) \div 1000

\* pct / 100.0 * ticks_processed_ + 0.5, truncated.
Target(pct) == (pct * ticks_processed_ + 500) \div 1000

Cumulative(stat, b) == SumFunctionOnSet(stat.hist, 1 .. b)

\* Fault: the lower end of every bucket is zero.
LowEndZero(bounds, b) == 0

LowEnd(bounds, b) == IF b = 1 THEN 0 ELSE bounds[b - 1]

HighEnd(stat, bounds, b) == IF b \in DOMAIN bounds THEN bounds[b] ELSE stat.max

\* The loop stops at the first bucket that brings the count to the target.
Percentile(stat, bounds, pct) ==
  LET target == Target(pct)
      reached == {b \in DOMAIN stat.hist : Cumulative(stat, b) >= target}
      b == Min(reached)
      lo == LowEnd(bounds, b)
      before == Cumulative(stat, b) - stat.hist[b]
  IN
  IF ticks_processed_ = 0 THEN 0
  ELSE IF reached = {} THEN stat.max
  ELSE IF stat.hist[b] = 0 THEN lo
  ELSE lo + ((target - before) * (HighEnd(stat, bounds, b) - lo)) \div stat.hist[b]

-----------------------------------------------------------------------------
(* Properties                                                              *)

Samples(seen) == SumFunctionOnSet(seen, DOMAIN seen)
Total(seen) == SumFunctionOnSet([x \in DOMAIN seen |-> x * seen[x]], DOMAIN seen)

Agrees(stat, seen) ==
  /\ SumFunctionOnSet(stat.hist, DOMAIN stat.hist) = Samples(seen)
  /\ stat.sum = Total(seen)
  /\ \A x \in DOMAIN seen : seen[x] > 0 => x <= stat.max

\* The averages and the percentiles divide by ticks_processed_
\* (trading_engine.h:87, 131 and trading_engine.cpp:122, 146), which belongs to
\* neither histogram: through resets it is the number of samples of on_tick in
\* the sums and in the histogram.  Of the waits there are never more, and as
\* many or none as long as tracking was not switched among the ticks counted.
CountsAgree ==
  /\ Agrees(logic, logic_seen) /\ Agrees(queue_wait, wait_seen)
  /\ Samples(logic_seen) = ticks_processed_
  /\ Samples(wait_seen) <= ticks_processed_
  /\ ~switched => Samples(wait_seen) = IF track_queue_latency_ THEN ticks_processed_ ELSE 0

\* The n-th smallest of the times that were recorded; 0 for n = 0.
NthSmallest(seen, n) ==
  Min({x \in DOMAIN seen \cup {0} :
         SumFunctionOnSet(seen, {y \in DOMAIN seen : y <= x}) >= n})

\* The ends of the bucket that x falls into; the last one ends at the peak.
Floor(bounds, x) == Max({0} \cup {bounds[b] : b \in {c \in DOMAIN bounds : bounds[c] <= x}})
Ceiling(bounds, x, max) ==
  LET above == {bounds[b] : b \in {c \in DOMAIN bounds : bounds[c] > x}}
  IN  IF above = {} THEN max ELSE Min(above)

\* The rank of a percentage among the samples, a whole number below and above;
\* from the median up there is always a sample below.
RankDown(pct) ==
  LET n == (pct * ticks_processed_) \div 1000 IN IF pct >= 500 THEN Max({1, n}) ELSE n
RankUp(pct) == (pct * ticks_processed_ + 999) \div 1000

CloseToSample(stat, bounds, seen) ==
  \A pct \in Percents :
    ticks_processed_ > 0 =>
      /\ Floor(bounds, NthSmallest(seen, RankDown(pct))) <= Percentile(stat, bounds, pct)
      /\ Percentile(stat, bounds, pct)
           <= Ceiling(bounds, NthSmallest(seen, RankUp(pct)), stat.max)

\* A percentile is as close to the samples since the last reset as the buckets
\* allow: it lies between the buckets of the two samples whose ranks enclose the
\* percentage (trading_engine.cpp:118 to 160), for both statistics.
PercentileIsClose ==
  /\ CloseToSample(logic, LogicBounds, logic_seen)
  /\ ~switched /\ track_queue_latency_ => CloseToSample(queue_wait, WaitBounds, wait_seen)

\* trading_engine.cpp:121: the rank is rounded up, so that the percentile stands
\* for a sample that at least this share of all samples does not exceed.
PercentileRoundsUp ==
  \A pct \in Percents :
    ticks_processed_ > 0 =>
      Floor(LogicBounds, NthSmallest(logic_seen, RankUp(pct)))
        <= Percentile(logic, LogicBounds, pct)

\* The report never shows a P50 above the P99 or a P99 above the P99.9.
PercentilesOrdered ==
  \A p, q \in Percents :
    p < q => /\ Percentile(logic, LogicBounds, p) <= Percentile(logic, LogicBounds, q)
             /\ ~switched => Percentile(queue_wait, WaitBounds, p)
                               <= Percentile(queue_wait, WaitBounds, q)
=============================================================================
