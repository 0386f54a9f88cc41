--------------------------- MODULE EngineLifecycle ---------------------------
(***************************************************************************)
(* TradingEngine::run and stop around run_once, with the tick queue the    *)
(* producer pushes into.  The queue is the ring of SPSCQueue.tla as counts *)
(* (see RealtimeReplay.tla): an index that is read may be older than the   *)
(* newest one, but not older than the one read before.  What on_tick does  *)
(* with a tick is TradingEngine.tla.                                       *)
(***************************************************************************)
EXTENDS Integers, Sequences

CONSTANTS
  Ticks,     \* what the producer pushes
  Capacity,  \* SPSCQueue::capacity()
  MaxRuns    \* bound of the model: calls of run()

VARIABLES
  running_,
  pc,              \* where run() stands
  runs,            \* calls of run() so far
  sent,            \* ticks whose push returned true
  delivered,       \* ticks popped, in this run and the ones before
  seen_head,       \* the count that the producer read last from head_
  seen_tail,       \* the count that the consumer knows tail_ to have reached
  ticks_dropped_

queueVars == <<sent, delivered, seen_head, seen_tail, ticks_dropped_>>
vars == <<running_, pc, runs, queueVars>>

Init ==
  /\ running_ = FALSE /\ pc = "idle" /\ runs = 0
  /\ sent = << >> /\ delivered = << >>
  /\ seen_head = 0 /\ seen_tail = 0
  /\ ticks_dropped_ = 0

-----------------------------------------------------------------------------
(* push_tick, on the producer's thread                                     *)

Accept(tick, n) ==
  /\ n \in seen_head .. Len(delivered)
  /\ Len(sent) - n < Capacity
  /\ seen_head' = n
  /\ sent' = Append(sent, tick)
  /\ UNCHANGED <<running_, pc, runs, delivered, seen_tail, ticks_dropped_>>

Drop(n) ==
  /\ n \in seen_head .. Len(delivered)
  /\ Len(sent) - n = Capacity
  /\ seen_head' = n
  /\ ticks_dropped_' = ticks_dropped_ + 1
  /\ UNCHANGED <<running_, pc, runs, sent, delivered, seen_tail>>

PushTick(tick) == \E n \in 0 .. Len(delivered) : Accept(tick, n) \/ Drop(n)

-----------------------------------------------------------------------------
(* run() and run_once, on the strategy's thread; stop() on any             *)

\* run() as far as the end of on_start.  (Without a strategy it throws.)
Run ==
  /\ pc = "idle" /\ runs < MaxRuns
  /\ runs' = runs + 1
  /\ pc' = "start"
  /\ UNCHANGED <<running_, queueVars>>

Start ==
  /\ pc = "start"
  /\ running_' = TRUE
  /\ pc' = "loop"
  /\ UNCHANGED <<runs, queueVars>>

Stop ==
  /\ running_' = FALSE
  /\ UNCHANGED <<pc, runs, queueVars>>

\* The load of running_ finds TRUE, perhaps the TRUE of before stop().
Continue ==
  /\ pc = "loop"
  /\ pc' = "pop"
  /\ UNCHANGED <<running_, runs, queueVars>>

\* The load finds FALSE: on_stop, and run() returns; the queue is not drained.
Leave ==
  /\ pc = "loop" /\ ~running_
  /\ pc' = "idle"
  /\ UNCHANGED <<running_, runs, queueVars>>

\* Fault: the newest tick counts as not there yet.
PopLate(n) ==
  /\ pc = "pop" /\ n \in seen_tail .. Len(sent)
  /\ n > Len(delivered) + 1
  /\ seen_tail' = n
  /\ delivered' = Append(delivered, sent[Len(delivered) + 1])
  /\ pc' = "handle"
  /\ UNCHANGED <<running_, runs, sent, seen_head, ticks_dropped_>>

\* try_pop with the n-th message of tail_ hands out the oldest tick.
Pop(n) ==
  /\ pc = "pop" /\ n \in seen_tail .. Len(sent)
  /\ n > Len(delivered)
  /\ seen_tail' = n
  /\ delivered' = Append(delivered, sent[Len(delivered) + 1])
  /\ pc' = "handle"
  /\ UNCHANGED <<running_, runs, sent, seen_head, ticks_dropped_>>

\* on_tick returns; run_once tries the next tick without looking at running_.
Handle ==
  /\ pc = "handle"
  /\ pc' = "pop"
  /\ UNCHANGED <<running_, runs, queueVars>>

\* Fault: run_once waits for the next tick.
PopEmptyWaits(n) ==
  /\ pc = "pop" /\ n \in seen_tail .. Len(sent)
  /\ n = Len(delivered)
  /\ seen_tail' = n
  /\ UNCHANGED <<running_, pc, runs, sent, delivered, seen_head, ticks_dropped_>>

\* The queue looks empty: run_once returns.
PopEmpty(n) ==
  /\ pc = "pop" /\ n \in seen_tail .. Len(sent)
  /\ n = Len(delivered)
  /\ seen_tail' = n
  /\ pc' = "loop"
  /\ UNCHANGED <<running_, runs, sent, delivered, seen_head, ticks_dropped_>>

RunStep ==
  \/ Start \/ Continue \/ Leave \/ Handle
  \/ \E n \in 0 .. Len(sent) : Pop(n) \/ PopEmpty(n)

-----------------------------------------------------------------------------
(* Properties                                                              *)

TypeOK ==
  /\ running_ \in BOOLEAN /\ pc \in {"idle", "start", "loop", "pop", "handle"}
  /\ runs \in 0 .. MaxRuns
  /\ sent \in Seq(Ticks) /\ delivered \in Seq(Ticks)
  /\ seen_head \in 0 .. Len(delivered) /\ seen_tail \in 0 .. Len(sent)
  /\ Len(delivered) <= seen_tail
  /\ ticks_dropped_ \in Nat

\* A stop() that comes after run() has stored running_ = true ends it, once
\* the ticks that are there have been handled (trading_engine.cpp:41, 90).
StopIsHeeded == pc \notin {"idle", "start"} /\ ~running_ ~> pc = "idle"

\* An accepted tick is handled unless run() returns first, also when it was
\* left in the queue by an earlier run().
QueuedIsHandled ==
  \A n \in 1 .. MaxRuns * Capacity :
    pc # "idle" /\ Len(sent) >= n ~> Len(delivered) >= n \/ pc = "idle"
=============================================================================
