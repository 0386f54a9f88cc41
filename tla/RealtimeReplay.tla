--------------------------- MODULE RealtimeReplay ---------------------------
(***************************************************************************)
(* run_realtime_mode of src/main.cpp: a producer thread pushes the ticks   *)
(* of a file into the engine's queue and sets producer_done; the main      *)
(* thread calls run_once until the producer is done and the queue looks    *)
(* empty, drains once more, joins and reports.                             *)
(*                                                                         *)
(* The queue is the ring of SPSCQueue.tla seen as counts: the n-th message *)
(* of tail_ says that n values were sent, the n-th of head_ that n were    *)
(* delivered, and a load returns any message not older than the last one   *)
(* read.  With at most Capacity values in flight, equal indices of the     *)
(* ring mean equal counts.  Ticks are their positions in the file; when    *)
(* the producer wakes from sleep_until is left open.                       *)
(***************************************************************************)
EXTENDS Integers, Sequences

CONSTANTS
  NumTicks,  \* ticks.size()
  Capacity   \* SPSCQueue::capacity()

\* A file of fewer than two ticks is refused (main.cpp:213).
ASSUME TicksAssumption == NumTicks \in Nat /\ NumTicks >= 2
ASSUME CapacityAssumption == Capacity \in Nat

Ticks == 1 .. NumTicks

VARIABLES
  sent,             \* ticks whose push returned true: the stores of tail_
  delivered,        \* ticks popped: the stores of head_
  seen_head,        \* the count that the producer read last from head_
  seen_tail,        \* the count that the consumer knows tail_ to have reached
  total_sent,       \* pushes tried
  ticks_dropped_,   \* pushes that found the queue full
  producer_done,    \* the flag the producer stores last
  pc,               \* where the main thread stands
  saw_done,         \* the main thread has read producer_done = true
  final,            \* it is past the loop, in the last run_once or later
  ticks_processed_  \* ticks that on_tick has handled

producerVars == <<sent, seen_head, total_sent, ticks_dropped_, producer_done>>
consumerVars == <<delivered, seen_tail, pc, saw_done, final, ticks_processed_>>
vars == <<producerVars, consumerVars>>

Init ==
  /\ sent = << >> /\ delivered = << >>
  /\ seen_head = 0 /\ seen_tail = 0
  /\ total_sent = 0 /\ ticks_dropped_ = 0 /\ ticks_processed_ = 0
  /\ producer_done = FALSE /\ saw_done = FALSE /\ final = FALSE
  /\ pc = "done"

-----------------------------------------------------------------------------
(* The producer thread                                                     *)

\* Fault: the slot that tells full from empty is given away.
LooksFullLate(n) == Len(sent) - n = Capacity + 1

\* Fault: a second slot is kept free.
LooksFullEarly(n) == Len(sent) - n = Capacity - 1

\* try_push finds no room when the n-th message of head_ is what it reads.
LooksFull(n) == Len(sent) - n = Capacity

\* Fault: the loop runs past the last tick.
AcceptOneMore(n) ==
  /\ total_sent <= NumTicks
  /\ n \in seen_head .. Len(delivered)
  /\ ~LooksFull(n)
  /\ sent' = Append(sent, total_sent + 1)
  /\ seen_head' = n
  /\ total_sent' = total_sent + 1
  /\ UNCHANGED <<ticks_dropped_, producer_done, consumerVars>>

\* push_tick returns true.
Accept(n) ==
  /\ total_sent < NumTicks
  /\ n \in seen_head .. Len(delivered)
  /\ ~LooksFull(n)
  /\ sent' = Append(sent, total_sent + 1)
  /\ seen_head' = n
  /\ total_sent' = total_sent + 1
  /\ UNCHANGED <<ticks_dropped_, producer_done, consumerVars>>

\* Fault: the count of drops is forgotten.
DropUncounted(n) ==
  /\ total_sent < NumTicks
  /\ n \in seen_head .. Len(delivered)
  /\ LooksFull(n)
  /\ seen_head' = n
  /\ total_sent' = total_sent + 1
  /\ UNCHANGED <<sent, ticks_dropped_, producer_done, consumerVars>>

\* push_tick counts the tick as dropped; the replay goes on with the next.
Drop(n) ==
  /\ total_sent < NumTicks
  /\ n \in seen_head .. Len(delivered)
  /\ LooksFull(n)
  /\ seen_head' = n
  /\ total_sent' = total_sent + 1
  /\ ticks_dropped_' = ticks_dropped_ + 1
  /\ UNCHANGED <<sent, producer_done, consumerVars>>

\* The release store after the last push; the thread ends.
Finish ==
  /\ total_sent = NumTicks /\ ~producer_done
  /\ producer_done' = TRUE
  /\ UNCHANGED <<sent, seen_head, total_sent, ticks_dropped_, consumerVars>>

Produce ==
  \/ \E n \in 0 .. Len(delivered) : Accept(n) \/ Drop(n)
  \/ Finish

-----------------------------------------------------------------------------
(* The main thread                                                         *)

\* The load of producer_done returns false, perhaps a stale false: the loop
\* goes round without looking at the queue.
ReadNotDone ==
  /\ pc = "done" /\ ~saw_done
  /\ pc' = "poll"
  /\ UNCHANGED <<delivered, seen_tail, saw_done, final, ticks_processed_, producerVars>>

\* Fault: a relaxed load of the flag, which brings no pushes with it.
ReadDoneRelaxed ==
  /\ pc = "done" /\ producer_done
  /\ saw_done' = TRUE
  /\ pc' = "empty"
  /\ UNCHANGED <<delivered, seen_tail, final, ticks_processed_, producerVars>>

\* The acquire load returns true: every push happens before what follows.
ReadDone ==
  /\ pc = "done" /\ producer_done
  /\ saw_done' = TRUE
  /\ seen_tail' = Len(sent)
  /\ pc' = "empty"
  /\ UNCHANGED <<delivered, final, ticks_processed_, producerVars>>

\* Fault: the test of the queue is negated.
CheckEmptyNegated(n) ==
  /\ pc = "empty"
  /\ n \in seen_tail .. Len(sent)
  /\ seen_tail' = n
  /\ pc' = "poll"
  /\ final' = (n # Len(delivered))
  /\ UNCHANGED <<delivered, saw_done, ticks_processed_, producerVars>>

\* tick_queue_empty(), which loads the indices relaxed: out of the loop and
\* into the last run_once when they are equal.
CheckEmpty(n) ==
  /\ pc = "empty"
  /\ n \in seen_tail .. Len(sent)
  /\ seen_tail' = n
  /\ pc' = "poll"
  /\ final' = (n = Len(delivered))
  /\ UNCHANGED <<delivered, saw_done, ticks_processed_, producerVars>>

\* run_once pops a tick.
Pop(n) ==
  /\ pc = "poll"
  /\ n \in seen_tail .. Len(sent)
  /\ n # Len(delivered)
  /\ seen_tail' = n
  /\ delivered' = Append(delivered, sent[Len(delivered) + 1])
  /\ pc' = "tick"
  /\ UNCHANGED <<saw_done, final, ticks_processed_, producerVars>>

\* The strategy has handled it; run_once looks for the next one.
Handle ==
  /\ pc = "tick"
  /\ ticks_processed_' = ticks_processed_ + 1
  /\ pc' = "poll"
  /\ UNCHANGED <<delivered, seen_tail, saw_done, final, producerVars>>

\* run_once finds the queue empty and returns, to the loop or to the join.
PopEmpty(n) ==
  /\ pc = "poll"
  /\ n \in seen_tail .. Len(sent)
  /\ n = Len(delivered)
  /\ seen_tail' = n
  /\ pc' = IF final THEN "join" ELSE "done"
  /\ UNCHANGED <<delivered, saw_done, final, ticks_processed_, producerVars>>

\* producer.join(): the report reads the producer's counters after it.
Join ==
  /\ pc = "join" /\ producer_done
  /\ pc' = "report"
  /\ UNCHANGED <<delivered, seen_tail, saw_done, final, ticks_processed_, producerVars>>

RunOnce ==
  \/ \E n \in 0 .. Len(sent) : Pop(n) \/ PopEmpty(n)
  \/ Handle

Consume ==
  \/ ReadNotDone \/ ReadDone
  \/ \E n \in 0 .. Len(sent) : CheckEmpty(n)
  \/ RunOnce
  \/ Join

-----------------------------------------------------------------------------
Next == Produce \/ Consume

Spec == Init /\ [][Next]_vars

(***************************************************************************)
(* Both threads run: sleep_until returns, and the main thread spins.  C++  *)
(* makes a store visible to atomic loads in finite time, so a loop that    *)
(* keeps loading producer_done does not read a stale false for ever.       *)
(***************************************************************************)
Fairness ==
  /\ WF_vars(Produce) /\ WF_vars(Consume)
  /\ SF_vars(ReadDone)

FairSpec == Spec /\ Fairness

-----------------------------------------------------------------------------
(* Properties                                                              *)

TypeOK ==
  /\ sent \in Seq(Ticks) /\ delivered \in Seq(Ticks)
  /\ seen_head \in 0 .. Len(delivered)
  /\ seen_tail \in Len(delivered) .. Len(sent)
  /\ total_sent \in 0 .. NumTicks
  /\ ticks_dropped_ \in Nat /\ ticks_processed_ \in Nat
  /\ producer_done \in BOOLEAN /\ saw_done \in BOOLEAN /\ final \in BOOLEAN
  /\ pc \in {"done", "empty", "poll", "tick", "join", "report"}

\* When the loop of main.cpp:261 ends, on an acquire load of the flag and a
\* relaxed look at the queue, every tick the queue accepted has been handled
\* already: the last run_once has nothing left to find.
DrainedBeforeLast == final => ticks_processed_ = Len(sent)

\* The report of main.cpp:272 adds up: every tick of the file was handled or
\* counted as dropped, though two threads counted.
EveryTickAccounted ==
  pc = "report" => total_sent = NumTicks /\ NumTicks = ticks_processed_ + ticks_dropped_

\* A tick is dropped only when the queue has been filled: a file that fits
\* into the queue is replayed whole, however slow the consumer (push_tick,
\* trading_engine.cpp:26).
NoEarlyDrop == ticks_dropped_ > 0 => Len(sent) >= Capacity

\* Counts read late never let the queue overflow, lose or reorder a tick: what
\* the two loops do to it is what FifoChannel allows.
Fifo == INSTANCE FifoChannel WITH Values <- Ticks
RefinesFifo == Fifo!Spec

\* The replay ends and prints its report.
ReplayEnds == <>(pc = "report")
=============================================================================
