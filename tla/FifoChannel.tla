---------------------------- MODULE FifoChannel ----------------------------
(***************************************************************************)
(* What the tick queue promises to the two threads that share it: a FIFO   *)
(* of bounded capacity.  The state is the history of the channel: the      *)
(* values whose push has returned true, and the values handed to the       *)
(* consumer.  A push that reports a full queue and a pop that reports an   *)
(* empty one are stuttering steps here.                                    *)
(***************************************************************************)
EXTENDS Integers, Sequences

CONSTANTS
  Values,    \* what the producer may push
  Capacity   \* how many values may be in the channel at once

VARIABLES
  sent,      \* every value accepted so far, oldest first
  delivered  \* every value handed out so far, oldest first

channel == <<sent, delivered>>

Init ==
  /\ sent = << >>
  /\ delivered = << >>

\* Values accepted and not handed out yet.
InFlight == Len(sent) - Len(delivered)

\* The producer's value is accepted: only while there is room for it.
Enqueue(v) ==
  /\ InFlight < Capacity
  /\ sent' = Append(sent, v)
  /\ UNCHANGED delivered

\* The consumer is handed the oldest value it has not received.
Dequeue ==
  /\ InFlight > 0
  /\ delivered' = Append(delivered, sent[Len(delivered) + 1])
  /\ UNCHANGED sent

Next == Dequeue \/ \E v \in Values : Enqueue(v)

Spec == Init /\ [][Next]_channel
=============================================================================
