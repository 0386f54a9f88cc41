----------------------------- MODULE SPSCQueue -----------------------------
(***************************************************************************)
(* SPSCQueue<T, Cap> of include/core/spsc_queue.h, the lock-free ring that *)
(* carries market ticks from the producer thread (push_tick) to the        *)
(* consumer thread (run_once).                                             *)
(*                                                                         *)
(* The two atomics are modelled by the C++ memory model, not by sequential *)
(* consistency.  Each has one writer; its modification order is a sequence *)
(* of messages, and a load by the other thread returns any message that is *)
(* not older than the last one it read (coherence).  A message carries the *)
(* ring index stored and, because the store is a release, how many slot    *)
(* accesses of the writer happen before it.  An acquire load joins that    *)
(* number into the reader's view.  A slot access races unless the previous *)
(* access to the slot is inside the view of the thread making it.          *)
(***************************************************************************)
EXTENDS Integers, Sequences

CONSTANTS
  Values,     \* element values
  Dead,       \* content of a slot that holds no live object
  Cap,        \* number of slots: the template parameter, a power of two
  MaxPushes   \* bound of the model on the number of accepted pushes

ASSUME CapAssumption == Cap \in Nat \ {0}
ASSUME BoundAssumption == MaxPushes \in Nat
ASSUME DeadAssumption == Dead \notin Values

VARIABLES
  data,       \* slot -> the object living there, or Dead
  stamp,      \* slot -> ordinal of the last construction or destruction in it
  tail_,      \* modification order of tail_: sequence of [idx, built]
  head_,      \* modification order of head_: sequence of [idx, freed]
  seen_head,  \* position in head_ of the message the producer read last
  seen_tail,  \* position in tail_ of the message the consumer read last
  view_p,     \* destructions that happen before the producer's next step
  view_c,     \* constructions that happen before the consumer's next step
  built,      \* objects constructed so far
  freed,      \* objects destroyed so far
  producer,   \* [pc, val]: where try_push stands, and its argument
  consumer,   \* [pc, val]: where try_pop stands, and the value moved out
  sent,       \* history: values whose push returned true
  delivered   \* history: values returned by pop

producerVars == <<tail_, seen_head, view_p, built, producer, sent>>
consumerVars == <<head_, seen_tail, view_c, freed, consumer, delivered>>
vars == <<data, stamp, producerVars, consumerVars>>

Slots == 0 .. Cap - 1

\* Fault: the mask is forgotten.
NextIdxUnmasked(i) == i + 1

\* (i + 1) & kMask: kMask is Cap - 1 and Cap a power of two.
NextIdx(i) == (i + 1) % Cap

Later(a, b) == IF a < b THEN b ELSE a

\* A thread's relaxed load of the index only it writes is exact.
OwnTail == tail_[Len(tail_)].idx
OwnHead == head_[Len(head_)].idx

Idle == [pc |-> "idle", val |-> Dead]

Init ==
  /\ data = [i \in Slots |-> Dead]
  /\ stamp = [i \in Slots |-> 0]
  /\ tail_ = << [idx |-> 0, built |-> 0] >>
  /\ head_ = << [idx |-> 0, freed |-> 0] >>
  /\ seen_head = 1 /\ seen_tail = 1
  /\ view_p = 0 /\ view_c = 0
  /\ built = 0 /\ freed = 0
  /\ producer = Idle /\ consumer = Idle
  /\ sent = << >> /\ delivered = << >>

-----------------------------------------------------------------------------
(* try_push                                                                *)

\* Fault: a relaxed load, which brings no happens-before.
LoadHeadRelaxed(k) ==
  /\ k \in seen_head .. Len(head_)
  /\ seen_head' = k
  /\ UNCHANGED view_p

\* The acquire load of head_ returns the k-th message of its order.
LoadHead(k) ==
  /\ k \in seen_head .. Len(head_)
  /\ seen_head' = k
  /\ view_p' = Later(view_p, head_[k].freed)

\* next_tail == head: the queue looks full, try_push returns false.
PushFull(k) ==
  /\ producer.pc = "idle"
  /\ LoadHead(k)
  /\ NextIdx(OwnTail) = head_[k].idx
  /\ UNCHANGED <<data, stamp, tail_, built, producer, sent, consumerVars>>

PushAdmit(v, k) ==
  /\ producer.pc = "idle"
  /\ Len(sent) < MaxPushes
  /\ LoadHead(k)
  /\ NextIdx(OwnTail) # head_[k].idx
  /\ producer' = [pc |-> "construct", val |-> v]
  /\ UNCHANGED <<data, stamp, tail_, built, sent, consumerVars>>

\* Placement new into the slot at tail.
Construct ==
  /\ producer.pc = "construct"
  /\ built' = built + 1
  /\ data' = [data EXCEPT ![OwnTail] = producer.val]
  /\ stamp' = [stamp EXCEPT ![OwnTail] = built']
  /\ producer' = [producer EXCEPT !.pc = "publish"]
  /\ UNCHANGED <<tail_, seen_head, view_p, sent, consumerVars>>

\* Fault: tail_ is stored back unchanged.
PublishSameIndex ==
  /\ producer.pc = "publish"
  /\ tail_' = Append(tail_, [idx |-> OwnTail, built |-> built])
  /\ sent' = Append(sent, producer.val)
  /\ producer' = Idle
  /\ UNCHANGED <<data, stamp, seen_head, view_p, built, consumerVars>>

\* The release store of tail_.
Publish ==
  /\ producer.pc = "publish"
  /\ tail_' = Append(tail_, [idx |-> NextIdx(OwnTail), built |-> built])
  /\ sent' = Append(sent, producer.val)
  /\ producer' = Idle
  /\ UNCHANGED <<data, stamp, seen_head, view_p, built, consumerVars>>

-----------------------------------------------------------------------------
(* try_pop                                                                 *)

\* Fault: a relaxed load, which brings no happens-before.
LoadTailRelaxed(k) ==
  /\ k \in seen_tail .. Len(tail_)
  /\ seen_tail' = k
  /\ UNCHANGED view_c

\* The acquire load of tail_ returns the k-th message of its order.
LoadTail(k) ==
  /\ k \in seen_tail .. Len(tail_)
  /\ seen_tail' = k
  /\ view_c' = Later(view_c, tail_[k].built)

\* head == tail: the queue looks empty, try_pop returns nullopt.
PopEmpty(k) ==
  /\ consumer.pc = "idle"
  /\ LoadTail(k)
  /\ OwnHead = tail_[k].idx
  /\ UNCHANGED <<data, stamp, head_, freed, consumer, delivered, producerVars>>

PopAdmit(k) ==
  /\ consumer.pc = "idle"
  /\ LoadTail(k)
  /\ OwnHead # tail_[k].idx
  /\ consumer' = [consumer EXCEPT !.pc = "take"]
  /\ UNCHANGED <<data, stamp, head_, freed, delivered, producerVars>>

\* Move the object out of the slot at head and destroy it.
Take ==
  /\ consumer.pc = "take"
  /\ freed' = freed + 1
  /\ consumer' = [pc |-> "release", val |-> data[OwnHead]]
  /\ data' = [data EXCEPT ![OwnHead] = Dead]
  /\ stamp' = [stamp EXCEPT ![OwnHead] = freed']
  /\ UNCHANGED <<head_, seen_tail, view_c, delivered, producerVars>>

\* Fault: head_ is not advanced, the value can be popped again.
ReleaseSameIndex ==
  /\ consumer.pc = "release"
  /\ head_' = Append(head_, [idx |-> OwnHead, freed |-> freed])
  /\ delivered' = Append(delivered, consumer.val)
  /\ consumer' = Idle
  /\ UNCHANGED <<data, stamp, seen_tail, view_c, freed, producerVars>>

\* The release store of head_.
Release ==
  /\ consumer.pc = "release"
  /\ head_' = Append(head_, [idx |-> NextIdx(OwnHead), freed |-> freed])
  /\ delivered' = Append(delivered, consumer.val)
  /\ consumer' = Idle
  /\ UNCHANGED <<data, stamp, seen_tail, view_c, freed, producerVars>>

-----------------------------------------------------------------------------
Push ==
  \/ \E k \in 1 .. Len(head_) : PushFull(k) \/ \E v \in Values : PushAdmit(v, k)
  \/ Construct
  \/ Publish

Pop ==
  \/ \E k \in 1 .. Len(tail_) : PopEmpty(k) \/ PopAdmit(k)
  \/ Take
  \/ Release

Next == Push \/ Pop

Spec == Init /\ [][Next]_vars

(***************************************************************************)
(* The consumer thread polls forever (run() and the replay loop spin on    *)
(* run_once), and C++ promises that a store becomes visible to an atomic   *)
(* load in finite time: the newest tail_ is read again and again.  The     *)
(* producer owes nothing but to finish a push it has begun.                *)
(***************************************************************************)
Fairness ==
  /\ WF_vars(PopAdmit(Len(tail_)))
  /\ WF_vars(Take) /\ WF_vars(Release)
  /\ WF_vars(Construct) /\ WF_vars(Publish)

FairSpec == Spec /\ Fairness

-----------------------------------------------------------------------------
(* Properties                                                              *)

TypeOK ==
  /\ data \in [Slots -> Values \cup {Dead}]
  /\ stamp \in [Slots -> Nat]
  /\ tail_ \in Seq([idx : Slots, built : Nat]) /\ tail_ # << >>
  /\ head_ \in Seq([idx : Slots, freed : Nat]) /\ head_ # << >>
  /\ seen_head \in 1 .. Len(head_)
  /\ seen_tail \in 1 .. Len(tail_)
  /\ view_p \in Nat /\ view_c \in Nat /\ built \in Nat /\ freed \in Nat
  /\ producer \in [pc : {"idle", "construct", "publish"}, val : Values \cup {Dead}]
  /\ consumer \in [pc : {"idle", "take", "release"}, val : Values \cup {Dead}]
  /\ sent \in Seq(Values \cup {Dead})
  /\ delivered \in Seq(Values \cup {Dead})

\* When try_push is about to construct (spsc_queue.h:56), the slot holds no
\* live object and the consumer's destruction of the previous one happens
\* before: no torn or overwritten tick, whatever stale head_ was read.
NoOverwriteRace ==
  producer.pc = "construct" =>
    /\ data[OwnTail] = Dead
    /\ stamp[OwnTail] <= view_p

\* When try_pop is about to move the object out (spsc_queue.h:77), the slot
\* holds a live object whose construction happens before: no read of raw bytes.
NoUninitializedRead ==
  consumer.pc = "take" =>
    /\ data[OwnHead] # Dead
    /\ stamp[OwnHead] <= view_c

\* The ring implements the bounded FIFO of Cap - 1 elements: nothing lost,
\* duplicated or reordered, one slot kept free (capacity()).
Fifo == INSTANCE FifoChannel WITH Capacity <- Cap - 1
RefinesFifo == Fifo!Spec

\* Every accepted value is eventually handed to the polling consumer.
EveryPushIsDelivered ==
  \A n \in 1 .. MaxPushes : Len(sent) >= n ~> Len(delivered) >= n
=============================================================================
