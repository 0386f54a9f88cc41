------------------------ MODULE RealtimeReplayProofs ------------------------
(***************************************************************************)
(* The replay loop drains the queue and its counters add up, for every     *)
(* file and every capacity.  The argument: once the main thread has read   *)
(* producer_done no more ticks are sent and it knows the newest tail_, so  *)
(* the relaxed test of the queue is exact.                                 *)
(***************************************************************************)
EXTENDS RealtimeReplay, TLAPS

\* Every push was counted once, every pop is handled or being handled.
Accounts ==
  /\ total_sent = Len(sent) + ticks_dropped_
  /\ Len(delivered) = ticks_processed_ + (IF pc = "tick" THEN 1 ELSE 0)

\* The producer leaves room for what it does not know to be released.
Room ==
  /\ Len(sent) - seen_head <= Capacity
  /\ NoEarlyDrop

\* What the main thread knows once it has seen the flag.
Flags ==
  /\ producer_done => total_sent = NumTicks
  /\ saw_done => producer_done /\ seen_tail = Len(sent)
  /\ pc = "empty" => saw_done
  /\ final => saw_done /\ Len(delivered) = Len(sent) /\ pc \in {"poll", "join", "report"}
  /\ pc \in {"join", "report"} => final

IndInv == TypeOK /\ Accounts /\ Room /\ Flags

\* Appending to a sequence lengthens it by one.
LEMMA AppendFacts ==
  ASSUME NEW S, NEW s \in Seq(S), NEW e \in S
  PROVE  Append(s, e) \in Seq(S) /\ Len(Append(s, e)) = Len(s) + 1
  OBVIOUS

\* Nothing sent, nothing read.
LEMMA InitInv == Init => IndInv
<1> SUFFICES ASSUME Init PROVE IndInv
  OBVIOUS
<1> USE TicksAssumption, CapacityAssumption DEF Init
<1>1. TypeOK
  <2>1. sent \in Seq(Ticks) /\ delivered \in Seq(Ticks) /\ Len(sent) = 0 /\ Len(delivered) = 0
    OBVIOUS
  <2>2. seen_head \in 0 .. Len(delivered) /\ seen_tail \in Len(delivered) .. Len(sent)
    BY <2>1
  <2>3. total_sent \in 0 .. NumTicks /\ ticks_dropped_ \in Nat /\ ticks_processed_ \in Nat
    OBVIOUS
  <2>4. producer_done \in BOOLEAN /\ saw_done \in BOOLEAN /\ final \in BOOLEAN
    OBVIOUS
  <2>5. pc \in {"done", "empty", "poll", "tick", "join", "report"}
    OBVIOUS
  <2> QED BY <2>1, <2>2, <2>3, <2>4, <2>5, Zenon DEF TypeOK
<1>2. Accounts /\ Room /\ Flags
  BY DEF Accounts, Room, Flags, NoEarlyDrop
<1> QED BY <1>1, <1>2 DEF IndInv

\* The reader's thread never moves what the consumer knows.
LEMMA ProduceInv == IndInv /\ Produce => IndInv'
<1> SUFFICES ASSUME IndInv, Produce PROVE IndInv'
  OBVIOUS
<1> USE TicksAssumption, CapacityAssumption
<1>1. TypeOK /\ Accounts /\ Room /\ Flags
  BY DEF IndInv
<1>2. ASSUME NEW n \in 0 .. Len(delivered), Accept(n) PROVE IndInv'
  <2>1. sent' \in Seq(Ticks) /\ Len(sent') = Len(sent) + 1
    <3>1. total_sent + 1 \in Ticks
      BY <1>1, <1>2 DEF TypeOK, Accept, Ticks
    <3> QED BY <3>1, <1>1, <1>2, AppendFacts DEF TypeOK, Accept
  <2>2. TypeOK'
    BY <2>1, <1>1, <1>2 DEF TypeOK, Accept, consumerVars
  <2>3. Accounts' /\ Flags'
    BY <2>1, <1>1, <1>2 DEF TypeOK, Accounts, Flags, Accept, consumerVars
  <2>4. Room'
    BY <2>1, <1>1, <1>2 DEF TypeOK, Room, NoEarlyDrop, Accept, LooksFull, consumerVars
  <2> QED BY <2>2, <2>3, <2>4 DEF IndInv
<1>3. ASSUME NEW n \in 0 .. Len(delivered), Drop(n) PROVE IndInv'
  <2>1. TypeOK'
    BY <1>1, <1>3 DEF TypeOK, Drop, consumerVars
  <2>2. Accounts' /\ Flags'
    BY <1>1, <1>3 DEF TypeOK, Accounts, Flags, Drop, consumerVars
  <2>3. Room'
    BY <1>1, <1>3 DEF TypeOK, Room, NoEarlyDrop, Drop, LooksFull, consumerVars
  <2> QED BY <2>1, <2>2, <2>3 DEF IndInv
<1>4. ASSUME Finish PROVE IndInv'
  BY <1>1, <1>4 DEF IndInv, TypeOK, Accounts, Room, NoEarlyDrop, Flags, Finish, consumerVars
<1> QED BY <1>2, <1>3, <1>4 DEF Produce

\* The consumer's thread never moves what the reader of the file knows.
LEMMA ConsumeInv == IndInv /\ Consume => IndInv'
<1> SUFFICES ASSUME IndInv, Consume PROVE IndInv'
  OBVIOUS
<1> USE TicksAssumption, CapacityAssumption
<1>1. TypeOK /\ Accounts /\ Room /\ Flags
  BY DEF IndInv
<1>2. ASSUME ReadNotDone PROVE IndInv'
  BY <1>1, <1>2 DEF IndInv, TypeOK, Accounts, Room, NoEarlyDrop, Flags, ReadNotDone, producerVars
<1>3. ASSUME ReadDone PROVE IndInv'
  BY <1>1, <1>3 DEF IndInv, TypeOK, Accounts, Room, NoEarlyDrop, Flags, ReadDone, producerVars
<1>4. ASSUME NEW n \in 0 .. Len(sent), CheckEmpty(n) PROVE IndInv'
  BY <1>1, <1>4 DEF IndInv, TypeOK, Accounts, Room, NoEarlyDrop, Flags, CheckEmpty, producerVars
<1>5. ASSUME NEW n \in 0 .. Len(sent), Pop(n) PROVE IndInv'
  <2>1. Len(delivered) < n /\ n <= Len(sent)
    BY <1>1, <1>5 DEF TypeOK, Pop
  <2>2. delivered' \in Seq(Ticks) /\ Len(delivered') = Len(delivered) + 1
    <3>1. sent[Len(delivered) + 1] \in Ticks
      BY <2>1, <1>1 DEF TypeOK
    <3> QED BY <3>1, <1>1, <1>5, AppendFacts DEF TypeOK, Pop
  <2>3. TypeOK'
    BY <2>1, <2>2, <1>1, <1>5 DEF TypeOK, Pop, producerVars
  <2>4. ~final
    BY <2>1, <1>1, <1>5 DEF TypeOK, Flags, Pop
  <2>5. Accounts' /\ Room' /\ Flags'
    BY <2>1, <2>2, <2>4, <1>1, <1>5
    DEF TypeOK, Accounts, Room, NoEarlyDrop, Flags, Pop, producerVars
  <2> QED BY <2>3, <2>5 DEF IndInv
<1>6. ASSUME Handle PROVE IndInv'
  BY <1>1, <1>6 DEF IndInv, TypeOK, Accounts, Room, NoEarlyDrop, Flags, Handle, producerVars
<1>7. ASSUME NEW n \in 0 .. Len(sent), PopEmpty(n) PROVE IndInv'
  BY <1>1, <1>7 DEF IndInv, TypeOK, Accounts, Room, NoEarlyDrop, Flags, PopEmpty, producerVars
<1>8. ASSUME Join PROVE IndInv'
  BY <1>1, <1>8 DEF IndInv, TypeOK, Accounts, Room, NoEarlyDrop, Flags, Join, producerVars
<1> QED BY <1>2, <1>3, <1>4, <1>5, <1>6, <1>7, <1>8 DEF Consume, RunOnce

\* IndInv holds throughout every replay.
THEOREM Inductive == Spec => []IndInv
<1>1. IndInv /\ [Next]_vars => IndInv'
  <2> SUFFICES ASSUME IndInv, [Next]_vars PROVE IndInv'
    OBVIOUS
  <2>1. ASSUME UNCHANGED vars PROVE IndInv'
    BY <2>1 DEF vars, producerVars, consumerVars, IndInv, TypeOK, Accounts, Room,
                NoEarlyDrop, Flags
  <2> QED BY <2>1, ProduceInv, ConsumeInv DEF Next
<1> QED BY <1>1, InitInv, PTL DEF Spec

\* The counts that the threads hold keep their order: delivered, seen, sent.
THEOREM TypeCorrect == Spec => []TypeOK
<1>1. IndInv => TypeOK
  BY DEF IndInv
<1> QED BY <1>1, Inductive, PTL

\* The loop of main.cpp:261 ends only when every accepted tick was handled,
\* so its last run_once finds nothing.
THEOREM Drained == Spec => []DrainedBeforeLast
<1>1. IndInv => DrainedBeforeLast
  BY DEF IndInv, TypeOK, Accounts, Flags, DrainedBeforeLast
<1> QED BY <1>1, Inductive, PTL

\* The report's totals add up to the length of the file.
THEOREM Accounted == Spec => []EveryTickAccounted
<1>1. IndInv => EveryTickAccounted
  BY TicksAssumption DEF IndInv, TypeOK, Accounts, Flags, EveryTickAccounted
<1> QED BY <1>1, Inductive, PTL

\* A file that fits into the queue is replayed whole.
THEOREM DropsNeedAFullQueue == Spec => []NoEarlyDrop
<1>1. IndInv => NoEarlyDrop
  BY DEF IndInv, Room
<1> QED BY <1>1, Inductive, PTL

\* Counting with stale reads implements the bounded FIFO.
THEOREM ImplementsFifo == Spec => RefinesFifo
<1>1. Init => Fifo!Init
  BY DEF Init, Fifo!Init
<1>2. IndInv /\ [Next]_vars => [Fifo!Next]_(Fifo!channel)
  <2> SUFFICES ASSUME IndInv, [Next]_vars PROVE Fifo!Next \/ UNCHANGED <<sent, delivered>>
    BY DEF Fifo!channel
  <2> USE TicksAssumption, CapacityAssumption
  <2>1. TypeOK /\ Room
    BY DEF IndInv
  <2>2. ASSUME NEW n \in 0 .. Len(delivered), Accept(n) PROVE Fifo!Next
    <3>1. total_sent + 1 \in Ticks
      BY <2>1, <2>2 DEF TypeOK, Accept, Ticks
    <3>2. Len(sent) - Len(delivered) < Capacity
      BY <2>1, <2>2 DEF TypeOK, Room, Accept, LooksFull
    <3>3. Fifo!Enqueue(total_sent + 1)
      BY <2>2, <3>2 DEF Accept, consumerVars, Fifo!Enqueue, Fifo!InFlight
    <3> QED BY <3>1, <3>3 DEF Fifo!Next
  <2>3. ASSUME NEW n \in 0 .. Len(sent), Pop(n) PROVE Fifo!Next
    <3>1. Len(sent) - Len(delivered) > 0
      BY <2>1, <2>3 DEF TypeOK, Pop
    <3> QED BY <2>3, <3>1 DEF Pop, producerVars, Fifo!Next, Fifo!Dequeue, Fifo!InFlight
  <2>4. ASSUME Finish \/ \E n \in 0 .. Len(delivered) : Drop(n)
        PROVE UNCHANGED <<sent, delivered>>
    BY <2>4 DEF Finish, Drop, consumerVars
  <2>5. ASSUME \/ ReadNotDone \/ ReadDone \/ Handle \/ Join
               \/ \E n \in 0 .. Len(sent) : CheckEmpty(n) \/ PopEmpty(n)
        PROVE UNCHANGED <<sent, delivered>>
    BY <2>5 DEF ReadNotDone, ReadDone, Handle, Join, CheckEmpty, PopEmpty, producerVars
  <2>6. ASSUME UNCHANGED vars PROVE UNCHANGED <<sent, delivered>>
    BY <2>6 DEF vars, producerVars, consumerVars
  <2> QED
    BY <2>2, <2>3, <2>4, <2>5, <2>6 DEF Next, Produce, Consume, RunOnce
<1> QED
  BY <1>1, <1>2, Inductive, PTL DEF Spec, RefinesFifo, Fifo!Spec
=============================================================================
