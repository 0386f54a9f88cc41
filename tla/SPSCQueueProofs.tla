-------------------------- MODULE SPSCQueueProofs --------------------------
(***************************************************************************)
(* The ring of SPSCQueue.tla is race-free and implements FifoChannel, for  *)
(* every number of slots.  The proof counts objects instead of slots: the  *)
(* o-th object ever pushed lives in slot Slot(o), the objects freed+1 ..   *)
(* built are live, and the next Cap - (built - freed) places are dead.     *)
(***************************************************************************)
EXTENDS SPSCQueue, Arithmetic

\* The slot of the o-th object, counting from 1.
Slot(o) == (o - 1) % Cap

\* The value of the o-th object.
Value(o) == IF o <= Len(sent) THEN sent[o] ELSE producer.val

Counts ==
  /\ built = Len(sent) + (IF producer.pc = "publish" THEN 1 ELSE 0)
  /\ freed = Len(delivered) + (IF consumer.pc = "release" THEN 1 ELSE 0)

\* The k-th message in each modification order is the index after k-1 objects.
Orders ==
  /\ Len(tail_) = Len(sent) + 1
  /\ \A k \in 1 .. Len(tail_) : tail_[k] = [idx |-> Slot(k), built |-> k - 1]
  /\ Len(head_) = Len(delivered) + 1
  /\ \A k \in 1 .. Len(head_) : head_[k] = [idx |-> Slot(k), freed |-> k - 1]

Views ==
  /\ view_p = seen_head - 1
  /\ view_c = seen_tail - 1

\* The producer keeps one slot free of what it knows to be released, and a
\* second one while it is about to construct.
Room ==
  /\ built - view_p <= Cap - 1
  /\ producer.pc = "construct" => built - view_p <= Cap - 2

\* The consumer only frees what it knows to be published.
Avail ==
  /\ freed <= view_c
  /\ consumer.pc = "take" => freed < view_c

Live ==
  \A o \in freed + 1 .. built : data[Slot(o)] = Value(o) /\ stamp[Slot(o)] = o

Free ==
  \A o \in built + 1 .. freed + Cap :
    /\ data[Slot(o)] = Dead
    /\ stamp[Slot(o)] = IF o <= Cap THEN 0 ELSE o - Cap

InHand ==
  /\ sent \in Seq(Values)
  /\ producer.pc \in {"construct", "publish"} => producer.val \in Values
  /\ consumer.pc = "release" => consumer.val = sent[freed]

IndInv ==
  TypeOK /\ Counts /\ Orders /\ Views /\ Room /\ Avail /\ Live /\ Free /\ InHand

-----------------------------------------------------------------------------
\* Slots of successive objects: in range, consecutive, periodic, and distinct
\* within a lap.
LEMMA SlotFacts ==
  /\ \A o \in Nat \ {0} : Slot(o) \in Slots
  /\ \A o \in Nat \ {0} : NextIdx(Slot(o)) = Slot(o + 1)
  /\ \A o \in Nat \ {0} : Slot(o + Cap) = Slot(o)
  /\ \A a, b \in Nat \ {0} : a < b /\ b - a < Cap => Slot(a) # Slot(b)
<1>1. ASSUME NEW o \in Nat \ {0} PROVE Slot(o) \in Slots
  BY CapAssumption, DivMod, o - 1 \in Nat DEF Slot, Slots
<1>2. ASSUME NEW o \in Nat \ {0} PROVE NextIdx(Slot(o)) = Slot(o + 1)
  <2>1. (((o-1) % Cap) + 1) % Cap = ((o-1) + 1) % Cap
    BY CapAssumption, ModStep, o - 1 \in Nat
  <2>2. (o-1) + 1 = (o+1) - 1
    OBVIOUS
  <2> QED
    BY <2>1, <2>2 DEF Slot, NextIdx
<1>3. ASSUME NEW o \in Nat \ {0} PROVE Slot(o + Cap) = Slot(o)
  <2>1. ((o-1) + Cap) % Cap = (o-1) % Cap
    BY CapAssumption, ModWrap, o - 1 \in Nat
  <2>2. (o-1) + Cap = (o + Cap) - 1
    BY CapAssumption
  <2> QED
    BY <2>1, <2>2 DEF Slot
<1>4. ASSUME NEW a \in Nat \ {0}, NEW b \in Nat \ {0}, a < b, b - a < Cap
      PROVE  Slot(a) # Slot(b)
  BY <1>4, CapAssumption, ModDiff, a-1 \in Nat, b-1 \in Nat, a-1 < b-1, (b-1)-(a-1) < Cap
     DEF Slot
<1> QED
  BY <1>1, <1>2, <1>3, <1>4

\* Where the counters stand: never more objects freed than published, never
\* more alive than slots, and the own index of each side is the next object's.
LEMMA CounterFacts ==
  ASSUME IndInv
  PROVE  /\ Len(sent) \in Nat /\ Len(delivered) \in Nat
         /\ built \in Nat /\ freed \in Nat /\ view_p \in Nat /\ view_c \in Nat
         /\ view_p <= Len(delivered) /\ Len(delivered) <= freed
         /\ freed <= view_c /\ view_c <= Len(sent) /\ Len(sent) <= built
         /\ built - freed <= Cap - 1
         /\ OwnTail = Slot(Len(sent) + 1) /\ OwnHead = Slot(Len(delivered) + 1)
         /\ Len(tail_) = Len(sent) + 1 /\ Len(head_) = Len(delivered) + 1
         /\ seen_head \in Nat \ {0} /\ seen_tail \in Nat \ {0}
         /\ Cap \in Nat \ {0}
<1>1. Len(sent) \in Nat /\ Len(delivered) \in Nat
  <2>1. sent \in Seq(Values \cup {Dead}) /\ delivered \in Seq(Values \cup {Dead})
    BY DEF IndInv, TypeOK
  <2> QED
    BY <2>1
<1>2. OwnTail = Slot(Len(sent) + 1) /\ OwnHead = Slot(Len(delivered) + 1)
  BY <1>1 DEF IndInv, Orders, OwnTail, OwnHead
<1>3. view_p <= Len(delivered) /\ view_c <= Len(sent)
  BY <1>1 DEF IndInv, TypeOK, Views, Orders
<1>4. Len(delivered) <= freed /\ Len(sent) <= built
  BY <1>1 DEF IndInv, Counts
<1>5. /\ {built, freed, view_p, view_c} \subseteq Nat /\ Cap \in Nat \ {0}
      /\ freed <= view_c /\ built - view_p <= Cap - 1
  BY CapAssumption DEF IndInv, TypeOK, Room, Avail
<1>6. Len(tail_) = Len(sent) + 1 /\ Len(head_) = Len(delivered) + 1
  BY DEF IndInv, Orders
<1>7. seen_head \in 1 .. Len(head_) /\ seen_tail \in 1 .. Len(tail_)
  BY DEF IndInv, TypeOK
<1> QED
  BY <1>1, <1>2, <1>3, <1>4, <1>5, <1>6, <1>7

\* The ring starts empty, with every slot dead.
LEMMA InitInd == Init => IndInv
<1> SUFFICES ASSUME Init PROVE IndInv
  OBVIOUS
<1>1. 0 \in Slots /\ Slot(1) = 0
  <2>1. 0 = Cap * 0 + 0 /\ 0 \in 0 .. Cap-1
    BY CapAssumption
  <2>2. 0 % Cap = 0
    BY <2>1, CapAssumption, ModIs
  <2> QED
    BY <2>1, <2>2 DEF Slot, Slots
<1>2. TypeOK
  BY <1>1 DEF Init, Idle, TypeOK
<1>3. Counts /\ Orders /\ Views /\ Room /\ Avail /\ InHand
  BY <1>1, CapAssumption DEF Init, Idle, Counts, Orders, Views, Room, Avail, InHand
<1>4. Live /\ Free
  BY SlotFacts, CapAssumption DEF Init, Live, Free
<1> QED
  BY <1>2, <1>3, <1>4 DEF IndInv

\* What an acquire load of head_ brings: the number of released objects.
LEMMA LoadHeadFacts ==
  ASSUME IndInv, NEW k, LoadHead(k)
  PROVE  /\ k \in Nat \ {0} /\ seen_head' = k /\ k \in 1 .. Len(head_)
         /\ view_p' = k - 1 /\ view_p <= view_p' /\ view_p' <= Len(delivered)
         /\ head_[k].idx = Slot(k)
<1>1. seen_head \in Nat \ {0} /\ Len(head_) = Len(delivered) + 1 /\ Len(delivered) \in Nat
  BY CounterFacts
<1>2. k \in 1 .. Len(head_) /\ k >= seen_head /\ seen_head' = k
  BY <1>1 DEF LoadHead
<1>3. head_[k] = [idx |-> Slot(k), freed |-> k - 1]
  BY <1>2 DEF IndInv, Orders
<1>4. view_p' = Later(view_p, k - 1) /\ view_p = seen_head - 1
  BY <1>3 DEF LoadHead, IndInv, Views
<1> QED
  BY <1>1, <1>2, <1>3, <1>4 DEF Later

\* What an acquire load of tail_ brings: the number of published objects.
LEMMA LoadTailFacts ==
  ASSUME IndInv, NEW k, LoadTail(k)
  PROVE  /\ k \in Nat \ {0} /\ seen_tail' = k /\ k \in 1 .. Len(tail_)
         /\ view_c' = k - 1 /\ view_c <= view_c' /\ view_c' <= Len(sent)
         /\ tail_[k].idx = Slot(k)
<1>1. seen_tail \in Nat \ {0} /\ Len(tail_) = Len(sent) + 1 /\ Len(sent) \in Nat
  BY CounterFacts
<1>2. k \in 1 .. Len(tail_) /\ k >= seen_tail /\ seen_tail' = k
  BY <1>1 DEF LoadTail
<1>3. tail_[k] = [idx |-> Slot(k), built |-> k - 1]
  BY <1>2 DEF IndInv, Orders
<1>4. view_c' = Later(view_c, k - 1) /\ view_c = seen_tail - 1
  BY <1>3 DEF LoadTail, IndInv, Views
<1> QED
  BY <1>1, <1>2, <1>3, <1>4 DEF Later

\* A push that looks full only refreshes what the producer knows.
LEMMA PushFullInd ==
  ASSUME IndInv, NEW k, PushFull(k)
  PROVE  IndInv'
<1>1. LoadHead(k) /\ UNCHANGED <<data, stamp, tail_, built, producer, sent, consumerVars>>
  BY DEF PushFull
<1>2. UNCHANGED <<head_, seen_tail, view_c, freed, consumer, delivered>>
  BY <1>1 DEF consumerVars
<1>3. TypeOK /\ Counts /\ Orders /\ Views /\ Room /\ Avail /\ Live /\ Free /\ InHand
  BY DEF IndInv
<1>4. /\ k \in 1 .. Len(head_) /\ seen_head' = k /\ k \in Nat
      /\ view_p' = k - 1 /\ view_p <= view_p' /\ view_p' \in Nat
  BY <1>1, LoadHeadFacts
<1>5. TypeOK'
  BY <1>1, <1>2, <1>3, <1>4 DEF TypeOK
<1>6. Counts' /\ Orders' /\ Avail' /\ InHand'
  BY <1>1, <1>2, <1>3 DEF Counts, Orders, Avail, InHand
<1>7. Live' /\ Free'
  BY <1>1, <1>2, <1>3 DEF Live, Free, Value
<1>8. Views'
  BY <1>1, <1>2, <1>3, <1>4 DEF Views
<1>9. Room'
  <2>1. built \in Nat /\ view_p \in Nat /\ Cap \in Nat
    BY CounterFacts
  <2>2. built' = built /\ producer' = producer
    BY <1>1
  <2> QED
    BY <2>1, <2>2, <1>3, <1>4 DEF Room
<1> QED
  BY <1>5, <1>6, <1>7, <1>8, <1>9 DEF IndInv

\* A push is admitted only when a second slot is known to be free.
LEMMA PushAdmitInd ==
  ASSUME IndInv, NEW v \in Values, NEW k, PushAdmit(v, k)
  PROVE  IndInv'
<1>1. /\ LoadHead(k) /\ producer.pc = "idle" /\ NextIdx(OwnTail) # head_[k].idx
      /\ producer' = [pc |-> "construct", val |-> v]
      /\ UNCHANGED <<data, stamp, tail_, built, sent, consumerVars>>
  BY DEF PushAdmit
<1>2. UNCHANGED <<head_, seen_tail, view_c, freed, consumer, delivered>>
  BY <1>1 DEF consumerVars
<1>3. TypeOK /\ Counts /\ Orders /\ Views /\ Room /\ Avail /\ Live /\ Free /\ InHand
  BY DEF IndInv
<1>4. /\ k \in 1 .. Len(head_) /\ seen_head' = k /\ k \in Nat \ {0}
      /\ view_p' = k - 1 /\ view_p <= view_p' /\ view_p' \in Nat
      /\ head_[k].idx = Slot(k) /\ view_p' <= Len(delivered)
  BY <1>1, LoadHeadFacts
<1>5. built = Len(sent)
  BY <1>1, <1>3, CounterFacts DEF Counts
<1>6. /\ built \in Nat /\ view_p \in Nat /\ freed \in Nat /\ Cap \in Nat \ {0}
      /\ Len(sent) \in Nat /\ OwnTail = Slot(Len(sent) + 1)
      /\ view_p' <= built
  BY <1>4, CounterFacts
<1>7. TypeOK'
  BY <1>1, <1>2, <1>3, <1>4 DEF TypeOK
<1>8. Counts' /\ Orders' /\ Avail' /\ InHand'
  BY <1>1, <1>2, <1>3 DEF Counts, Orders, Avail, InHand
<1>9. Live' /\ Free'
  BY <1>1, <1>2, <1>3, <1>5, <1>6 DEF Live, Free, Value
<1>10. Views'
  BY <1>1, <1>2, <1>3, <1>4 DEF Views
<1>11. Room'
  <2>1. NextIdx(OwnTail) = Slot(Len(sent) + 2)
    <3>1. NextIdx(OwnTail) = Slot((Len(sent) + 1) + 1) /\ (Len(sent) + 1) + 1 = Len(sent) + 2
      BY <1>6, SlotFacts
    <3> QED
      BY <3>1
  <2>2. Len(sent) + 2 # k + Cap
    BY <2>1, <1>1, <1>4, <1>6, SlotFacts
  <2> QED
    BY <2>2, <1>1, <1>3, <1>4, <1>5, <1>6 DEF Room
<1> QED
  BY <1>7, <1>8, <1>9, <1>10, <1>11 DEF IndInv

\* The new object takes the slot at tail_, which no live object occupies.
LEMMA ConstructInd ==
  ASSUME IndInv, Construct
  PROVE  IndInv'
<1>1. /\ producer.pc = "construct" /\ built' = built + 1
      /\ data' = [data EXCEPT ![OwnTail] = producer.val]
      /\ stamp' = [stamp EXCEPT ![OwnTail] = built + 1]
      /\ producer' = [producer EXCEPT !.pc = "publish"]
      /\ UNCHANGED <<tail_, seen_head, view_p, sent, consumerVars>>
  BY DEF Construct
<1>2. UNCHANGED <<head_, seen_tail, view_c, freed, consumer, delivered>>
  BY <1>1 DEF consumerVars
<1>3. TypeOK /\ Counts /\ Orders /\ Views /\ Room /\ Avail /\ Live /\ Free /\ InHand
  BY DEF IndInv
<1>4. producer'.pc = "publish" /\ producer'.val = producer.val /\ producer.val \in Values
  BY <1>1, <1>3 DEF TypeOK, InHand
<1>5. built = Len(sent)
  BY <1>1, <1>3, CounterFacts DEF Counts
<1>6. /\ built \in Nat /\ freed \in Nat /\ Cap \in Nat \ {0} /\ freed <= built
      /\ Len(sent) \in Nat /\ view_p \in Nat /\ view_p <= freed
      /\ built - freed < Cap - 1
  BY <1>1, <1>3, CounterFacts DEF Room
<1>7. OwnTail = Slot(built + 1) /\ OwnTail \in Slots
  BY <1>5, <1>6, CounterFacts, SlotFacts
<1>8. data \in [Slots -> Values \cup {Dead}] /\ stamp \in [Slots -> Nat]
  BY <1>3 DEF TypeOK
<1>9. TypeOK'
  <2>1. producer' \in [pc : {"idle", "construct", "publish"}, val : Values \cup {Dead}]
    BY <1>1, <1>3 DEF TypeOK
  <2>2. data' \in [Slots -> Values \cup {Dead}]
    BY <1>1, <1>4, <1>7, <1>8
  <2>3. stamp' \in [Slots -> Nat] /\ built' \in Nat
    BY <1>1, <1>6, <1>7, <1>8
  <2> QED
    BY <2>1, <2>2, <2>3, <1>1, <1>2, <1>3 DEF TypeOK
<1>10. Counts' /\ Orders' /\ Views' /\ Avail' /\ InHand'
  BY <1>1, <1>2, <1>3, <1>4, <1>5, <1>6 DEF Counts, Orders, Views, Avail, InHand
<1>11. Room'
  BY <1>1, <1>3, <1>4, <1>6 DEF Room
<1>12. data'[Slot(built + 1)] = producer.val /\ stamp'[Slot(built + 1)] = built + 1
  BY <1>1, <1>7, <1>8
<1>13. ASSUME NEW o \in freed + 1 .. freed + Cap, o # built + 1
       PROVE  data'[Slot(o)] = data[Slot(o)] /\ stamp'[Slot(o)] = stamp[Slot(o)]
  <2>1. Slot(o) \in Slots /\ Slot(o) # Slot(built + 1)
    <3>1. o \in Nat \ {0} /\ built + 1 \in Nat \ {0}
      BY <1>6
    <3>2. o < built + 1 => (built + 1) - o < Cap
      BY <1>6
    <3>3. o > built + 1 => o - (built + 1) < Cap
      BY <1>6
    <3>4. o < built + 1 \/ o > built + 1
      BY <1>6, <1>13
    <3> QED
      BY <3>1, <3>2, <3>3, <3>4, SlotFacts
  <2> QED
    BY <2>1, <1>1, <1>7, <1>8
<1>14. Live'
  <2> SUFFICES ASSUME NEW o \in freed + 1 .. built + 1
               PROVE  data'[Slot(o)] = Value(o)' /\ stamp'[Slot(o)] = o
    BY <1>1, <1>2 DEF Live
  <2>1. CASE o = built + 1
    BY <2>1, <1>12, <1>1, <1>4, <1>5, <1>6 DEF Value
  <2>2. CASE o # built + 1
    <3>1. o \in freed + 1 .. built /\ o \in freed + 1 .. freed + Cap /\ o <= Len(sent)
      BY <2>2, <1>5, <1>6
    <3> QED
      BY <3>1, <2>2, <1>1, <1>3, <1>13 DEF Live, Value
  <2> QED
    BY <2>1, <2>2
<1>15. Free'
  <2> SUFFICES ASSUME NEW o \in built + 2 .. freed + Cap
               PROVE  /\ data'[Slot(o)] = Dead
                      /\ stamp'[Slot(o)] = IF o <= Cap THEN 0 ELSE o - Cap
    BY <1>1, <1>2, <1>6 DEF Free
  <2>1. o \in built + 1 .. freed + Cap /\ o \in freed + 1 .. freed + Cap /\ o # built + 1
    BY <1>6
  <2> QED
    BY <2>1, <1>3, <1>13 DEF Free
<1> QED
  BY <1>9, <1>10, <1>11, <1>14, <1>15 DEF IndInv

\* The release store announces exactly the objects built.
LEMMA PublishInd ==
  ASSUME IndInv, Publish
  PROVE  IndInv'
<1>1. /\ producer.pc = "publish" /\ producer' = Idle
      /\ tail_' = Append(tail_, [idx |-> NextIdx(OwnTail), built |-> built])
      /\ sent' = Append(sent, producer.val)
      /\ UNCHANGED <<data, stamp, seen_head, view_p, built, consumerVars>>
  BY DEF Publish
<1>2. UNCHANGED <<head_, seen_tail, view_c, freed, consumer, delivered>>
  BY <1>1 DEF consumerVars
<1>3. TypeOK /\ Counts /\ Orders /\ Views /\ Room /\ Avail /\ Live /\ Free /\ InHand
  BY DEF IndInv
<1>4. /\ built \in Nat /\ freed \in Nat /\ Len(sent) \in Nat /\ Len(tail_) = Len(sent) + 1
      /\ seen_tail \in 1 .. Len(tail_)
      /\ OwnTail = Slot(Len(sent) + 1) /\ built = Len(sent) + 1
  BY <1>1, <1>3, CounterFacts DEF Counts, TypeOK
<1>5. NextIdx(OwnTail) = Slot(built + 1) /\ NextIdx(OwnTail) \in Slots
  BY <1>4, SlotFacts
<1>6. /\ sent \in Seq(Values) /\ producer.val \in Values
      /\ tail_ \in Seq([idx : Slots, built : Nat])
  BY <1>1, <1>3 DEF InHand, TypeOK
<1>7. /\ sent' \in Seq(Values) /\ Len(sent') = built /\ sent'[built] = producer.val
      /\ \A o \in 1 .. Len(sent) : sent'[o] = sent[o]
  BY <1>1, <1>4, <1>6
<1>8. /\ tail_' \in Seq([idx : Slots, built : Nat]) /\ Len(tail_') = built + 1
      /\ tail_'[built + 1] = [idx |-> Slot(built + 1), built |-> built]
      /\ \A k \in 1 .. Len(tail_) : tail_'[k] = tail_[k]
  BY <1>1, <1>4, <1>5, <1>6
<1>9. TypeOK'
  <2>1. sent' \in Seq(Values \cup {Dead})
    BY <1>1, <1>3, <1>6 DEF TypeOK
  <2>2. tail_' # << >> /\ seen_tail' \in 1 .. Len(tail_')
    BY <1>2, <1>4, <1>8
  <2>3. producer' \in [pc : {"idle", "construct", "publish"}, val : Values \cup {Dead}]
    BY <1>1 DEF Idle
  <2> QED
    BY <2>1, <2>2, <2>3, <1>1, <1>2, <1>3, <1>8 DEF TypeOK
<1>10. Counts'
  BY <1>1, <1>2, <1>3, <1>4, <1>7 DEF Counts, Idle
<1>11. Orders'
  <2>1. ASSUME NEW k \in 1 .. built + 1
        PROVE  tail_'[k] = [idx |-> Slot(k), built |-> k - 1]
    <3>1. CASE k = built + 1
      BY <3>1, <1>4, <1>8
    <3>2. CASE k # built + 1
      <4>1. k \in 1 .. Len(tail_)
        BY <3>2, <1>4
      <4> QED
        BY <4>1, <1>3, <1>8 DEF Orders
    <3> QED
      BY <3>1, <3>2
  <2> QED
    BY <2>1, <1>2, <1>3, <1>7, <1>8 DEF Orders
<1>12. Views' /\ Avail' /\ Free'
  BY <1>1, <1>2, <1>3 DEF Views, Avail, Free
<1>13. Room'
  BY <1>1, <1>3 DEF Room, Idle
<1>14. Live'
  <2> SUFFICES ASSUME NEW o \in freed + 1 .. built
               PROVE  data[Slot(o)] = Value(o)' /\ stamp[Slot(o)] = o
    BY <1>1, <1>2 DEF Live
  <2>1. data[Slot(o)] = Value(o) /\ stamp[Slot(o)] = o
    BY <1>3 DEF Live
  <2>2. Value(o)' = sent'[o]
    BY <1>4, <1>7 DEF Value
  <2>3. sent'[o] = Value(o)
    BY <1>4, <1>7 DEF Value
  <2> QED
    BY <2>1, <2>2, <2>3
<1>15. InHand'
  <2>1. consumer.pc = "release" => sent'[freed] = sent[freed]
    <3> SUFFICES ASSUME consumer.pc = "release" PROVE freed \in 1 .. Len(sent)
      BY <1>7
    <3>1. freed = Len(delivered) + 1 /\ freed <= Len(sent) /\ Len(delivered) \in Nat
      BY <1>3, CounterFacts DEF Counts
    <3> QED
      BY <3>1, <1>4
  <2> QED
    BY <2>1, <1>1, <1>2, <1>3, <1>7 DEF InHand, Idle
<1> QED
  BY <1>9, <1>10, <1>11, <1>12, <1>13, <1>14, <1>15 DEF IndInv

\* A pop that looks empty only refreshes what the consumer knows.
LEMMA PopEmptyInd ==
  ASSUME IndInv, NEW k, PopEmpty(k)
  PROVE  IndInv'
<1>1. LoadTail(k) /\ UNCHANGED <<data, stamp, head_, freed, consumer, delivered, producerVars>>
  BY DEF PopEmpty
<1>2. UNCHANGED <<tail_, seen_head, view_p, built, producer, sent>>
  BY <1>1 DEF producerVars
<1>3. TypeOK /\ Counts /\ Orders /\ Views /\ Room /\ Avail /\ Live /\ Free /\ InHand
  BY DEF IndInv
<1>4. /\ k \in 1 .. Len(tail_) /\ seen_tail' = k /\ k \in Nat
      /\ view_c' = k - 1 /\ view_c <= view_c' /\ view_c' \in Nat
  BY <1>1, LoadTailFacts
<1>5. TypeOK'
  BY <1>1, <1>2, <1>3, <1>4 DEF TypeOK
<1>6. Counts' /\ Orders' /\ Room' /\ InHand'
  BY <1>1, <1>2, <1>3 DEF Counts, Orders, Room, InHand
<1>7. Live' /\ Free'
  BY <1>1, <1>2, <1>3 DEF Live, Free, Value
<1>8. Views'
  BY <1>1, <1>2, <1>3, <1>4 DEF Views
<1>9. Avail'
  <2>1. freed \in Nat /\ view_c \in Nat /\ freed' = freed /\ consumer' = consumer
    BY <1>1, CounterFacts
  <2> QED
    BY <2>1, <1>3, <1>4 DEF Avail
<1> QED
  BY <1>5, <1>6, <1>7, <1>8, <1>9 DEF IndInv

\* A pop is admitted only when an object is known to be published.
LEMMA PopAdmitInd ==
  ASSUME IndInv, NEW k, PopAdmit(k)
  PROVE  IndInv'
<1>1. /\ LoadTail(k) /\ consumer.pc = "idle" /\ OwnHead # tail_[k].idx
      /\ consumer' = [consumer EXCEPT !.pc = "take"]
      /\ UNCHANGED <<data, stamp, head_, freed, delivered, producerVars>>
  BY DEF PopAdmit
<1>2. UNCHANGED <<tail_, seen_head, view_p, built, producer, sent>>
  BY <1>1 DEF producerVars
<1>3. TypeOK /\ Counts /\ Orders /\ Views /\ Room /\ Avail /\ Live /\ Free /\ InHand
  BY DEF IndInv
<1>4. /\ k \in 1 .. Len(tail_) /\ seen_tail' = k /\ k \in Nat \ {0}
      /\ view_c' = k - 1 /\ view_c <= view_c' /\ view_c' \in Nat
      /\ tail_[k].idx = Slot(k)
  BY <1>1, LoadTailFacts
<1>5. /\ consumer' \in [pc : {"idle", "take", "release"}, val : Values \cup {Dead}]
      /\ consumer'.pc = "take"
  BY <1>1, <1>3 DEF TypeOK
<1>6. TypeOK'
  BY <1>1, <1>2, <1>3, <1>4, <1>5 DEF TypeOK
<1>7. Counts' /\ Orders' /\ Room' /\ InHand'
  BY <1>1, <1>2, <1>3, <1>5 DEF Counts, Orders, Room, InHand
<1>8. Live' /\ Free'
  BY <1>1, <1>2, <1>3 DEF Live, Free, Value
<1>9. Views'
  BY <1>1, <1>2, <1>3, <1>4 DEF Views
<1>10. Avail'
  <2>1. /\ freed \in Nat /\ view_c \in Nat /\ Len(delivered) \in Nat
        /\ OwnHead = Slot(Len(delivered) + 1) /\ freed = Len(delivered)
    BY <1>1, <1>3, CounterFacts DEF Counts
  <2>2. k # Len(delivered) + 1
    BY <1>1, <1>4, <2>1
  <2>3. freed < view_c'
    BY <1>3, <1>4, <2>1, <2>2 DEF Avail
  <2>4. freed' = freed /\ freed <= view_c'
    BY <1>1, <1>4, <2>1, <2>3
  <2> QED
    BY <2>3, <2>4 DEF Avail
<1> QED
  BY <1>6, <1>7, <1>8, <1>9, <1>10 DEF IndInv

\* The object taken is the oldest one; its slot is dead for the next lap.
LEMMA TakeInd ==
  ASSUME IndInv, Take
  PROVE  IndInv'
<1>1. /\ consumer.pc = "take" /\ freed' = freed + 1
      /\ consumer' = [pc |-> "release", val |-> data[OwnHead]]
      /\ data' = [data EXCEPT ![OwnHead] = Dead]
      /\ stamp' = [stamp EXCEPT ![OwnHead] = freed + 1]
      /\ UNCHANGED <<head_, seen_tail, view_c, delivered, producerVars>>
  BY DEF Take
<1>2. UNCHANGED <<tail_, seen_head, view_p, built, producer, sent>>
  BY <1>1 DEF producerVars
<1>3. TypeOK /\ Counts /\ Orders /\ Views /\ Room /\ Avail /\ Live /\ Free /\ InHand
  BY DEF IndInv
<1>4. /\ built \in Nat /\ freed \in Nat /\ Cap \in Nat \ {0} /\ view_c \in Nat
      /\ Len(sent) \in Nat /\ freed < view_c /\ view_c <= Len(sent)
      /\ Len(sent) <= built /\ built - freed <= Cap - 1
      /\ freed = Len(delivered) /\ OwnHead = Slot(Len(delivered) + 1)
  BY <1>1, <1>3, CounterFacts DEF Counts, Avail
<1>5. OwnHead = Slot(freed + 1) /\ OwnHead \in Slots
  BY <1>4, SlotFacts
<1>6. data \in [Slots -> Values \cup {Dead}] /\ stamp \in [Slots -> Nat]
  BY <1>3 DEF TypeOK
<1>7. data[OwnHead] = sent[freed + 1] /\ data[OwnHead] \in Values \cup {Dead}
  <2>1. freed + 1 \in freed + 1 .. built /\ freed + 1 <= Len(sent)
    BY <1>4
  <2>2. data[Slot(freed + 1)] = Value(freed + 1)
    BY <2>1, <1>3 DEF Live
  <2> QED
    BY <2>1, <2>2, <1>5, <1>6 DEF Value
<1>8. TypeOK'
  <2>1. consumer' \in [pc : {"idle", "take", "release"}, val : Values \cup {Dead}]
    BY <1>1, <1>7
  <2>2. data' \in [Slots -> Values \cup {Dead}]
    BY <1>1, <1>5, <1>6
  <2>3. stamp' \in [Slots -> Nat] /\ freed' \in Nat
    BY <1>1, <1>4, <1>5, <1>6
  <2> QED
    BY <2>1, <2>2, <2>3, <1>1, <1>2, <1>3 DEF TypeOK
<1>9. Counts'
  BY <1>1, <1>2, <1>3, <1>4 DEF Counts
<1>10. Orders' /\ Views' /\ Room'
  BY <1>1, <1>2, <1>3 DEF Orders, Views, Room
<1>11. Avail'
  BY <1>1, <1>4 DEF Avail
<1>12. InHand'
  BY <1>1, <1>2, <1>3, <1>7 DEF InHand
<1>13. data'[Slot(freed + 1)] = Dead /\ stamp'[Slot(freed + 1)] = freed + 1
  BY <1>1, <1>5, <1>6
<1>14. ASSUME NEW o \in freed + 2 .. freed + Cap
       PROVE  data'[Slot(o)] = data[Slot(o)] /\ stamp'[Slot(o)] = stamp[Slot(o)]
  <2>1. o \in Nat \ {0} /\ freed + 1 \in Nat \ {0} /\ freed + 1 < o /\ o - (freed + 1) < Cap
    BY <1>4
  <2>2. Slot(o) \in Slots /\ Slot(o) # Slot(freed + 1)
    BY <2>1, SlotFacts
  <2> QED
    BY <2>2, <1>1, <1>5, <1>6
<1>15. Live'
  <2> SUFFICES ASSUME NEW o \in freed + 2 .. built
               PROVE  data'[Slot(o)] = Value(o) /\ stamp'[Slot(o)] = o
    BY <1>1, <1>2, <1>4 DEF Live, Value
  <2>1. o \in freed + 1 .. built /\ o \in freed + 2 .. freed + Cap
    BY <1>4
  <2> QED
    BY <2>1, <1>3, <1>14 DEF Live
<1>16. Free'
  <2> SUFFICES ASSUME NEW o \in built + 1 .. (freed + 1) + Cap
               PROVE  /\ data'[Slot(o)] = Dead
                      /\ stamp'[Slot(o)] = IF o <= Cap THEN 0 ELSE o - Cap
    BY <1>1, <1>2 DEF Free
  <2>1. CASE o = (freed + 1) + Cap
    <3>1. Slot(o) = Slot(freed + 1) /\ ~(o <= Cap) /\ o - Cap = freed + 1
      <4>1. freed + 1 \in Nat \ {0}
        BY <1>4
      <4>2. Slot((freed + 1) + Cap) = Slot(freed + 1)
        BY <4>1, SlotFacts
      <4> QED
        BY <4>2, <2>1, <1>4
    <3> QED
      BY <3>1, <1>13
  <2>2. CASE o # (freed + 1) + Cap
    <3>1. o \in built + 1 .. freed + Cap /\ o \in freed + 2 .. freed + Cap
      BY <2>2, <1>4
    <3> QED
      BY <3>1, <1>3, <1>14 DEF Free
  <2> QED
    BY <2>1, <2>2
<1> QED
  BY <1>8, <1>9, <1>10, <1>11, <1>12, <1>15, <1>16 DEF IndInv

\* The release store announces exactly the objects freed.
LEMMA ReleaseInd ==
  ASSUME IndInv, Release
  PROVE  IndInv'
<1>1. /\ consumer.pc = "release" /\ consumer' = Idle
      /\ head_' = Append(head_, [idx |-> NextIdx(OwnHead), freed |-> freed])
      /\ delivered' = Append(delivered, consumer.val)
      /\ UNCHANGED <<data, stamp, seen_tail, view_c, freed, producerVars>>
  BY DEF Release
<1>2. UNCHANGED <<tail_, seen_head, view_p, built, producer, sent>>
  BY <1>1 DEF producerVars
<1>3. TypeOK /\ Counts /\ Orders /\ Views /\ Room /\ Avail /\ Live /\ Free /\ InHand
  BY DEF IndInv
<1>4. /\ freed \in Nat /\ Len(delivered) \in Nat /\ Len(head_) = Len(delivered) + 1
      /\ seen_head \in 1 .. Len(head_)
      /\ OwnHead = Slot(Len(delivered) + 1) /\ freed = Len(delivered) + 1
  BY <1>1, <1>3, CounterFacts DEF Counts, TypeOK
<1>5. NextIdx(OwnHead) = Slot(freed + 1) /\ NextIdx(OwnHead) \in Slots
  BY <1>4, SlotFacts
<1>6. /\ delivered \in Seq(Values \cup {Dead}) /\ consumer.val \in Values \cup {Dead}
      /\ head_ \in Seq([idx : Slots, freed : Nat])
  BY <1>3 DEF TypeOK
<1>7. delivered' \in Seq(Values \cup {Dead}) /\ Len(delivered') = freed
  BY <1>1, <1>4, <1>6
<1>8. /\ head_' \in Seq([idx : Slots, freed : Nat]) /\ Len(head_') = freed + 1
      /\ head_'[freed + 1] = [idx |-> Slot(freed + 1), freed |-> freed]
      /\ \A k \in 1 .. Len(head_) : head_'[k] = head_[k]
  BY <1>1, <1>4, <1>5, <1>6
<1>9. TypeOK'
  <2>1. head_' # << >> /\ seen_head' \in 1 .. Len(head_')
    BY <1>2, <1>4, <1>8
  <2>2. consumer' \in [pc : {"idle", "take", "release"}, val : Values \cup {Dead}]
    BY <1>1 DEF Idle
  <2> QED
    BY <2>1, <2>2, <1>1, <1>2, <1>3, <1>7, <1>8 DEF TypeOK
<1>10. Counts'
  BY <1>1, <1>2, <1>3, <1>4, <1>7 DEF Counts, Idle
<1>11. Orders'
  <2>1. ASSUME NEW k \in 1 .. freed + 1
        PROVE  head_'[k] = [idx |-> Slot(k), freed |-> k - 1]
    <3>1. CASE k = freed + 1
      BY <3>1, <1>4, <1>8
    <3>2. CASE k # freed + 1
      <4>1. k \in 1 .. Len(head_)
        BY <3>2, <1>4
      <4> QED
        BY <4>1, <1>3, <1>8 DEF Orders
    <3> QED
      BY <3>1, <3>2
  <2> QED
    BY <2>1, <1>2, <1>3, <1>7, <1>8 DEF Orders
<1>12. Views' /\ Room' /\ Live' /\ Free'
  BY <1>1, <1>2, <1>3 DEF Views, Room, Live, Free, Value
<1>13. Avail' /\ InHand'
  BY <1>1, <1>2, <1>3 DEF Avail, InHand, Idle
<1> QED
  BY <1>9, <1>10, <1>11, <1>12, <1>13 DEF IndInv

-----------------------------------------------------------------------------
\* Every step of either thread keeps the object counts consistent.
LEMMA StepInd == IndInv /\ [Next]_vars => IndInv'
<1> SUFFICES ASSUME IndInv, [Next]_vars PROVE IndInv'
  OBVIOUS
<1>1. ASSUME NEW k \in 1 .. Len(head_), PushFull(k) PROVE IndInv'
  BY <1>1, PushFullInd
<1>2. ASSUME NEW v \in Values, NEW k \in 1 .. Len(head_), PushAdmit(v, k) PROVE IndInv'
  BY <1>2, PushAdmitInd
<1>3. ASSUME Construct PROVE IndInv'
  BY <1>3, ConstructInd
<1>4. ASSUME Publish PROVE IndInv'
  BY <1>4, PublishInd
<1>5. ASSUME NEW k \in 1 .. Len(tail_), PopEmpty(k) PROVE IndInv'
  BY <1>5, PopEmptyInd
<1>6. ASSUME NEW k \in 1 .. Len(tail_), PopAdmit(k) PROVE IndInv'
  BY <1>6, PopAdmitInd
<1>7. ASSUME Take PROVE IndInv'
  BY <1>7, TakeInd
<1>8. ASSUME Release PROVE IndInv'
  BY <1>8, ReleaseInd
<1>9. ASSUME UNCHANGED vars PROVE IndInv'
  BY <1>9 DEF vars, producerVars, consumerVars, IndInv, TypeOK, Counts, Orders, Views,
              Room, Avail, Live, Free, InHand, Value, OwnTail, OwnHead
<1> QED
  BY <1>1, <1>2, <1>3, <1>4, <1>5, <1>6, <1>7, <1>8, <1>9 DEF Next, Push, Pop

\* The inductive invariant holds in every reachable state.
THEOREM Inductive == Spec => []IndInv
<1>1. Init => IndInv
  BY InitInd
<1>2. IndInv /\ [Next]_vars => IndInv'
  BY StepInd
<1> QED
  BY <1>1, <1>2, PTL DEF Spec

\* Every variable of try_push and try_pop keeps its type.
THEOREM TypeCorrect == Spec => []TypeOK
<1>1. IndInv => TypeOK
  BY DEF IndInv
<1> QED
  BY <1>1, Inductive, PTL

\* Whatever stale head_ the producer reads, the slot it constructs in is dead
\* and its last destruction happens before (spsc_queue.h:49-56).
THEOREM OverwriteFree == Spec => []NoOverwriteRace
<1>1. IndInv => NoOverwriteRace
  <2> SUFFICES ASSUME IndInv, producer.pc = "construct"
               PROVE  data[OwnTail] = Dead /\ stamp[OwnTail] <= view_p
    BY DEF NoOverwriteRace
  <2>1. Counts /\ Room /\ Free
    BY DEF IndInv
  <2>2. /\ built = Len(sent) /\ OwnTail = Slot(built + 1)
        /\ built \in Nat /\ freed \in Nat /\ view_p \in Nat /\ Cap \in Nat \ {0}
        /\ built - freed <= Cap - 1 /\ built - view_p <= Cap - 2
    BY <2>1, CounterFacts DEF Counts, Room
  <2>3. built + 1 \in built + 1 .. freed + Cap
    BY <2>2
  <2>4. /\ data[Slot(built + 1)] = Dead
        /\ stamp[Slot(built + 1)] = IF built + 1 <= Cap THEN 0 ELSE (built + 1) - Cap
    BY <2>1, <2>3 DEF Free
  <2> QED
    BY <2>2, <2>4
<1> QED
  BY <1>1, Inductive, PTL

\* Whatever stale tail_ the consumer reads, the slot it moves from holds a live
\* object whose construction happens before (spsc_queue.h:71-78).
THEOREM ReadsInitialized == Spec => []NoUninitializedRead
<1>1. IndInv => NoUninitializedRead
  <2> SUFFICES ASSUME IndInv, consumer.pc = "take"
               PROVE  data[OwnHead] # Dead /\ stamp[OwnHead] <= view_c
    BY DEF NoUninitializedRead
  <2>1. Counts /\ Avail /\ Live /\ InHand
    BY DEF IndInv
  <2>2. /\ freed = Len(delivered) /\ OwnHead = Slot(freed + 1)
        /\ built \in Nat /\ freed \in Nat /\ view_c \in Nat /\ Len(sent) \in Nat
        /\ freed < view_c /\ view_c <= Len(sent) /\ Len(sent) <= built
    BY <2>1, CounterFacts DEF Counts, Avail
  <2>3. freed + 1 \in freed + 1 .. built /\ freed + 1 \in 1 .. Len(sent)
    BY <2>2
  <2>4. data[Slot(freed + 1)] = Value(freed + 1) /\ stamp[Slot(freed + 1)] = freed + 1
    BY <2>1, <2>3 DEF Live
  <2>5. Value(freed + 1) \in Values
    BY <2>1, <2>3 DEF Value, InHand
  <2> QED
    BY <2>2, <2>4, <2>5, DeadAssumption
<1> QED
  BY <1>1, Inductive, PTL

\* The ring of Cap slots is a FIFO of Cap - 1 elements: try_push and try_pop
\* lose, duplicate and reorder nothing.
THEOREM ImplementsFifo == Spec => RefinesFifo
<1>1. Init => Fifo!Init
  BY DEF Init, Fifo!Init
<1>2. IndInv /\ [Next]_vars => [Fifo!Next]_(Fifo!channel)
  <2> SUFFICES ASSUME IndInv, [Next]_vars PROVE Fifo!Next \/ UNCHANGED <<sent, delivered>>
    BY DEF Fifo!channel
  <2>1. ASSUME NEW k, PushFull(k) PROVE UNCHANGED <<sent, delivered>>
    BY <2>1 DEF PushFull, consumerVars
  <2>2. ASSUME NEW v, NEW k, PushAdmit(v, k) PROVE UNCHANGED <<sent, delivered>>
    BY <2>2 DEF PushAdmit, consumerVars
  <2>3. ASSUME Construct PROVE UNCHANGED <<sent, delivered>>
    BY <2>3 DEF Construct, consumerVars
  <2>4. ASSUME Publish PROVE Fifo!Next
    <3>1. Counts /\ Room /\ InHand
      BY DEF IndInv
    <3>2. producer.val \in Values
      BY <2>4, <3>1 DEF Publish, InHand
    <3>3. Len(sent) - Len(delivered) < Cap - 1
      BY <2>4, <3>1, CounterFacts DEF Publish, Counts, Room
    <3>4. Fifo!Enqueue(producer.val)
      BY <2>4, <3>3 DEF Publish, consumerVars, Fifo!Enqueue, Fifo!InFlight
    <3> QED
      BY <3>2, <3>4 DEF Fifo!Next
  <2>5. ASSUME NEW k, PopEmpty(k) PROVE UNCHANGED <<sent, delivered>>
    BY <2>5 DEF PopEmpty, producerVars
  <2>6. ASSUME NEW k, PopAdmit(k) PROVE UNCHANGED <<sent, delivered>>
    BY <2>6 DEF PopAdmit, producerVars
  <2>7. ASSUME Take PROVE UNCHANGED <<sent, delivered>>
    BY <2>7 DEF Take, producerVars
  <2>8. ASSUME Release PROVE Fifo!Next
    <3>1. Counts /\ InHand
      BY DEF IndInv
    <3>2. freed = Len(delivered) + 1 /\ Len(sent) - Len(delivered) > 0
      BY <2>8, <3>1, CounterFacts DEF Release, Counts
    <3>3. consumer.val = sent[Len(delivered) + 1]
      BY <2>8, <3>1, <3>2 DEF Release, InHand
    <3> QED
      BY <2>8, <3>2, <3>3 DEF Release, producerVars, Fifo!Next, Fifo!Dequeue, Fifo!InFlight
  <2>9. ASSUME UNCHANGED vars PROVE UNCHANGED <<sent, delivered>>
    BY <2>9 DEF vars, producerVars, consumerVars
  <2> QED
    BY <2>1, <2>2, <2>3, <2>4, <2>5, <2>6, <2>7, <2>8, <2>9 DEF Next, Push, Pop
<1> QED
  BY <1>1, <1>2, Inductive, PTL DEF Spec, RefinesFifo, Fifo!Spec
=============================================================================
