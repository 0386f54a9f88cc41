------------------------- MODULE LatencyStatsProofs -------------------------
(***************************************************************************)
(* The latency statistics, for every array of bucket bounds, every set of  *)
(* times and any number of ticks between resets.                           *)
(*                                                                         *)
(*   LatencyInv   each bucket counts exactly the recorded times that fall  *)
(*                into it, the sum and the peak are those of the recorded  *)
(*                times, and either statistic has one sample per tick      *)
(*                (of the waits: unless tracking is switched among them,   *)
(*                since all that is queued has a time in it then).         *)
(*                                                                         *)
(* The bucket that a percentile stops at is then the bucket of the sample  *)
(* of the target rank (HitIsBucket), since the cumulative counts are the   *)
(* numbers of recorded times up to a bound; the interpolation stays        *)
(* between the ends of the bucket (ValueInBucket) and grows with the rank, *)
(* within a bucket and from one to the next (ValueMonotone), and the       *)
(* target lies between the whole ranks around it (RanksEnclose).           *)
(***************************************************************************)
EXTENDS LatencyStats, Arithmetic

-----------------------------------------------------------------------------
(* Least and greatest elements                                             *)

\* A finite set that R orders has a first element.
LEMMA FirstElement ==
  ASSUME NEW S, IsFiniteSet(S), S # {}, NEW R,
         \A x, y \in S : <<x, y>> \in R \/ <<y, x>> \in R,
         \A x, y, z \in S : <<x, y>> \in R /\ <<y, z>> \in R => <<x, z>> \in R
  PROVE  \E x \in S : \A y \in S : <<x, y>> \in R
<1> DEFINE G == {T \in SUBSET S : T # {} => \E x \in T : \A y \in T : <<x, y>> \in R}
<1>1. {} \in G
  OBVIOUS
<1>2. ASSUME NEW T \in SUBSET S, NEW z \in T, T \ {z} \in G
      PROVE  T \in G
  <2>1. CASE T \ {z} = {}
    <3>1. T = {z} /\ <<z, z>> \in R
      BY <2>1
    <3> QED
      BY <3>1
  <2>2. CASE T \ {z} # {}
    <3>1. PICK x \in T \ {z} : \A y \in T \ {z} : <<x, y>> \in R
      BY <1>2, <2>2
    <3>2. CASE <<x, z>> \in R
      BY <3>1, <3>2
    <3>3. CASE <<z, x>> \in R
      <4>1. \A y \in T : <<z, y>> \in R
        BY <3>1, <3>3
      <4> QED
        BY <4>1
    <3> QED
      BY <3>2, <3>3
  <2> QED
    BY <2>1, <2>2
<1> HIDE DEF G
<1>3. S \in G
  BY <1>1, <1>2, OneByOne
<1> QED
  BY <1>3 DEF G

\* A finite set of integers that is not empty has a least element ...
LEMMA MinFacts ==
  ASSUME NEW S \in SUBSET Int, IsFiniteSet(S), S # {}
  PROVE  Min(S) \in S /\ \A y \in S : Min(S) <= y
<1> DEFINE R == {p \in Int \X Int : p[1] <= p[2]}
<1>1. \A x, y \in S : <<x, y>> \in R <=> x <= y
  OBVIOUS
<1>2. /\ \A x, y \in S : <<x, y>> \in R \/ <<y, x>> \in R
      /\ \A x, y, z \in S : <<x, y>> \in R /\ <<y, z>> \in R => <<x, z>> \in R
  <2> HIDE DEF R
  <2> QED
    BY <1>1
<1> HIDE DEF R
<1>3. \E x \in S : \A y \in S : <<x, y>> \in R
  BY <1>2, FirstElement
<1> QED
  BY <1>1, <1>3 DEF Min

\* ... and a greatest one.
LEMMA GreatestElement ==
  ASSUME NEW S \in SUBSET Int, IsFiniteSet(S), S # {}
  PROVE  \E x \in S : \A y \in S : y <= x
<1> DEFINE R == {p \in Int \X Int : p[2] <= p[1]}
<1>1. \A x, y \in S : <<x, y>> \in R <=> y <= x
  OBVIOUS
<1>2. /\ \A x, y \in S : <<x, y>> \in R \/ <<y, x>> \in R
      /\ \A x, y, z \in S : <<x, y>> \in R /\ <<y, z>> \in R => <<x, z>> \in R
  <2> HIDE DEF R
  <2> QED
    BY <1>1
<1> HIDE DEF R
<1>3. \E x \in S : \A y \in S : <<x, y>> \in R
  BY <1>2, FirstElement
<1> QED
  BY <1>1, <1>3

\* The least element is the one that is known.
LEMMA MinIs ==
  ASSUME NEW S \in SUBSET Int, NEW m \in S, \A y \in S : m <= y
  PROVE  Min(S) = m
<1>1. Min(S) \in S /\ \A y \in S : Min(S) <= y
  BY DEF Min
<1>2. Min(S) <= m /\ m <= Min(S) /\ Min(S) \in Int /\ m \in Int
  BY <1>1
<1> QED
  BY <1>2

\* The greatest element is the one that is known.
LEMMA MaxIs ==
  ASSUME NEW S \in SUBSET Int, NEW m \in S, \A y \in S : y <= m
  PROVE  Max(S) = m
<1>1. Max(S) \in S /\ \A y \in S : Max(S) >= y
  BY DEF Max
<1>2. Max(S) >= m /\ Max(S) <= m /\ Max(S) \in Int /\ m \in Int
  BY <1>1
<1> QED
  BY <1>2

\* The greater of two.
LEMMA MaxPair ==
  ASSUME NEW a \in Nat, NEW b \in Nat
  PROVE  Max({a, b}) \in {a, b} /\ a <= Max({a, b}) /\ b <= Max({a, b})
<1>1. CASE a <= b
  <2>1. Max({a, b}) = b
    BY <1>1, MaxIs
  <2> QED
    BY <1>1, <2>1
<1>2. CASE ~(a <= b)
  <2>1. Max({a, b}) = a
    BY <1>2, MaxIs
  <2> QED
    BY <1>2, <2>1
<1> QED
  BY <1>1, <1>2

-----------------------------------------------------------------------------
(* Division                                                                *)

\* A larger dividend has no smaller quotient.
LEMMA DivMonotone ==
  ASSUME NEW C \in Nat \ {0}, NEW a \in Nat, NEW b \in Nat, a <= b
  PROVE  a \div C \in Int /\ b \div C \in Int /\ a \div C <= b \div C
<1> DEFINE q == a \div C
           r == a % C
           s == b \div C
           t == b % C
<1>1. /\ a = C * q + r /\ q \in Int /\ r \in 0 .. C-1
      /\ b = C * s + t /\ s \in Int /\ t \in 0 .. C-1
  BY DivMod
<1> HIDE DEF q, r, s, t
<1>2. q <= s
  <2> SUFFICES ASSUME q >= s + 1 PROVE FALSE
    BY <1>1
  <2>1. C * q >= C * (s + 1)
    BY <1>1
  <2>2. C * (s + 1) = C * s + C
    BY <1>1
  <2> QED
    BY <1>1, <2>1, <2>2
<1> QED
  BY <1>1, <1>2 DEF q, s

\* A fraction of d, k parts of C, lies between nothing and d.
LEMMA PartOf ==
  ASSUME NEW C \in Nat \ {0}, NEW k \in 0 .. C, NEW d \in Nat
  PROVE  (k * d) \div C \in 0 .. d /\ k * d \in Nat
<1>1. k * d \in Nat /\ C * d \in Nat
  OBVIOUS
<1>2. k * d <= C * d
  OBVIOUS
<1> DEFINE q == (k * d) \div C
           r == (k * d) % C
<1>3. k * d = C * q + r /\ q \in Int /\ r \in 0 .. C-1
  BY <1>1, DivMod
<1> HIDE DEF q, r
<1>4. q <= d
  <2> SUFFICES ASSUME q >= d + 1 PROVE FALSE
    BY <1>3
  <2>1. C * q >= C * (d + 1) /\ C * (d + 1) = C * d + C
    BY <1>3
  <2> QED
    BY <1>1, <1>2, <1>3, <2>1
<1>5. q >= 0
  <2> SUFFICES ASSUME q + 1 <= 0 PROVE FALSE
    BY <1>3
  <2>1. C * (q + 1) <= 0 /\ C * (q + 1) = C * q + C
    BY <1>3
  <2> QED
    BY <1>1, <1>3, <2>1
<1> QED
  BY <1>1, <1>3, <1>4, <1>5 DEF q

-----------------------------------------------------------------------------
(* Buckets                                                                 *)

Bounds(bounds) == bounds \in Seq(Nat \ {0}) /\ Ascending(bounds)

Buckets(bounds) == 1 .. Len(bounds) + 1

\* The bounds of the buckets.
LEMMA BoundsFacts ==
  ASSUME NEW bounds, Bounds(bounds)
  PROVE  /\ Len(bounds) \in Nat /\ DOMAIN bounds = 1 .. Len(bounds)
         /\ \A b \in 1 .. Len(bounds) : bounds[b] \in Nat \ {0}
         /\ \A b, c \in 1 .. Len(bounds) : b < c => bounds[b] < bounds[c]
         /\ IsFiniteSet(Buckets(bounds))
<1>1. bounds \in Seq(Nat \ {0})
  BY DEF Bounds
<1>2. Len(bounds) \in Nat /\ DOMAIN bounds = 1 .. Len(bounds)
  BY <1>1
<1>3. \A b \in 1 .. Len(bounds) : bounds[b] \in Nat \ {0}
  BY <1>1
<1>4. IsFiniteSet(Buckets(bounds))
  BY <1>2, FS_Interval DEF Buckets
<1> QED
  BY <1>2, <1>3, <1>4 DEF Bounds, Ascending

\* A time falls into one bucket, the one that has it between its ends.
LEMMA BucketFacts ==
  ASSUME NEW bounds, Bounds(bounds), NEW x \in Nat
  PROVE  /\ Bucket(bounds, x) \in Buckets(bounds)
         /\ \A b \in 1 .. Len(bounds) : b < Bucket(bounds, x) <=> bounds[b] <= x
<1> DEFINE n == Len(bounds)
           S == {b \in 1 .. n : x < bounds[b]} \cup {n + 1}
           m == Min(S)
<1>1. /\ n \in Nat /\ DOMAIN bounds = 1 .. n
      /\ \A b \in 1 .. n : bounds[b] \in Nat \ {0}
      /\ \A b, c \in 1 .. n : b < c => bounds[b] < bounds[c]
      /\ IsFiniteSet(1 .. n + 1)
  BY BoundsFacts DEF Buckets
<1>2. Bucket(bounds, x) = m
  BY <1>1 DEF Bucket
<1> HIDE DEF n
<1>3. S \in SUBSET (1 .. n + 1) /\ n + 1 \in S /\ S \in SUBSET Int
  BY <1>1
<1>4. IsFiniteSet(S)
  BY <1>1, <1>3, FS_Subset
<1>5. m \in S /\ \A y \in S : m <= y
  <2> HIDE DEF S
  <2> QED
    BY <1>3, <1>4, MinFacts
<1> HIDE DEF m
<1>6. m \in 1 .. n + 1
  BY <1>3, <1>5
<1>7. ASSUME NEW b \in 1 .. n PROVE b < m <=> bounds[b] <= x
  <2>1. CASE bounds[b] <= x
    <3>1. b \notin S
      BY <1>1, <2>1
    <3>2. ASSUME m <= b PROVE FALSE
      <4>1. m \in 1 .. n /\ x < bounds[m]
        BY <1>1, <1>5, <3>2
      <4>2. m = b \/ bounds[m] < bounds[b]
        BY <1>1, <3>2, <4>1
      <4> QED
        BY <1>1, <2>1, <4>1, <4>2
    <3> QED
      BY <1>1, <1>6, <2>1, <3>2
  <2>2. CASE ~(bounds[b] <= x)
    <3>1. b \in S
      BY <1>1, <2>2
    <3> QED
      BY <1>1, <1>5, <1>6, <2>2, <3>1
  <2> QED
    BY <2>1, <2>2
<1> QED
  BY <1>2, <1>6, <1>7 DEF n, Buckets

\* The ends of a bucket, seen from a time in it.
LEMMA EndsFacts ==
  ASSUME NEW bounds, Bounds(bounds), NEW x \in Nat, NEW stat
  PROVE  /\ Floor(bounds, x) = LowEnd(bounds, Bucket(bounds, x))
         /\ Ceiling(bounds, x, stat.max) = HighEnd(stat, bounds, Bucket(bounds, x))
<1> DEFINE n == Len(bounds)
           c == Bucket(bounds, x)
<1>1. /\ n \in Nat /\ DOMAIN bounds = 1 .. n
      /\ \A b \in 1 .. n : bounds[b] \in Nat \ {0}
      /\ \A b, d \in 1 .. n : b < d => bounds[b] < bounds[d]
  BY BoundsFacts
<1>2. c \in 1 .. n + 1 /\ \A b \in 1 .. n : b < c <=> bounds[b] <= x
  BY BucketFacts DEF Buckets
<1> HIDE DEF n, c
<1>3. Floor(bounds, x) = LowEnd(bounds, c)
  <2> DEFINE S == {0} \cup {bounds[b] : b \in {d \in DOMAIN bounds : bounds[d] <= x}}
  <2>0. Floor(bounds, x) = Max(S) /\ S \in SUBSET Int
    BY <1>1 DEF Floor
  <2>1. \A y \in S : y = 0 \/ \E b \in 1 .. n : b < c /\ y = bounds[b]
    BY <1>1, <1>2
  <2>2. CASE c = 1
    <3>1. 0 \in S /\ \A y \in S : y <= 0
      BY <1>1, <1>2, <2>1, <2>2
    <3> HIDE DEF S
    <3>2. Max(S) = 0
      BY <2>0, <3>1, MaxIs
    <3> QED
      BY <2>0, <2>2, <3>2 DEF LowEnd
  <2>3. CASE c # 1
    <3>1. c - 1 \in 1 .. n /\ c - 1 < c
      BY <1>1, <1>2, <2>3
    <3>2. bounds[c - 1] \in S
      BY <1>1, <1>2, <3>1
    <3>3. \A y \in S : y <= bounds[c - 1]
      <4>1. ASSUME NEW b \in 1 .. n, b < c PROVE bounds[b] <= bounds[c - 1]
        <5>1. b = c - 1 \/ b < c - 1
          BY <1>2, <4>1
        <5> QED
          BY <1>1, <3>1, <5>1
      <4>2. 0 <= bounds[c - 1]
        BY <1>1, <3>1
      <4> HIDE DEF S
      <4> QED
        BY <2>1, <4>1, <4>2
    <3> HIDE DEF S
    <3>4. Max(S) = bounds[c - 1]
      BY <2>0, <3>2, <3>3, MaxIs
    <3> QED
      BY <2>0, <2>3, <3>4 DEF LowEnd
  <2> QED
    BY <2>2, <2>3
<1>4. Ceiling(bounds, x, stat.max) = HighEnd(stat, bounds, c)
  <2> DEFINE S == {bounds[b] : b \in {d \in DOMAIN bounds : bounds[d] > x}}
  <2>1. CASE c = n + 1
    <3>1. S = {}
      BY <1>1, <1>2, <2>1
    <3>2. c \notin DOMAIN bounds
      BY <1>1, <2>1
    <3> QED
      BY <3>1, <3>2 DEF Ceiling, HighEnd
  <2>2. CASE c # n + 1
    <3>1. c \in 1 .. n /\ c \in DOMAIN bounds
      BY <1>1, <1>2, <2>2
    <3>2. bounds[c] \in S /\ S \in SUBSET Int
      BY <1>1, <1>2, <3>1
    <3>3. \A y \in S : \E b \in 1 .. n : c <= b /\ y = bounds[b]
      BY <1>1, <1>2
    <3>4. \A y \in S : bounds[c] <= y
      <4>1. ASSUME NEW b \in 1 .. n, c <= b PROVE bounds[c] <= bounds[b]
        <5>1. c = b \/ c < b
          BY <1>2, <4>1
        <5> QED
          BY <1>1, <3>1, <5>1
      <4> HIDE DEF S
      <4> QED
        BY <3>3, <4>1
    <3>5. Ceiling(bounds, x, stat.max) = IF S = {} THEN stat.max ELSE Min(S)
      BY DEF Ceiling
    <3> HIDE DEF S
    <3>6. Min(S) = bounds[c]
      BY <3>2, <3>4, MinIs
    <3> QED
      BY <3>1, <3>2, <3>5, <3>6 DEF HighEnd
  <2> QED
    BY <2>1, <2>2
<1> QED
  BY <1>3, <1>4 DEF c

-----------------------------------------------------------------------------
(* The inductive invariant                                                 *)

\* The times of T that fall into a bucket of B.
Falling(bounds, T, B) == {x \in T : Bucket(bounds, x) \in B}

\* A statistic that has seen the times of T as often as seen says: each bucket
\* counts its own times, the sum and the peak are those of all of them.
Holds(stat, bounds, T, seen) ==
  /\ stat.hist \in [Buckets(bounds) -> Nat] /\ stat.sum \in Nat /\ stat.max \in Nat
  /\ seen \in [T -> Nat]
  /\ \A b \in Buckets(bounds) :
       stat.hist[b] = SumFunctionOnSet(seen, Falling(bounds, T, {b}))
  /\ stat.sum = Total(seen)
  /\ \A x \in T : seen[x] > 0 => x <= stat.max

\* As long as tracking is not switched among the ticks that count, all of them
\* have a time in them or none is looked at.
InTune ==
  /\ ~switched /\ track_queue_latency_ =>
       /\ Samples(wait_seen) = ticks_processed_
       /\ \A k \in DOMAIN tick_queue_ : tick_queue_[k]
  /\ ticks_processed_ = 0 \/ (~switched /\ ~track_queue_latency_) =>
       queue_wait = EmptyStat(WaitBounds) /\ wait_seen = Never(WaitTimes)

LatencyInv ==
  /\ ticks_processed_ \in Nat /\ track_queue_latency_ \in BOOLEAN
  /\ tick_queue_ \in Seq(BOOLEAN) /\ switched \in BOOLEAN
  /\ Holds(logic, LogicBounds, LogicTimes, logic_seen)
  /\ Holds(queue_wait, WaitBounds, WaitTimes, wait_seen)
  /\ Samples(logic_seen) = ticks_processed_
  /\ Samples(wait_seen) \in 0 .. ticks_processed_
  /\ InTune

\* What is summed over a part of the times is a natural number.
LEMMA SeenFacts ==
  ASSUME NEW T \in SUBSET Nat, IsFiniteSet(T), NEW seen \in [T -> Nat], NEW U \in SUBSET T
  PROVE  /\ IsFiniteSet(U) /\ \A x \in U : seen[x] \in Int
         /\ SumFunctionOnSet(seen, U) \in Nat
<1>1. IsFiniteSet(U) /\ \A x \in U : seen[x] \in Nat
  BY FS_Subset
<1>2. SumFunctionOnSet(seen, U) \in Nat
  BY <1>1, SumNat
<1> QED
  BY <1>1, <1>2

\* A statistic that has been cleared holds nothing.
LEMMA EmptyHolds ==
  ASSUME NEW bounds, Bounds(bounds), NEW T \in SUBSET Nat, IsFiniteSet(T)
  PROVE  /\ Holds(EmptyStat(bounds), bounds, T, Never(T))
         /\ Samples(Never(T)) = 0
<1> DEFINE seen == Never(T)
           stat == EmptyStat(bounds)
<1>1. seen \in [T -> Nat] /\ \A x \in T : seen[x] = 0
  BY DEF Never
<1>2. /\ stat.hist \in [Buckets(bounds) -> Nat] /\ stat.sum = 0 /\ stat.max = 0
      /\ \A b \in Buckets(bounds) : stat.hist[b] = 0
  BY DEF EmptyStat, Buckets
<1> HIDE DEF seen, stat
<1>3. ASSUME NEW U \in SUBSET T PROVE SumFunctionOnSet(seen, U) = 0
  <2>1. IsFiniteSet(U) /\ \A x \in U : seen[x] = 0
    BY <1>1, FS_Subset
  <2> QED
    BY <2>1, SumZero
<1>4. DOMAIN seen = T
  BY <1>1
<1>5. Samples(seen) = 0
  BY <1>3, <1>4 DEF Samples
<1>6. Total(seen) = 0
  <2> DEFINE w == [x \in T |-> x * seen[x]]
  <2>1. \A x \in T : w[x] = 0
    BY <1>1
  <2> HIDE DEF w
  <2>2. SumFunctionOnSet(w, T) = 0
    BY <2>1, SumZero
  <2> QED
    BY <1>4, <2>2 DEF Total, w
<1>7. \A b \in Buckets(bounds) : SumFunctionOnSet(seen, Falling(bounds, T, {b})) = 0
  BY <1>3 DEF Falling
<1> QED
  BY <1>1, <1>2, <1>5, <1>6, <1>7 DEF Holds, seen, stat

OnceMore(seen, x) == [seen EXCEPT ![x] = @ + 1]

\* One more time is recorded: in its bucket, in the sum and in the peak.
LEMMA RecordHolds ==
  ASSUME NEW bounds, Bounds(bounds), NEW T \in SUBSET Nat, IsFiniteSet(T),
         NEW stat, NEW seen, Holds(stat, bounds, T, seen), NEW x \in T
  PROVE  /\ Holds(Record(stat, bounds, x), bounds, T, OnceMore(seen, x))
         /\ Samples(OnceMore(seen, x)) = Samples(seen) + 1
<1> DEFINE c == Bucket(bounds, x)
           s2 == OnceMore(seen, x)
           r == Record(stat, bounds, x)
<1>1. /\ stat.hist \in [Buckets(bounds) -> Nat] /\ stat.sum \in Nat /\ stat.max \in Nat
      /\ seen \in [T -> Nat]
      /\ stat.sum = Total(seen)
      /\ \A y \in T : seen[y] > 0 => y <= stat.max
      /\ \A b \in Buckets(bounds) :
           stat.hist[b] = SumFunctionOnSet(seen, Falling(bounds, T, {b}))
  BY DEF Holds
<1>2. c \in Buckets(bounds) /\ x \in Nat
  BY BucketFacts
<1>3. /\ s2 \in [T -> Nat] /\ s2[x] = seen[x] + 1 /\ s2[x] - seen[x] = 1
      /\ \A y \in T : y # x => s2[y] = seen[y]
      /\ \A y \in T : y \in Nat /\ seen[y] \in Nat /\ s2[y] \in Nat
  <2>1. seen \in [T -> Nat] /\ seen[x] \in Nat
    BY <1>1
  <2> QED
    BY <2>1 DEF OnceMore
<1>4. /\ r.hist = [stat.hist EXCEPT ![c] = @ + 1]
      /\ r.sum = stat.sum + x /\ r.max = Max({stat.max, x})
  BY DEF Record
<1> HIDE DEF s2, r
<1>5. DOMAIN seen = T /\ DOMAIN s2 = T
  BY <1>1, <1>3
<1>6. ASSUME NEW U \in SUBSET T
      PROVE  /\ x \in U => SumFunctionOnSet(s2, U) = SumFunctionOnSet(seen, U) + 1
             /\ x \notin U => SumFunctionOnSet(s2, U) = SumFunctionOnSet(seen, U)
  <2>1. /\ IsFiniteSet(U) /\ SumFunctionOnSet(seen, U) \in Nat
        /\ \A y \in U : seen[y] \in Int /\ s2[y] \in Int
        /\ \A y \in U : y # x => s2[y] = seen[y]
    BY <1>1, <1>3, SeenFacts
  <2>2. ASSUME x \in U PROVE SumFunctionOnSet(s2, U) = SumFunctionOnSet(seen, U) + 1
    <3>1. SumFunctionOnSet(s2, U) = SumFunctionOnSet(seen, U) + (s2[x] - seen[x])
      BY <2>1, <2>2, SumChange
    <3> QED
      BY <1>3, <3>1
  <2>3. ASSUME x \notin U PROVE SumFunctionOnSet(s2, U) = SumFunctionOnSet(seen, U)
    <3>1. \A y \in U : seen[y] \in Int /\ seen[y] = s2[y]
      BY <2>1, <2>3
    <3> QED
      BY <2>1, <3>1, SumSame
  <2> QED
    BY <2>2, <2>3
<1>7. Samples(s2) = Samples(seen) + 1
  BY <1>5, <1>6 DEF Samples
<1>8. r.hist \in [Buckets(bounds) -> Nat]
  BY <1>1, <1>2, <1>4
<1>9. ASSUME NEW b \in Buckets(bounds)
      PROVE  r.hist[b] = SumFunctionOnSet(s2, Falling(bounds, T, {b}))
  <2> DEFINE U == Falling(bounds, T, {b})
  <2>1. U \in SUBSET T /\ (x \in U <=> b = c)
    BY DEF Falling
  <2>2. stat.hist[b] = SumFunctionOnSet(seen, U) /\ stat.hist[b] \in Nat
    BY <1>1
  <2> HIDE DEF U, c
  <2>3. CASE b = c
    <3>1. r.hist[b] = stat.hist[b] + 1
      BY <1>1, <1>2, <1>4, <2>3
    <3>2. SumFunctionOnSet(s2, U) = SumFunctionOnSet(seen, U) + 1
      BY <1>6, <2>1, <2>3
    <3> QED
      BY <2>2, <3>1, <3>2 DEF U
  <2>4. CASE b # c
    <3>1. r.hist[b] = stat.hist[b]
      BY <1>1, <1>2, <1>4, <2>4
    <3>2. SumFunctionOnSet(s2, U) = SumFunctionOnSet(seen, U)
      BY <1>6, <2>1, <2>4
    <3> QED
      BY <2>2, <3>1, <3>2 DEF U
  <2> QED
    BY <2>3, <2>4
<1>10. r.sum = Total(s2)
  <2> DEFINE v == [y \in T |-> y * seen[y]]
             w == [y \in T |-> y * s2[y]]
  <2>1. /\ \A y \in T : v[y] \in Int /\ w[y] \in Int
        /\ \A y \in T : y # x => w[y] = v[y]
    <3>1. \A m, n \in Nat : m * n \in Int
      OBVIOUS
    <3>2. \A y \in T : y * seen[y] \in Int /\ y * s2[y] \in Int
      BY <1>3, <3>1
    <3>3. \A y \in T : v[y] = y * seen[y] /\ w[y] = y * s2[y]
      OBVIOUS
    <3> HIDE DEF v, w
    <3> QED
      BY <1>3, <3>2, <3>3
  <2>4. w[x] - v[x] = x
    <3>1. v[x] = x * seen[x] /\ w[x] = x * (seen[x] + 1)
      BY <1>3
    <3>2. x * (seen[x] + 1) = x * seen[x] + x /\ x * seen[x] \in Int
      BY <1>1, <1>2
    <3> HIDE DEF v, w
    <3> QED
      BY <1>2, <3>1, <3>2
  <2>2. x \in T /\ IsFiniteSet(T)
    OBVIOUS
  <2>3. \A y \in T : v[y] \in Int /\ w[y] \in Int
    BY <2>1
  <2>5. Total(seen) = SumFunctionOnSet(v, T) /\ Total(s2) = SumFunctionOnSet(w, T)
    BY <1>5 DEF Total
  <2> HIDE DEF v, w
  <2>6. SumFunctionOnSet(w, T) = SumFunctionOnSet(v, T) + (w[x] - v[x])
    BY <2>1, <2>2, <2>3, SumChange
  <2> QED
    BY <1>1, <1>4, <2>4, <2>5, <2>6
<1>11. /\ r.sum \in Nat /\ r.max \in Nat
       /\ \A y \in T : s2[y] > 0 => y <= r.max
  <2>1. r.max \in Nat /\ stat.max <= r.max /\ x <= r.max
    BY <1>1, <1>2, <1>4, MaxPair
  <2>2. r.sum \in Nat
    BY <1>1, <1>2, <1>4
  <2>3. ASSUME NEW y \in T, s2[y] > 0 PROVE y <= r.max
    <3>1. y = x \/ (y <= stat.max /\ y \in Nat /\ stat.max \in Nat)
      BY <1>1, <1>3, <2>3
    <3> QED
      BY <2>1, <3>1
  <2> QED
    BY <2>1, <2>2, <2>3
<1>12. Holds(r, bounds, T, s2)
  BY <1>3, <1>8, <1>9, <1>10, <1>11 DEF Holds
<1> QED
  BY <1>7, <1>12 DEF r, s2

\* The bounds and times of both statistics are as the lemmas want them.
LEMMA Statistics ==
  /\ Bounds(LogicBounds) /\ LogicTimes \in SUBSET Nat /\ IsFiniteSet(LogicTimes)
  /\ Bounds(WaitBounds) /\ WaitTimes \in SUBSET Nat /\ IsFiniteSet(WaitTimes)
BY BoundsAssumption, TimesAssumption DEF Bounds

\* Both statistics are empty before the first tick.
LEMMA InitLatency == Init => LatencyInv
<1> SUFFICES ASSUME Init PROVE LatencyInv
  OBVIOUS
<1>1. /\ Holds(logic, LogicBounds, LogicTimes, logic_seen) /\ Samples(logic_seen) = 0
      /\ Holds(queue_wait, WaitBounds, WaitTimes, wait_seen) /\ Samples(wait_seen) = 0
  BY Statistics, EmptyHolds DEF Init
<1>2. InTune
  BY DEF Init, InTune
<1>3. /\ ticks_processed_ = 0 /\ track_queue_latency_ \in BOOLEAN /\ switched \in BOOLEAN
      /\ tick_queue_ \in Seq(BOOLEAN)
  <2>1. << >> \in Seq(BOOLEAN)
    OBVIOUS
  <2> QED
    BY <2>1 DEF Init
<1>4. ticks_processed_ \in Nat /\ Samples(wait_seen) \in 0 .. ticks_processed_
  BY <1>1, <1>3
<1> QED
  BY <1>1, <1>2, <1>3, <1>4 DEF LatencyInv

\* A tick is recorded in both statistics or, when its wait is not known, in one.
LEMMA HandleLatency ==
  ASSUME LatencyInv, NEW ns \in LogicTimes, NEW wait \in WaitTimes, Handle(ns, wait)
  PROVE  LatencyInv'
<1>1. /\ ticks_processed_' = ticks_processed_ + 1 /\ ticks_processed_ \in Nat
      /\ logic' = Record(logic, LogicBounds, ns)
      /\ logic_seen' = OnceMore(logic_seen, ns)
      /\ track_queue_latency_' = track_queue_latency_ /\ switched' = switched
      /\ tick_queue_ # << >> /\ tick_queue_ \in Seq(BOOLEAN)
      /\ tick_queue_' = Tail(tick_queue_)
  BY DEF Handle, OnceMore, LatencyInv
<1>2. /\ tick_queue_' \in Seq(BOOLEAN)
      /\ (\A k \in DOMAIN tick_queue_ : tick_queue_[k]) =>
            Head(tick_queue_) /\ \A k \in DOMAIN tick_queue_' : tick_queue_'[k]
  <2>1. Tail(tick_queue_) \in Seq(BOOLEAN) /\ Head(tick_queue_) = tick_queue_[1]
        /\ 1 \in DOMAIN tick_queue_
    BY <1>1
  <2>2. \A k \in DOMAIN Tail(tick_queue_) :
          k + 1 \in DOMAIN tick_queue_ /\ Tail(tick_queue_)[k] = tick_queue_[k + 1]
    BY <1>1
  <2> QED
    BY <1>1, <2>1, <2>2
<1>3. /\ Holds(logic', LogicBounds, LogicTimes, logic_seen')
      /\ Samples(logic_seen)' = Samples(logic_seen) + 1
  <2>1. Holds(logic, LogicBounds, LogicTimes, logic_seen)
    BY DEF LatencyInv
  <2>2. Samples(logic_seen)' = Samples(OnceMore(logic_seen, ns))
    BY <1>1 DEF Samples
  <2> QED
    BY <1>1, <2>1, <2>2, Statistics, RecordHolds
<1>4. CASE track_queue_latency_ /\ Head(tick_queue_)
  <2>1. /\ queue_wait' = Record(queue_wait, WaitBounds, wait)
        /\ wait_seen' = OnceMore(wait_seen, wait)
    BY <1>4 DEF Handle, OnceMore
  <2>2. Holds(queue_wait, WaitBounds, WaitTimes, wait_seen)
    BY DEF LatencyInv
  <2>3. Samples(wait_seen)' = Samples(OnceMore(wait_seen, wait))
    BY <2>1 DEF Samples
  <2>4. /\ Holds(queue_wait', WaitBounds, WaitTimes, wait_seen')
        /\ Samples(wait_seen)' = Samples(wait_seen) + 1
    BY <2>1, <2>2, <2>3, Statistics, RecordHolds
  <2>5. /\ Samples(wait_seen)' \in 0 .. ticks_processed_'
        /\ ticks_processed_' # 0
        /\ ticks_processed_' \in Nat /\ Samples(logic_seen)' = ticks_processed_'
    BY <1>1, <1>3, <2>4 DEF LatencyInv
  <2>6. ~switched => /\ Samples(wait_seen)' = ticks_processed_'
                     /\ \A k \in DOMAIN tick_queue_' : tick_queue_'[k]
    BY <1>1, <1>2, <1>4, <2>4 DEF LatencyInv, InTune
  <2>7. InTune'
    BY <1>1, <1>4, <2>5, <2>6 DEF InTune
  <2> QED
    BY <1>1, <1>2, <1>3, <2>4, <2>5, <2>7 DEF LatencyInv
<1>5. CASE ~(track_queue_latency_ /\ Head(tick_queue_))
  <2>1. UNCHANGED <<queue_wait, wait_seen>> /\ Samples(wait_seen)' = Samples(wait_seen)
    BY <1>5 DEF Handle, Samples
  <2>2. /\ Samples(wait_seen)' \in 0 .. ticks_processed_'
        /\ ticks_processed_' # 0
        /\ ticks_processed_' \in Nat /\ Samples(logic_seen)' = ticks_processed_'
    BY <1>1, <1>3, <2>1 DEF LatencyInv
  <2>3. ~switched => ~track_queue_latency_
    BY <1>2, <1>5 DEF LatencyInv, InTune
  <2>4. InTune'
    BY <1>1, <2>1, <2>2, <2>3 DEF LatencyInv, InTune
  <2> QED
    BY <1>1, <1>2, <1>3, <2>1, <2>2, <2>4 DEF LatencyInv
<1> QED
  BY <1>4, <1>5

\* A reset clears both statistics and leaves the queue.
LEMMA ResetLatency ==
  ASSUME LatencyInv, Reset
  PROVE  LatencyInv'
<1>1. /\ ticks_processed_' = 0
      /\ logic' = EmptyStat(LogicBounds) /\ queue_wait' = EmptyStat(WaitBounds)
      /\ logic_seen' = Never(LogicTimes) /\ wait_seen' = Never(WaitTimes)
      /\ track_queue_latency_' = track_queue_latency_ /\ tick_queue_' = tick_queue_
      /\ switched' = (switched /\ tick_queue_ # << >>)
  BY DEF Reset
<1>2. /\ Holds(logic', LogicBounds, LogicTimes, logic_seen')
      /\ Holds(queue_wait', WaitBounds, WaitTimes, wait_seen')
  BY <1>1, Statistics, EmptyHolds
<1>3. Samples(logic_seen)' = 0 /\ Samples(wait_seen)' = 0
  <2>1. /\ Samples(logic_seen)' = Samples(Never(LogicTimes))
        /\ Samples(wait_seen)' = Samples(Never(WaitTimes))
    BY <1>1 DEF Samples
  <2> QED
    BY <2>1, Statistics, EmptyHolds
<1>4. ~switched' /\ track_queue_latency_' => \A k \in DOMAIN tick_queue_ : tick_queue_[k]
  BY <1>1 DEF LatencyInv, InTune
<1> QED
  BY <1>1, <1>2, <1>3, <1>4 DEF LatencyInv, InTune

\* What is pushed while tracking is on has a time in it.
LEMMA PushLatency ==
  ASSUME LatencyInv, NEW timed \in BOOLEAN, PushTick(timed)
  PROVE  LatencyInv'
<1> DEFINE b == track_queue_latency_ \/ timed
<1>1. /\ tick_queue_' = Append(tick_queue_, b) /\ b \in BOOLEAN
      /\ tick_queue_ \in Seq(BOOLEAN)
      /\ UNCHANGED <<stats, track_queue_latency_, switched>>
  BY DEF PushTick, LatencyInv
<1>2. track_queue_latency_ => b
  OBVIOUS
<1> HIDE DEF b
<1>3. tick_queue_' \in Seq(BOOLEAN)
  BY <1>1
<1>4. b /\ (\A k \in DOMAIN tick_queue_ : tick_queue_[k]) =>
        \A k \in DOMAIN tick_queue_' : tick_queue_'[k]
  <2>1. \A k \in DOMAIN Append(tick_queue_, b) :
          \/ k \in DOMAIN tick_queue_ /\ Append(tick_queue_, b)[k] = tick_queue_[k]
          \/ Append(tick_queue_, b)[k] = b
    BY <1>1
  <2> QED
    BY <1>1, <2>1
<1>5. Samples(logic_seen)' = Samples(logic_seen) /\ Samples(wait_seen)' = Samples(wait_seen)
  BY <1>1 DEF stats, Samples
<1> QED
  BY <1>1, <1>2, <1>3, <1>4, <1>5 DEF LatencyInv, InTune, stats

\* A switch among the ticks that count is noted; any other finds nothing counted.
LEMMA SwitchLatency ==
  ASSUME LatencyInv, NEW on \in BOOLEAN, EnableTracking(on)
  PROVE  LatencyInv'
<1>1. /\ track_queue_latency_' = on
      /\ switched' = (switched \/ (on # track_queue_latency_ /\
                                   (tick_queue_ # << >> \/ ticks_processed_ > 0)))
      /\ UNCHANGED <<stats, tick_queue_>>
  BY DEF EnableTracking
<1>2. Samples(logic_seen)' = Samples(logic_seen) /\ Samples(wait_seen)' = Samples(wait_seen)
  BY <1>1 DEF stats, Samples
<1>3. ~switched' => /\ ~switched
                    /\ on = track_queue_latency_ \/
                         (tick_queue_ = << >> /\ ticks_processed_ = 0)
  BY <1>1 DEF LatencyInv
<1>4. InTune'
  BY <1>1, <1>2, <1>3 DEF LatencyInv, InTune, stats
<1> QED
  BY <1>1, <1>2, <1>4 DEF LatencyInv, stats

\* Every step keeps the invariant.
LEMMA StepLatency == LatencyInv /\ [Next]_vars => LatencyInv'
<1> SUFFICES ASSUME LatencyInv, [Next]_vars PROVE LatencyInv'
  OBVIOUS
<1>1. CASE UNCHANGED vars
  BY <1>1 DEF LatencyInv, InTune, vars, stats, Samples
<1> QED
  BY <1>1, HandleLatency, ResetLatency, PushLatency, SwitchLatency DEF Next

\* The inductive invariant holds in every reachable state.
THEOREM LatencyInductive == Spec => []LatencyInv
<1> QED
  BY InitLatency, StepLatency, PTL DEF Spec

-----------------------------------------------------------------------------
(* What the statistics say of the ticks                                    *)

\* The buckets of B together count the times that fall into one of them.
LEMMA BucketsCount ==
  ASSUME NEW bounds, Bounds(bounds), NEW T \in SUBSET Nat, IsFiniteSet(T),
         NEW stat, NEW seen, Holds(stat, bounds, T, seen), NEW B \in SUBSET Buckets(bounds)
  PROVE  SumFunctionOnSet(stat.hist, B) = SumFunctionOnSet(seen, Falling(bounds, T, B))
<1> DEFINE G == {C \in SUBSET B : SumFunctionOnSet(stat.hist, C)
                                    = SumFunctionOnSet(seen, Falling(bounds, T, C))}
<1>1. /\ stat.hist \in [Buckets(bounds) -> Nat] /\ seen \in [T -> Nat]
      /\ \A b \in Buckets(bounds) :
           stat.hist[b] = SumFunctionOnSet(seen, Falling(bounds, T, {b}))
  BY DEF Holds
<1>2. IsFiniteSet(B)
  BY BoundsFacts, FS_Subset
<1>3. {} \in G
  <2>1. Falling(bounds, T, {}) = {}
    BY DEF Falling
  <2> QED
    BY <2>1, SumEmpty
<1>4. ASSUME NEW C \in SUBSET B, NEW b \in C, C \ {b} \in G PROVE C \in G
  <2> DEFINE U == Falling(bounds, T, C)
             V == Falling(bounds, T, {b})
             W == Falling(bounds, T, C \ {b})
  <2>1. U \in SUBSET T /\ V \in SUBSET U /\ U \ V = W /\ V \in SUBSET T /\ W \in SUBSET T
    BY DEF Falling
  <2>2. SumFunctionOnSet(stat.hist, C \ {b}) = SumFunctionOnSet(seen, W)
    BY <1>4
  <2>3. IsFiniteSet(C) /\ \A a \in C : stat.hist[a] \in Int
    BY <1>1, <1>2, FS_Subset
  <2>4. SumFunctionOnSet(stat.hist, C)
          = stat.hist[b] + SumFunctionOnSet(stat.hist, C \ {b})
    BY <2>3, SumRemove
  <2>5. stat.hist[b] = SumFunctionOnSet(seen, V)
    BY <1>1
  <2> HIDE DEF U, V, W
  <2>6. IsFiniteSet(U) /\ \A x \in U : seen[x] \in Int
    BY <1>1, <2>1, SeenFacts
  <2>7. SumFunctionOnSet(seen, U) = SumFunctionOnSet(seen, V) + SumFunctionOnSet(seen, U \ V)
    <3>1. V \in SUBSET U
      BY <2>1
    <3>2. IsFiniteSet(U)
      BY <2>6
    <3>3. \A x \in U : seen[x] \in Int
      BY <2>6
    <3> QED
      BY <3>1, <3>2, <3>3, SumSplit
  <2>8. SumFunctionOnSet(stat.hist, C) = SumFunctionOnSet(seen, U)
    BY <2>1, <2>2, <2>4, <2>5, <2>7
  <2> QED
    BY <2>8 DEF U
<1> HIDE DEF G
<1>5. B \in G
  BY <1>2, <1>3, <1>4, OneByOne
<1> QED
  BY <1>5 DEF G

\* All buckets together count all times.
LEMMA AllCounted ==
  ASSUME NEW bounds, Bounds(bounds), NEW T \in SUBSET Nat, IsFiniteSet(T),
         NEW stat, NEW seen, Holds(stat, bounds, T, seen)
  PROVE  Agrees(stat, seen) /\ SumFunctionOnSet(stat.hist, Buckets(bounds)) = Samples(seen)
<1>1. /\ DOMAIN stat.hist = Buckets(bounds) /\ DOMAIN seen = T
      /\ stat.sum = Total(seen) /\ \A x \in T : seen[x] > 0 => x <= stat.max
  BY DEF Holds
<1>2. Falling(bounds, T, Buckets(bounds)) = T
  BY BucketFacts DEF Falling
<1>3. Buckets(bounds) \in SUBSET Buckets(bounds)
  OBVIOUS
<1>4. SumFunctionOnSet(stat.hist, Buckets(bounds))
        = SumFunctionOnSet(seen, Falling(bounds, T, Buckets(bounds)))
  BY <1>3, BucketsCount
<1> QED
  BY <1>1, <1>2, <1>4 DEF Agrees, Samples

\* The averages and percentiles divide by the number of samples there are, in the
\* sums and in the histogram, through resets (trading_engine.h:87, 131); of the
\* waits there are as many or none unless tracking is switched in between.
THEOREM CountsInStep == Spec => []CountsAgree
<1>1. LatencyInv => CountsAgree
  <2> SUFFICES ASSUME LatencyInv PROVE CountsAgree
    OBVIOUS
  <2>1. Agrees(logic, logic_seen) /\ Agrees(queue_wait, wait_seen)
    BY Statistics, AllCounted DEF LatencyInv
  <2>2. ~switched /\ ~track_queue_latency_ => Samples(wait_seen) = 0
    BY Statistics, EmptyHolds DEF LatencyInv, InTune
  <2> QED
    BY <2>1, <2>2 DEF LatencyInv, InTune, CountsAgree
<1> QED
  BY <1>1, LatencyInductive, PTL

-----------------------------------------------------------------------------
(* The bucket that a percentile is read off                                *)

\* The counts of the buckets up to b.
LEMMA CumulativeFacts ==
  ASSUME NEW bounds, Bounds(bounds), NEW T \in SUBSET Nat, IsFiniteSet(T),
         NEW stat, NEW seen, Holds(stat, bounds, T, seen)
  PROVE  /\ DOMAIN stat.hist = Buckets(bounds)
         /\ \A b \in 0 .. Len(bounds) + 1 : Cumulative(stat, b) \in Nat
         /\ \A b \in Buckets(bounds) :
              stat.hist[b] \in Nat /\ Cumulative(stat, b) = stat.hist[b] + Cumulative(stat, b - 1)
         /\ \A b, c \in 0 .. Len(bounds) + 1 :
              b <= c => Cumulative(stat, b) <= Cumulative(stat, c)
         /\ Cumulative(stat, 0) = 0
         /\ Cumulative(stat, Len(bounds) + 1) = Samples(seen)
<1>1. stat.hist \in [Buckets(bounds) -> Nat] /\ Len(bounds) \in Nat
  BY BoundsFacts DEF Holds
<1>2. ASSUME NEW b \in 0 .. Len(bounds) + 1
      PROVE  IsFiniteSet(1 .. b) /\ \A a \in 1 .. b : stat.hist[a] \in Nat
  <2>1. IsFiniteSet(1 .. b)
    BY <1>1, FS_Interval
  <2>2. \A a \in 1 .. b : a \in Buckets(bounds)
    BY <1>1 DEF Buckets
  <2> QED
    BY <1>1, <2>1, <2>2
<1>3. ASSUME NEW b \in 0 .. Len(bounds) + 1 PROVE Cumulative(stat, b) \in Nat
  <2> DEFINE D == 1 .. b
  <2>1. IsFiniteSet(D) /\ \A a \in D : stat.hist[a] \in Nat
    BY <1>2
  <2> HIDE DEF D
  <2>2. SumFunctionOnSet(stat.hist, D) \in Nat
    BY <2>1, SumNat
  <2> QED
    BY <2>2 DEF Cumulative, D
<1>4. ASSUME NEW b \in Buckets(bounds)
      PROVE  stat.hist[b] \in Nat /\ Cumulative(stat, b) = stat.hist[b] + Cumulative(stat, b - 1)
  <2> DEFINE D == 1 .. b
  <2>1. b \in 0 .. Len(bounds) + 1 /\ b \in D /\ D \ {b} = 1 .. b - 1
    BY <1>1 DEF Buckets
  <2>2. IsFiniteSet(D) /\ \A a \in D : stat.hist[a] \in Int
    BY <1>2, <2>1
  <2> HIDE DEF D
  <2>3. \A a \in D : SumFunctionOnSet(stat.hist, D)
                       = stat.hist[a] + SumFunctionOnSet(stat.hist, D \ {a})
    BY <2>2, SumRemove
  <2>4. SumFunctionOnSet(stat.hist, D) = stat.hist[b] + SumFunctionOnSet(stat.hist, D \ {b})
    BY <2>1, <2>3
  <2> QED
    BY <1>1, <2>1, <2>4 DEF Cumulative, D
<1>5. ASSUME NEW b \in 0 .. Len(bounds) + 1, NEW c \in 0 .. Len(bounds) + 1, b <= c
      PROVE  Cumulative(stat, b) <= Cumulative(stat, c)
  <2> DEFINE C == 1 .. b
             D == 1 .. c
  <2>1. C \in SUBSET D
    BY <1>1, <1>5
  <2>2. IsFiniteSet(D)
    BY <1>2
  <2>3. \A a \in D : stat.hist[a] \in Nat
    BY <1>2
  <2> HIDE DEF C, D
  <2>4. SumFunctionOnSet(stat.hist, C) <= SumFunctionOnSet(stat.hist, D)
    BY <2>1, <2>2, <2>3, SumOfPart
  <2> QED
    BY <2>4 DEF Cumulative, C, D
<1>6. Cumulative(stat, 0) = 0
  <2>1. 1 .. 0 = {}
    OBVIOUS
  <2> QED
    BY <2>1, SumEmpty DEF Cumulative
<1>7. Cumulative(stat, Len(bounds) + 1) = Samples(seen)
  BY AllCounted DEF Cumulative, Buckets
<1> QED
  BY <1>1, <1>3, <1>4, <1>5, <1>6, <1>7

\* The first bucket that brings the count to n.
Reached(stat, n) == {b \in DOMAIN stat.hist : Cumulative(stat, b) >= n}

Hit(stat, n) == Min(Reached(stat, n))

\* It exists when n is no more than the number of samples, the buckets before it
\* do not bring the count to n, and only the first bucket can be hit empty.
LEMMA HitFacts ==
  ASSUME NEW bounds, Bounds(bounds), NEW T \in SUBSET Nat, IsFiniteSet(T),
         NEW stat, NEW seen, Holds(stat, bounds, T, seen), NEW n \in 0 .. Samples(seen)
  PROVE  /\ Hit(stat, n) \in Buckets(bounds) /\ Reached(stat, n) # {}
         /\ \A b \in Buckets(bounds) : Hit(stat, n) <= b <=> Cumulative(stat, b) >= n
         /\ stat.hist[Hit(stat, n)] \in Nat
         /\ n - (Cumulative(stat, Hit(stat, n)) - stat.hist[Hit(stat, n)])
              \in 0 .. stat.hist[Hit(stat, n)]
         /\ stat.hist[Hit(stat, n)] = 0 => Hit(stat, n) = 1
<1> DEFINE m == Len(bounds)
           cum(b) == Cumulative(stat, b)
           h == Hit(stat, n)
<1>0. /\ DOMAIN stat.hist = 1 .. m + 1 /\ m \in Nat
      /\ \A b \in 0 .. m + 1 : cum(b) \in Nat
      /\ \A b \in 1 .. m + 1 : stat.hist[b] \in Nat /\ cum(b) = stat.hist[b] + cum(b - 1)
      /\ \A b, c \in 0 .. m + 1 : b <= c => cum(b) <= cum(c)
      /\ cum(0) = 0 /\ cum(m + 1) = Samples(seen)
  BY BoundsFacts, CumulativeFacts DEF Buckets
<1>1. Reached(stat, n) = {b \in 1 .. m + 1 : cum(b) >= n}
  BY <1>0 DEF Reached
<1> HIDE DEF cum, m
<1>2. n \in Nat /\ Samples(seen) \in Nat /\ n <= cum(m + 1)
  BY <1>0
<1> DEFINE S == {b \in 1 .. m + 1 : cum(b) >= n}
<1>3. S \in SUBSET (1 .. m + 1) /\ S \in SUBSET Int /\ m + 1 \in S /\ IsFiniteSet(1 .. m + 1)
  BY <1>0, <1>2, FS_Interval
<1>4. IsFiniteSet(S) /\ S # {}
  <2>1. IsFiniteSet(S)
    <3> HIDE DEF S
    <3> QED
      BY <1>3, FS_Subset
  <2> QED
    BY <1>3, <2>1
<1>5. h \in S /\ \A y \in S : h <= y
  <2>1. h = Min(S)
    BY <1>1 DEF Hit
  <2> HIDE DEF h, S
  <2> QED
    BY <1>3, <1>4, <2>1, MinFacts
<1> HIDE DEF h
<1>6. h \in 1 .. m + 1 /\ cum(h) >= n /\ h \in Int
  BY <1>0, <1>5
<1>7. ASSUME NEW b \in 1 .. m + 1 PROVE h <= b <=> cum(b) >= n
  <2>1. cum(b) >= n => h <= b
    BY <1>5
  <2>2. h <= b => cum(b) >= n
    <3> SUFFICES ASSUME h <= b PROVE cum(b) >= n
      OBVIOUS
    <3>1. h \in 0 .. m + 1 /\ b \in 0 .. m + 1
      BY <1>0, <1>6
    <3>2. cum(h) <= cum(b) /\ cum(h) \in Nat /\ cum(b) \in Nat
      BY <1>0, <3>1
    <3> QED
      BY <1>2, <1>6, <3>2
  <2> QED
    BY <2>1, <2>2
<1>8. /\ stat.hist[h] \in Nat /\ cum(h) = stat.hist[h] + cum(h - 1)
      /\ cum(h) \in Nat /\ cum(h - 1) \in Nat
  <2>1. h \in 0 .. m + 1 /\ h - 1 \in 0 .. m + 1
    BY <1>0, <1>6
  <2> QED
    BY <1>0, <1>6, <2>1
<1>9. cum(h - 1) <= n /\ (h # 1 => cum(h - 1) < n)
  <2>1. CASE h = 1
    <3>1. cum(h - 1) = 0
      BY <1>0, <2>1
    <3> QED
      BY <1>2, <2>1, <3>1
  <2>2. CASE h # 1
    <3>1. h - 1 \in 1 .. m + 1 /\ ~(h <= h - 1)
      BY <1>0, <1>6, <2>2
    <3>2. ~(cum(h - 1) >= n)
      BY <1>7, <3>1
    <3> QED
      BY <1>2, <1>8, <3>2
  <2> QED
    BY <2>1, <2>2
<1>10. /\ n - (cum(h) - stat.hist[h]) \in 0 .. stat.hist[h]
       /\ stat.hist[h] = 0 => h = 1
  BY <1>2, <1>6, <1>8, <1>9
<1> QED
  BY <1>1, <1>4, <1>6, <1>7, <1>8, <1>10 DEF Buckets, m, cum, h

\* The ends of a bucket that counts something are in order: the peak is no smaller
\* than a time that fell into the last bucket.
LEMMA EndsInOrder ==
  ASSUME NEW bounds, Bounds(bounds), NEW T \in SUBSET Nat, IsFiniteSet(T),
         NEW stat, NEW seen, Holds(stat, bounds, T, seen), NEW b \in Buckets(bounds),
         stat.hist[b] # 0 \/ b = 1
  PROVE  /\ LowEnd(bounds, b) \in Nat /\ HighEnd(stat, bounds, b) \in Nat
         /\ LowEnd(bounds, b) <= HighEnd(stat, bounds, b)
<1> DEFINE m == Len(bounds)
<1>1. /\ m \in Nat /\ DOMAIN bounds = 1 .. m
      /\ \A a \in 1 .. m : bounds[a] \in Nat \ {0}
      /\ \A a, c \in 1 .. m : a < c => bounds[a] < bounds[c]
  BY BoundsFacts
<1>2. b \in 1 .. m + 1
  BY DEF Buckets
<1>3. stat.max \in Nat /\ \A x \in T : seen[x] > 0 => x <= stat.max
  BY DEF Holds
<1> HIDE DEF m
<1>4. CASE b = 1
  <2>1. LowEnd(bounds, b) = 0
    BY <1>4 DEF LowEnd
  <2>2. HighEnd(stat, bounds, b) \in Nat
    BY <1>1, <1>2, <1>3 DEF HighEnd
  <2> QED
    BY <2>1, <2>2
<1>5. CASE b # 1 /\ b \in 1 .. m
  <2>1. LowEnd(bounds, b) = bounds[b - 1] /\ HighEnd(stat, bounds, b) = bounds[b]
    BY <1>1, <1>5 DEF LowEnd, HighEnd
  <2>2. b - 1 \in 1 .. m /\ b - 1 < b
    BY <1>1, <1>5
  <2>3. bounds[b - 1] \in Nat /\ bounds[b] \in Nat /\ bounds[b - 1] < bounds[b]
    BY <1>1, <1>5, <2>2
  <2> QED
    BY <2>1, <2>3
<1>6. CASE b # 1 /\ b \notin 1 .. m
  <2>1. LowEnd(bounds, b) = bounds[b - 1] /\ HighEnd(stat, bounds, b) = stat.max
    BY <1>1, <1>6 DEF LowEnd, HighEnd
  <2>2. b - 1 \in 1 .. m /\ b - 1 < b
    BY <1>1, <1>2, <1>6
  <2>3. \E x \in Falling(bounds, T, {b}) : seen[x] # 0
    <3> SUFFICES ASSUME \A x \in Falling(bounds, T, {b}) : seen[x] = 0 PROVE FALSE
      OBVIOUS
    <3>1. IsFiniteSet(Falling(bounds, T, {b}))
      BY FS_Subset DEF Falling
    <3>2. SumFunctionOnSet(seen, Falling(bounds, T, {b})) = 0
      BY <3>1, SumZero
    <3> QED
      BY <1>6, <3>2 DEF Holds
  <2>4. PICK x \in T : Bucket(bounds, x) = b /\ seen[x] # 0
    BY <2>3 DEF Falling
  <2>5. seen[x] \in Nat /\ x \in Nat
    BY DEF Holds
  <2>6. x <= stat.max
    BY <1>3, <2>4, <2>5
  <2>7. bounds[b - 1] <= x
    BY <2>2, <2>4, <2>5, BucketFacts DEF m
  <2>8. bounds[b - 1] \in Nat
    BY <1>1, <2>2
  <2> QED
    BY <1>3, <2>1, <2>5, <2>6, <2>7, <2>8
<1> QED
  BY <1>4, <1>5, <1>6

-----------------------------------------------------------------------------
(* Percentiles                                                             *)

\* What is read off for the n-th sample.
Value(stat, bounds, n) ==
  LET b == Hit(stat, n)
      lo == LowEnd(bounds, b)
  IN  IF stat.hist[b] = 0 THEN lo
      ELSE lo + ((n - (Cumulative(stat, b) - stat.hist[b]))
                   * (HighEnd(stat, bounds, b) - lo)) \div stat.hist[b]

\* It lies in the bucket that is hit.
LEMMA ValueInBucket ==
  ASSUME NEW bounds, Bounds(bounds), NEW T \in SUBSET Nat, IsFiniteSet(T),
         NEW stat, NEW seen, Holds(stat, bounds, T, seen), NEW n \in 0 .. Samples(seen)
  PROVE  LET b == Hit(stat, n)
         IN  /\ LowEnd(bounds, b) \in Nat /\ HighEnd(stat, bounds, b) \in Nat
             /\ Value(stat, bounds, n) \in Nat
             /\ LowEnd(bounds, b) <= Value(stat, bounds, n)
             /\ Value(stat, bounds, n) <= HighEnd(stat, bounds, b)
<1> DEFINE b == Hit(stat, n)
           k == n - (Cumulative(stat, b) - stat.hist[b])
           lo == LowEnd(bounds, b)
           hi == HighEnd(stat, bounds, b)
           C == stat.hist[b]
<1>1. b \in Buckets(bounds) /\ C \in Nat /\ k \in 0 .. C /\ (C = 0 => b = 1)
  BY HitFacts
<1>2. lo \in Nat /\ hi \in Nat /\ lo <= hi
  <2> HIDE DEF b
  <2> QED
    BY <1>1, EndsInOrder
<1>3. /\ C = 0 => Value(stat, bounds, n) = lo
      /\ C # 0 => Value(stat, bounds, n) = lo + (k * (hi - lo)) \div C
  BY DEF Value
<1> HIDE DEF b, k, lo, hi, C
<1>4. CASE C = 0
  BY <1>2, <1>3, <1>4 DEF lo, hi, b
<1>5. CASE C # 0
  <2>1. hi - lo \in Nat /\ C \in Nat \ {0}
    BY <1>1, <1>2, <1>5
  <2>2. (k * (hi - lo)) \div C \in 0 .. hi - lo
    BY <1>1, <2>1, PartOf
  <2> DEFINE d == (k * (hi - lo)) \div C
  <2>3. d \in 0 .. hi - lo /\ Value(stat, bounds, n) = lo + d
    BY <1>3, <1>5, <2>2
  <2> HIDE DEF d
  <2>4. /\ Value(stat, bounds, n) \in Nat /\ lo <= Value(stat, bounds, n)
        /\ Value(stat, bounds, n) <= hi
    BY <1>2, <2>1, <2>3
  <2> QED
    BY <1>2, <2>4 DEF lo, hi, b
<1> QED
  BY <1>4, <1>5

\* A later sample has no smaller value: in the same bucket it is a larger part, and
\* a bucket ends where the next begins.
LEMMA ValueMonotone ==
  ASSUME NEW bounds, Bounds(bounds), NEW T \in SUBSET Nat, IsFiniteSet(T),
         NEW stat, NEW seen, Holds(stat, bounds, T, seen),
         NEW n \in 0 .. Samples(seen), NEW m \in 0 .. Samples(seen), n <= m
  PROVE  Value(stat, bounds, n) <= Value(stat, bounds, m)
<1> DEFINE b == Hit(stat, n)
           c == Hit(stat, m)
<1>0. /\ Len(bounds) \in Nat /\ DOMAIN bounds = 1 .. Len(bounds)
      /\ \A i \in 1 .. Len(bounds) : bounds[i] \in Nat
      /\ \A i, j \in 1 .. Len(bounds) : i < j => bounds[i] < bounds[j]
  BY BoundsFacts
<1>1. /\ b \in 1 .. Len(bounds) + 1 /\ c \in 1 .. Len(bounds) + 1
      /\ b <= c <=> Cumulative(stat, c) >= n
      /\ Cumulative(stat, c) >= m
  <2>1. c \in Buckets(bounds) /\ b \in Buckets(bounds)
    BY HitFacts
  <2>2. c <= c
    BY <1>0, <2>1 DEF Buckets
  <2>3. Cumulative(stat, c) >= m
    BY <2>1, <2>2, HitFacts
  <2>4. b <= c <=> Cumulative(stat, c) >= n
    BY <2>1, HitFacts
  <2> QED
    BY <2>1, <2>3, <2>4 DEF Buckets
<1>2. b <= c
  <2>1. Cumulative(stat, c) \in Nat
    BY <1>0, <1>1, CumulativeFacts
  <2> QED
    BY <1>1, <2>1
<1>3. /\ LowEnd(bounds, b) \in Nat /\ HighEnd(stat, bounds, b) \in Nat
      /\ LowEnd(bounds, b) <= HighEnd(stat, bounds, b)
      /\ Value(stat, bounds, n) \in Nat /\ Value(stat, bounds, n) <= HighEnd(stat, bounds, b)
  BY ValueInBucket
<1>4. /\ LowEnd(bounds, c) \in Nat /\ Value(stat, bounds, m) \in Nat
      /\ LowEnd(bounds, c) <= Value(stat, bounds, m)
  BY ValueInBucket
<1>5. CASE b = c
  <2> DEFINE C == stat.hist[b]
             d == HighEnd(stat, bounds, b) - LowEnd(bounds, b)
             e == Cumulative(stat, b) - stat.hist[b]
  <2>1. C \in Nat /\ n - e \in 0 .. C
    BY HitFacts
  <2>2. m - e \in 0 .. C
    BY <1>5, HitFacts
  <2>3. CASE C = 0
    BY <1>3, <1>5, <2>3 DEF Value
  <2>4. CASE C # 0
    <3>1. /\ Value(stat, bounds, n) = LowEnd(bounds, b) + ((n - e) * d) \div C
          /\ Value(stat, bounds, m) = LowEnd(bounds, b) + ((m - e) * d) \div C
      BY <1>5, <2>4 DEF Value
    <3>2. d \in Nat
      BY <1>3
    <3> HIDE DEF b, c, C, d, e
    <3>3. (n - e) * d \in Nat /\ (m - e) * d \in Nat /\ (n - e) * d <= (m - e) * d
      <4>1. n - e \in Nat /\ m - e \in Nat /\ n - e <= m - e
        <5>1. n \in Int /\ m \in Int /\ e \in Int
          <6>1. e = Cumulative(stat, b) - C /\ C \in Nat
            BY <2>1 DEF e, C
          <6>2. Cumulative(stat, b) \in Nat
            <7>1. b \in 0 .. Len(bounds) + 1
              BY <1>0, <1>1
            <7> QED
              BY <7>1, CumulativeFacts
          <6> QED
            BY <6>1, <6>2
        <5> QED
          BY <2>1, <2>2, <5>1
      <4>2. \A i, j, l \in Nat : i <= j => i * l \in Nat /\ j * l \in Nat /\ i * l <= j * l
        OBVIOUS
      <4> QED
        BY <3>2, <4>1, <4>2
    <3>4. /\ ((n - e) * d) \div C \in Int /\ ((m - e) * d) \div C \in Int
          /\ ((n - e) * d) \div C <= ((m - e) * d) \div C
      BY <2>1, <2>4, <3>3, DivMonotone
    <3> DEFINE u == ((n - e) * d) \div C
               v == ((m - e) * d) \div C
    <3>5. u \in Int /\ v \in Int /\ u <= v
      BY <3>4
    <3>6. /\ Value(stat, bounds, n) = LowEnd(bounds, b) + u
          /\ Value(stat, bounds, m) = LowEnd(bounds, b) + v
      BY <3>1
    <3> HIDE DEF u, v
    <3>7. LowEnd(bounds, b) \in Nat
      BY <1>3
    <3> QED
      BY <3>5, <3>6, <3>7
  <2> QED
    BY <2>3, <2>4
<1>6. CASE b # c
  <2> HIDE DEF b, c
  <2>1. b \in 1 .. Len(bounds) /\ c - 1 \in 1 .. Len(bounds) /\ c # 1 /\ (b = c - 1 \/ b < c - 1)
    BY <1>0, <1>1, <1>2, <1>6
  <2>2. HighEnd(stat, bounds, b) = bounds[b] /\ LowEnd(bounds, c) = bounds[c - 1]
    BY <1>0, <2>1 DEF HighEnd, LowEnd
  <2>3. bounds[b] = bounds[c - 1] \/ bounds[b] < bounds[c - 1]
    BY <1>0, <2>1
  <2> QED
    BY <1>3, <1>4, <2>2, <2>3
<1> QED
  BY <1>5, <1>6

\* The target is a rank among the samples, and a higher percentage has none lower.
LEMMA TargetBound ==
  ASSUME ticks_processed_ \in Nat, NEW p, p \in 0 .. 1000
  PROVE  Target(p) \in 0 .. ticks_processed_
<1> DEFINE t == ticks_processed_
<1>1. PICK a \in Nat : a = p * t /\ a <= 1000 * t
  OBVIOUS
<1>2. Target(p) = (a + 500) \div 1000
  BY <1>1 DEF Target
<1>3. (a + 500) \div 1000 \in 0 .. t
  BY <1>1
<1> QED
  BY <1>2, <1>3

\* Ranks are in the order of the percentages.
LEMMA TargetMonotone ==
  ASSUME ticks_processed_ \in Nat, NEW p, p \in 0 .. 1000, NEW q, q \in 0 .. 1000, p <= q
  PROVE  Target(p) <= Target(q)
<1> DEFINE t == ticks_processed_
<1>1. PICK a \in Nat : a = p * t
  OBVIOUS
<1>2. PICK c \in Nat : c = q * t
  OBVIOUS
<1>3. p * t <= q * t
  OBVIOUS
<1>4. a <= c
  BY <1>1, <1>2, <1>3
<1>5. (a + 500) \div 1000 <= (c + 500) \div 1000
  BY <1>4
<1>6. Target(p) = (a + 500) \div 1000 /\ Target(q) = (c + 500) \div 1000
  BY <1>1, <1>2 DEF Target
<1> QED
  BY <1>5, <1>6

\* The loop of latency_percentile_ns finds the bucket that is hit.
LEMMA PercentileIs ==
  ASSUME NEW bounds, Bounds(bounds), NEW T \in SUBSET Nat, IsFiniteSet(T),
         NEW stat, NEW seen, Holds(stat, bounds, T, seen), NEW pct, pct \in 0 .. 1000,
         ticks_processed_ \in Nat, ticks_processed_ # 0, Samples(seen) = ticks_processed_
  PROVE  /\ Target(pct) \in 0 .. Samples(seen)
         /\ Percentile(stat, bounds, pct) = Value(stat, bounds, Target(pct))
<1>1. Target(pct) \in 0 .. Samples(seen)
  BY TargetBound
<1>2. Reached(stat, Target(pct)) # {}
  BY <1>1, HitFacts
<1> QED
  BY <1>1, <1>2 DEF Percentile, Value, Reached, Hit

\* Percentiles are in order when they are read off samples ...
LEMMA SampledOrdered ==
  ASSUME NEW bounds, Bounds(bounds), NEW T \in SUBSET Nat, IsFiniteSet(T),
         NEW stat, NEW seen, Holds(stat, bounds, T, seen),
         ticks_processed_ \in Nat, Samples(seen) = ticks_processed_,
         NEW p, p \in 0 .. 1000, NEW q, q \in 0 .. 1000, p < q
  PROVE  Percentile(stat, bounds, p) <= Percentile(stat, bounds, q)
<1>1. CASE ticks_processed_ = 0
  BY <1>1 DEF Percentile
<1>2. CASE ticks_processed_ # 0
  <2>1. /\ Target(p) \in 0 .. Samples(seen)
        /\ Percentile(stat, bounds, p) = Value(stat, bounds, Target(p))
    BY <1>2, PercentileIs
  <2>2. /\ Target(q) \in 0 .. Samples(seen)
        /\ Percentile(stat, bounds, q) = Value(stat, bounds, Target(q))
    BY <1>2, PercentileIs
  <2>3. Target(p) <= Target(q)
    <3>1. p <= q
      OBVIOUS
    <3> QED
      BY <3>1, TargetMonotone
  <2> QED
    BY <2>1, <2>2, <2>3, ValueMonotone
<1> QED
  BY <1>1, <1>2

\* ... and zero when there are none.
LEMMA EmptyPercentile ==
  ASSUME NEW bounds, Bounds(bounds), ticks_processed_ \in Nat, NEW p, p \in 0 .. 1000
  PROVE  Percentile(EmptyStat(bounds), bounds, p) = 0
<1> DEFINE stat == EmptyStat(bounds)
           n == Target(p)
           S == {b \in DOMAIN stat.hist : Cumulative(stat, b) >= n}
<1>1. /\ Len(bounds) \in Nat /\ DOMAIN stat.hist = 1 .. Len(bounds) + 1
      /\ stat.max = 0 /\ \A b \in 1 .. Len(bounds) + 1 : stat.hist[b] = 0
  BY BoundsFacts DEF EmptyStat
<1>2. n \in Nat
  <2>1. Target(p) \in 0 .. ticks_processed_
    BY TargetBound
  <2> QED
    BY <2>1
<1> HIDE DEF stat, n
<1>3. ASSUME NEW b \in 1 .. Len(bounds) + 1 PROVE Cumulative(stat, b) = 0
  <2> DEFINE D == 1 .. b
  <2>1. IsFiniteSet(D)
    BY <1>1, FS_Interval
  <2>2. \A a \in D : stat.hist[a] = 0
    BY <1>1
  <2> HIDE DEF D
  <2>3. SumFunctionOnSet(stat.hist, D) = 0
    BY <2>1, <2>2, SumZero
  <2> QED
    BY <2>3 DEF Cumulative, D
<1>4. CASE S = {}
  BY <1>1, <1>4 DEF Percentile, stat, n
<1>5. CASE S # {}
  <2>1. 1 \in S /\ S \in SUBSET Int /\ \A y \in S : 1 <= y
    BY <1>1, <1>2, <1>3, <1>5
  <2> HIDE DEF S
  <2>2. Min(S) = 1
    BY <2>1, MinIs
  <2>3. stat.hist[1] = 0
    BY <1>1
  <2> QED
    BY <1>5, <2>2, <2>3 DEF Percentile, LowEnd, stat, n, S
<1> QED
  BY <1>4, <1>5

\* The report never shows a P50 above the P99 or a P99 above the P99.9, for any
\* buckets and any percentages (trading_engine.cpp:118 to 165).
THEOREM PercentilesInOrder == Spec => []PercentilesOrdered
<1>1. LatencyInv => PercentilesOrdered
  <2> SUFFICES ASSUME LatencyInv, NEW p \in Percents, NEW q \in Percents, p < q
               PROVE  /\ Percentile(logic, LogicBounds, p) <= Percentile(logic, LogicBounds, q)
                      /\ ~switched => Percentile(queue_wait, WaitBounds, p)
                                        <= Percentile(queue_wait, WaitBounds, q)
    BY DEF PercentilesOrdered
  <2>1. p \in 0 .. 1000 /\ q \in 0 .. 1000 /\ ticks_processed_ \in Nat
    BY PercentAssumption DEF LatencyInv
  <2>2. Percentile(logic, LogicBounds, p) <= Percentile(logic, LogicBounds, q)
    <3>1. /\ Holds(logic, LogicBounds, LogicTimes, logic_seen)
          /\ Samples(logic_seen) = ticks_processed_
      BY DEF LatencyInv
    <3>2. Bounds(LogicBounds) /\ LogicTimes \in SUBSET Nat /\ IsFiniteSet(LogicTimes)
      BY Statistics
    <3> QED
      BY <2>1, <3>1, <3>2, SampledOrdered
  <2>3. CASE ~switched /\ track_queue_latency_
    <3>1. /\ Holds(queue_wait, WaitBounds, WaitTimes, wait_seen)
          /\ Samples(wait_seen) = ticks_processed_
      BY <2>3 DEF LatencyInv, InTune
    <3>2. Bounds(WaitBounds) /\ WaitTimes \in SUBSET Nat /\ IsFiniteSet(WaitTimes)
      BY Statistics
    <3>3. Percentile(queue_wait, WaitBounds, p) <= Percentile(queue_wait, WaitBounds, q)
      BY <2>1, <3>1, <3>2, SampledOrdered
    <3> QED
      BY <2>2, <3>3
  <2>4. CASE ~switched /\ ~track_queue_latency_
    <3>1. queue_wait = EmptyStat(WaitBounds)
      BY <2>4 DEF LatencyInv, InTune
    <3>2. Bounds(WaitBounds)
      BY Statistics
    <3>3. Percentile(EmptyStat(WaitBounds), WaitBounds, p) = 0
      BY <2>1, <3>2, EmptyPercentile
    <3>4. Percentile(EmptyStat(WaitBounds), WaitBounds, q) = 0
      BY <2>1, <3>2, EmptyPercentile
    <3> QED
      BY <2>2, <3>1, <3>3, <3>4
  <2> QED
    BY <2>2, <2>3, <2>4
<1> QED
  BY <1>1, LatencyInductive, PTL

\* The bucket that is hit is the one the n-th smallest sample fell into.
LEMMA HitIsBucket ==
  ASSUME NEW bounds, Bounds(bounds), NEW T \in SUBSET Nat, IsFiniteSet(T),
         NEW stat, NEW seen, Holds(stat, bounds, T, seen), NEW n \in 0 .. Samples(seen)
  PROVE  /\ NthSmallest(seen, n) \in Nat
         /\ Hit(stat, n) = Bucket(bounds, NthSmallest(seen, n))
<1> DEFINE upto(x) == {y \in T : y <= x}
           S == {x \in T \cup {0} : SumFunctionOnSet(seen, upto(x)) >= n}
           x == NthSmallest(seen, n)
           c == Bucket(bounds, x)
<1>0. /\ Len(bounds) \in Nat
      /\ \A b \in 1 .. Len(bounds) : bounds[b] \in Nat \ {0}
      /\ \A b, d \in 1 .. Len(bounds) : b < d => bounds[b] < bounds[d]
  BY BoundsFacts
<1>1. seen \in [T -> Nat] /\ DOMAIN seen = T
  BY DEF Holds
<1>2. \A U \in SUBSET T : SumFunctionOnSet(seen, U) \in Nat
  BY <1>1, SeenFacts
<1>3. ASSUME NEW U \in SUBSET T, NEW V \in SUBSET U
      PROVE  SumFunctionOnSet(seen, V) <= SumFunctionOnSet(seen, U)
  <2>1. IsFiniteSet(U)
    BY FS_Subset
  <2>2. \A y \in U : seen[y] \in Nat
    BY <1>1
  <2> QED
    BY <2>1, <2>2, SumOfPart
<1>4. n \in Nat /\ Samples(seen) = SumFunctionOnSet(seen, T) /\ Samples(seen) \in Nat
      /\ n <= Samples(seen)
  BY <1>1, <1>2 DEF Samples
<1>5. x = Min(S)
  BY <1>1 DEF NthSmallest
\* A part of the times that counts n has a time in S.
<1>6. ASSUME NEW U \in SUBSET T, U # {}, SumFunctionOnSet(seen, U) >= n
      PROVE  \E y \in U : y \in S
  <2>1. U \in SUBSET Int /\ IsFiniteSet(U)
    <3>1. IsFiniteSet(U)
      BY FS_Subset
    <3> QED
      BY <3>1
  <2>2. PICK y \in U : \A z \in U : z <= y
    BY <1>6, <2>1, GreatestElement
  <2>3. U \in SUBSET upto(y) /\ upto(y) \in SUBSET T /\ y \in T
    BY <2>2
  <2> HIDE DEF upto
  <2>4. SumFunctionOnSet(seen, U) <= SumFunctionOnSet(seen, upto(y))
    BY <1>3, <2>3
  <2>5. SumFunctionOnSet(seen, upto(y)) \in Nat /\ SumFunctionOnSet(seen, U) \in Nat
    BY <1>2, <2>3
  <2>6. SumFunctionOnSet(seen, upto(y)) >= n
    BY <1>4, <1>6, <2>4, <2>5
  <2> QED
    BY <2>3, <2>6
<1>7. S # {}
  <2>1. CASE T = {}
    <3>1. upto(0) = {} /\ T = {}
      BY <2>1
    <3>2. Samples(seen) = 0 /\ SumFunctionOnSet(seen, {}) = 0
      BY <1>4, <3>1, SumEmpty
    <3> HIDE DEF upto
    <3>3. 0 \in S
      BY <1>4, <3>1, <3>2
    <3> QED
      BY <3>3
  <2>2. CASE T # {}
    <3>1. T \in SUBSET T /\ SumFunctionOnSet(seen, T) >= n
      BY <1>4
    <3> HIDE DEF S
    <3> QED
      BY <1>6, <2>2, <3>1
  <2> QED
    BY <2>1, <2>2
<1>8. x \in S /\ \A y \in S : x <= y
  <2>1. T \cup {0} \in SUBSET Nat /\ IsFiniteSet(T \cup {0}) /\ S \in SUBSET (T \cup {0})
    BY FS_AddElement
  <2> HIDE DEF S
  <2>2. IsFiniteSet(S)
    BY <2>1, FS_Subset
  <2>3. S \in SUBSET Int
    BY <2>1
  <2> HIDE DEF x
  <2> QED
    BY <1>5, <1>7, <2>2, <2>3, MinFacts
<1>9. x \in Nat /\ SumFunctionOnSet(seen, upto(x)) >= n
  <2> HIDE DEF upto, x
  <2>1. x \in T \cup {0} /\ SumFunctionOnSet(seen, upto(x)) >= n
    BY <1>8
  <2> QED
    BY <2>1
<1> HIDE DEF x
<1>10. /\ c \in 1 .. Len(bounds) + 1
       /\ \A b \in 1 .. Len(bounds) : b < c <=> bounds[b] <= x
  BY <1>9, BucketFacts DEF Buckets
<1> HIDE DEF c
\* The buckets up to b count the times that fall into one of them.
<1>11. ASSUME NEW b \in 1 .. Len(bounds) + 1
       PROVE  /\ 1 .. b \in SUBSET Buckets(bounds)
              /\ Falling(bounds, T, 1 .. b) \in SUBSET T
              /\ Cumulative(stat, b) = SumFunctionOnSet(seen, Falling(bounds, T, 1 .. b))
  <2>1. 1 .. b \in SUBSET Buckets(bounds)
    BY <1>0 DEF Buckets
  <2>2. SumFunctionOnSet(stat.hist, 1 .. b)
          = SumFunctionOnSet(seen, Falling(bounds, T, 1 .. b))
    BY <2>1, BucketsCount
  <2> QED
    BY <2>1, <2>2 DEF Cumulative, Falling
<1>12. Cumulative(stat, c) >= n
  <2> DEFINE U == Falling(bounds, T, 1 .. c)
  <2>1. ASSUME NEW y \in upto(x) PROVE y \in U
    <3>1. y \in T /\ y \in Nat /\ y <= x
      OBVIOUS
    <3>2. /\ Bucket(bounds, y) \in 1 .. Len(bounds) + 1
          /\ \A b \in 1 .. Len(bounds) : b < Bucket(bounds, y) <=> bounds[b] <= y
      BY <3>1, BucketFacts DEF Buckets
    <3>3. Bucket(bounds, y) <= c
      <4> SUFFICES ASSUME c < Bucket(bounds, y) PROVE FALSE
        BY <1>10, <3>2
      <4>1. c \in 1 .. Len(bounds)
        BY <1>0, <1>10, <3>2
      <4>2. bounds[c] <= y /\ ~(bounds[c] <= x) /\ bounds[c] \in Nat
        BY <1>0, <1>10, <3>2, <4>1
      <4> QED
        BY <1>9, <3>1, <4>2
    <3> QED
      BY <1>10, <3>1, <3>2, <3>3 DEF Falling
  <2>2. U \in SUBSET T /\ upto(x) \in SUBSET U
    BY <2>1 DEF Falling
  <2>3. Cumulative(stat, c) = SumFunctionOnSet(seen, U)
    BY <1>10, <1>11
  <2> HIDE DEF U, upto
  <2>4. SumFunctionOnSet(seen, upto(x)) <= SumFunctionOnSet(seen, U)
    BY <1>3, <2>2
  <2>5. SumFunctionOnSet(seen, upto(x)) \in Nat /\ SumFunctionOnSet(seen, U) \in Nat
    <3>1. upto(x) \in SUBSET T
      BY <2>2
    <3> QED
      BY <1>2, <2>2, <3>1
  <2> QED
    BY <1>4, <1>9, <2>3, <2>4, <2>5
<1>13. ASSUME NEW b \in 1 .. Len(bounds) + 1, b < c PROVE ~(Cumulative(stat, b) >= n)
  <2> SUFFICES ASSUME Cumulative(stat, b) >= n PROVE FALSE
    OBVIOUS
  <2>1. b \in 1 .. Len(bounds) /\ bounds[b] <= x /\ bounds[b] \in Nat \ {0}
    BY <1>0, <1>10, <1>13
  <2> DEFINE U == Falling(bounds, T, 1 .. b)
  <2>2. \A y \in U : y \in Nat /\ y < bounds[b]
    <3> SUFFICES ASSUME NEW y \in U PROVE y < bounds[b]
      BY DEF Falling
    <3>1. y \in Nat /\ Bucket(bounds, y) <= b /\ Bucket(bounds, y) \in Int
      BY DEF Falling
    <3>2. ~(b < Bucket(bounds, y))
      BY <3>1
    <3>3. ~(bounds[b] <= y)
      BY <2>1, <3>1, <3>2, BucketFacts
    <3> QED
      BY <2>1, <3>1, <3>3
  <2>3. U \in SUBSET T /\ SumFunctionOnSet(seen, U) >= n
    BY <1>11
  <2> HIDE DEF U
  <2>4. CASE U # {}
    <3>1. PICK y \in U : y \in S
      <4> HIDE DEF S
      <4> QED
        BY <1>6, <2>3, <2>4
    <3>2. x <= y /\ y < bounds[b] /\ y \in Nat
      BY <1>8, <2>2, <3>1
    <3> QED
      BY <1>9, <2>1, <3>2
  <2>5. CASE U = {}
    <3>1. n = 0
      BY <1>4, <2>3, <2>5, SumEmpty
    <3>2. 0 \in S
      <4>1. upto(0) \in SUBSET T
        OBVIOUS
      <4> HIDE DEF upto
      <4>2. SumFunctionOnSet(seen, upto(0)) \in Nat
        BY <1>2, <4>1
      <4> QED
        BY <3>1, <4>2
    <3>3. x <= 0
      BY <1>8, <3>2
    <3> QED
      BY <1>9, <2>1, <3>3
  <2> QED
    BY <2>4, <2>5
<1>14. /\ Hit(stat, n) \in 1 .. Len(bounds) + 1
       /\ \A b \in 1 .. Len(bounds) + 1 : Hit(stat, n) <= b <=> Cumulative(stat, b) >= n
  BY HitFacts DEF Buckets
<1>15. Hit(stat, n) <= c
  BY <1>10, <1>12, <1>14
<1>16. ~(Hit(stat, n) < c)
  <2> SUFFICES ASSUME Hit(stat, n) < c PROVE FALSE
    OBVIOUS
  <2>1. Hit(stat, n) <= Hit(stat, n)
    BY <1>0, <1>14
  <2>2. Cumulative(stat, Hit(stat, n)) >= n
    BY <1>14, <2>1
  <2> QED
    BY <1>13, <1>14, <2>2
<1>17. Hit(stat, n) = c
  BY <1>0, <1>10, <1>14, <1>15, <1>16
<1> QED
  BY <1>9, <1>17 DEF x, c

\* The target lies between the whole ranks around the percentage.
LEMMA RanksEnclose ==
  ASSUME ticks_processed_ \in Nat, ticks_processed_ # 0, NEW p, p \in 0 .. 1000
  PROVE  /\ RankDown(p) \in 0 .. Target(p) /\ Target(p) \in 0 .. RankUp(p)
         /\ RankUp(p) \in 0 .. ticks_processed_
<1> DEFINE t == ticks_processed_
<1>1. PICK a \in Nat : a = p * t /\ a <= 1000 * t /\ (p >= 500 => a >= 500)
  OBVIOUS
<1>2. PICK d \in Nat : d = a \div 1000
  BY <1>1
<1>3. PICK n \in Nat : n = (a + 500) \div 1000
  BY <1>1
<1>4. PICK u \in Nat : u = (a + 999) \div 1000
  BY <1>1
<1>5. /\ d <= n /\ n <= u /\ u <= t /\ (p >= 500 => 1 <= n)
  BY <1>1, <1>2, <1>3, <1>4
<1>6. Target(p) = n /\ RankUp(p) = u
  BY <1>1, <1>3, <1>4 DEF Target, RankUp
<1>7. RankDown(p) = IF p >= 500 THEN Max({1, d}) ELSE d
  BY <1>1, <1>2 DEF RankDown
<1>8. Max({1, d}) \in {1, d}
  <2>1. 1 \in Nat
    OBVIOUS
  <2> QED
    BY <1>2, <2>1, MaxPair
<1> QED
  BY <1>5, <1>6, <1>7, <1>8

\* A percentile lies between the buckets of the samples around it.
LEMMA SampledClose ==
  ASSUME NEW bounds, Bounds(bounds), NEW T \in SUBSET Nat, IsFiniteSet(T),
         NEW stat, NEW seen, Holds(stat, bounds, T, seen),
         ticks_processed_ \in Nat, Samples(seen) = ticks_processed_
  PROVE  CloseToSample(stat, bounds, seen)
<1> SUFFICES ASSUME NEW pct \in Percents, ticks_processed_ > 0
             PROVE  /\ Floor(bounds, NthSmallest(seen, RankDown(pct)))
                         <= Percentile(stat, bounds, pct)
                    /\ Percentile(stat, bounds, pct)
                         <= Ceiling(bounds, NthSmallest(seen, RankUp(pct)), stat.max)
  BY DEF CloseToSample
<1>1. pct \in 0 .. 1000 /\ ticks_processed_ # 0
  BY PercentAssumption
<1>2. PICK d, n, u \in 0 .. Samples(seen) :
        d = RankDown(pct) /\ n = Target(pct) /\ u = RankUp(pct) /\ d <= n /\ n <= u
  <2>1. /\ RankDown(pct) \in 0 .. Target(pct) /\ Target(pct) \in 0 .. RankUp(pct)
        /\ RankUp(pct) \in 0 .. ticks_processed_
    BY <1>1, RanksEnclose
  <2>2. PICK u \in 0 .. ticks_processed_ : u = RankUp(pct)
    BY <2>1
  <2>3. PICK n \in 0 .. u : n = Target(pct)
    BY <2>1, <2>2
  <2>4. PICK d \in 0 .. n : d = RankDown(pct)
    BY <2>1, <2>3
  <2>5. d \in 0 .. Samples(seen) /\ n \in 0 .. Samples(seen) /\ u \in 0 .. Samples(seen)
    BY <2>2, <2>3, <2>4
  <2> QED
    BY <2>2, <2>3, <2>4, <2>5
<1>3. Percentile(stat, bounds, pct) = Value(stat, bounds, n)
  BY <1>1, <1>2, PercentileIs
<1>4. Value(stat, bounds, d) <= Value(stat, bounds, n)
  BY <1>2, ValueMonotone
<1>5. Value(stat, bounds, n) <= Value(stat, bounds, u)
  BY <1>2, ValueMonotone
<1>6. ASSUME NEW k \in 0 .. Samples(seen)
      PROVE  /\ Floor(bounds, NthSmallest(seen, k)) <= Value(stat, bounds, k)
             /\ Value(stat, bounds, k) <= Ceiling(bounds, NthSmallest(seen, k), stat.max)
             /\ Floor(bounds, NthSmallest(seen, k)) \in Nat /\ Value(stat, bounds, k) \in Nat
             /\ Ceiling(bounds, NthSmallest(seen, k), stat.max) \in Nat
  <2> DEFINE x == NthSmallest(seen, k)
  <2>1. x \in Nat /\ Hit(stat, k) = Bucket(bounds, x)
    BY HitIsBucket
  <2> HIDE DEF x
  <2>2. /\ LowEnd(bounds, Hit(stat, k)) \in Nat /\ HighEnd(stat, bounds, Hit(stat, k)) \in Nat
        /\ Value(stat, bounds, k) \in Nat
        /\ LowEnd(bounds, Hit(stat, k)) <= Value(stat, bounds, k)
        /\ Value(stat, bounds, k) <= HighEnd(stat, bounds, Hit(stat, k))
    BY ValueInBucket
  <2>3. /\ Floor(bounds, x) = LowEnd(bounds, Bucket(bounds, x))
        /\ Ceiling(bounds, x, stat.max) = HighEnd(stat, bounds, Bucket(bounds, x))
    BY <2>1, EndsFacts
  <2> QED
    BY <2>1, <2>2, <2>3 DEF x
<1>7. PICK f, vd, vn, vu, c \in Nat :
        /\ f = Floor(bounds, NthSmallest(seen, d)) /\ vd = Value(stat, bounds, d)
        /\ vn = Value(stat, bounds, n) /\ vu = Value(stat, bounds, u)
        /\ c = Ceiling(bounds, NthSmallest(seen, u), stat.max)
  BY <1>6
<1>8. f <= vd /\ vd <= vn /\ vn <= vu /\ vu <= c
  BY <1>4, <1>5, <1>6, <1>7
<1>9. f <= vn /\ vn <= c
  BY <1>8
<1> QED
  BY <1>2, <1>3, <1>7, <1>9

\* A percentile lies between the buckets of the two samples around its rank, for
\* both statistics and through resets.
THEOREM PercentilesClose == Spec => []PercentileIsClose
<1>1. LatencyInv => PercentileIsClose
  BY Statistics, SampledClose DEF LatencyInv, InTune, PercentileIsClose
<1> QED
  BY <1>1, LatencyInductive, PTL
=============================================================================
