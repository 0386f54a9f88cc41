--------------------------- MODULE RiskGateProofs ---------------------------
(***************************************************************************)
(* The types of the gate and TrackedUncrossed are inductive together: a    *)
(* limit order is tracked only when it crosses no tracked order, and every *)
(* other step leaves the table alone or takes entries out of it.           *)
(*                                                                         *)
(* RateBounded needs to know what the counter says of the orders that have *)
(* passed: RateInv bounds those of the current window by the counter and   *)
(* the limit, and those of any second that ends before the window began by *)
(* the limit.                                                              *)
(***************************************************************************)
EXTENDS RiskGate, Arithmetic

IndInv == TypeOK /\ TrackedUncrossed

Entry == [side : {"Buy", "Sell"}, price : Nat]

\* Taking entries out of the table keeps its type and crosses nothing.
LEMMA UntrackFacts ==
  ASSUME IndInv, NEW ids, UntrackOrders(ids)
  PROVE  /\ active_orders' \in [OrderIds -> Entry \cup {Untracked}]
         /\ TrackedUncrossed'
<1>1. active_orders \in [OrderIds -> Entry \cup {Untracked}]
  BY DEF IndInv, TypeOK, Entry
<1>2. active_orders' \in [OrderIds -> Entry \cup {Untracked}]
  BY <1>1 DEF UntrackOrders
<1>3. \A id \in Tracked' : id \in Tracked /\ active_orders'[id] = active_orders[id]
  BY <1>1 DEF Tracked, UntrackOrders
<1>4. TrackedUncrossed
  BY DEF IndInv
<1>5. TrackedUncrossed'
  BY <1>3, <1>4 DEF TrackedUncrossed
<1> QED BY <1>2, <1>5

\* A new entry is tracked only when it crosses none of the old ones.
LEMMA TrackFacts ==
  ASSUME IndInv, NEW id \in OrderIds, NEW o \in Offers, TrackOrder(id, o),
         o.type = "Limit", SelfTradeOk(o)
  PROVE  /\ active_orders' \in [OrderIds -> Entry \cup {Untracked}]
         /\ TrackedUncrossed'
<1>1. active_orders \in [OrderIds -> Entry \cup {Untracked}]
  BY DEF IndInv, TypeOK, Entry
<1>2. o.side \in {"Buy", "Sell"} /\ o.price \in Nat
  BY OfferAssumption
<1>3. active_orders' \in [OrderIds -> Entry \cup {Untracked}]
  BY <1>1, <1>2 DEF TrackOrder, Entry
<1>4. active_orders'[id] = [side |-> o.side, price |-> o.price]
  BY <1>1 DEF TrackOrder
<1>5. \A k \in Tracked' \ {id} : k \in Tracked /\ active_orders'[k] = active_orders[k]
  BY <1>1 DEF Tracked, TrackOrder
<1>6. ASSUME CheckSelfTrade, NEW b \in Tracked', NEW s \in Tracked',
             active_orders'[b].side = "Buy", active_orders'[s].side = "Sell"
      PROVE  active_orders'[b].price < active_orders'[s].price
  <2>1. \A k \in Tracked : ~CrossesTracked(o, active_orders[k])
    BY <1>6 DEF SelfTradeOk
  <2>2. \A k \in Tracked : active_orders[k].price \in Nat
    BY <1>1 DEF Tracked, Entry
  <2>3. CASE b = id
    <3>1. s # id
      BY <2>3, <1>4, <1>6
    <3>2. s \in Tracked /\ active_orders'[s] = active_orders[s]
      BY <1>5, <3>1, <1>6
    <3>3. o.side = "Buy"
      BY <1>4, <2>3, <1>6
    <3>4. ~(active_orders[s].price <= o.price)
      BY <2>1, <3>2, <3>3, <1>6 DEF CrossesTracked
    <3> QED BY <3>4, <3>2, <2>2, <1>2, <1>4, <2>3
  <2>4. CASE s = id
    <3>1. b # id
      BY <2>4, <1>4, <1>6
    <3>2. b \in Tracked /\ active_orders'[b] = active_orders[b]
      BY <1>5, <3>1, <1>6
    <3>3. o.side = "Sell"
      BY <1>4, <2>4, <1>6
    <3>4. ~(active_orders[b].price >= o.price)
      BY <2>1, <3>2, <3>3, <1>6 DEF CrossesTracked
    <3> QED BY <3>4, <3>2, <2>2, <1>2, <1>4, <2>4
  <2>5. CASE b # id /\ s # id
    <3>1. /\ b \in Tracked /\ active_orders'[b] = active_orders[b]
          /\ s \in Tracked /\ active_orders'[s] = active_orders[s]
      BY <1>5, <2>5, <1>6
    <3> QED BY <3>1, <1>6 DEF IndInv, TrackedUncrossed
  <2> QED BY <2>3, <2>4, <2>5
<1>7. TrackedUncrossed'
  BY <1>6 DEF TrackedUncrossed
<1> QED BY <1>3, <1>7

\* A step that leaves the table alone crosses nothing.
LEMMA TableUnchanged ==
  ASSUME IndInv, UNCHANGED active_orders
  PROVE  /\ active_orders' \in [OrderIds -> Entry \cup {Untracked}]
         /\ TrackedUncrossed'
BY DEF IndInv, TypeOK, TrackedUncrossed, Tracked, Entry

\* The types of the counters after a check.
LEMMA CheckFacts ==
  ASSUME TypeOK, NEW o, Check(o)
  PROVE  /\ orders_this_second' \in Nat
         /\ last_rate_reset' \in Times \cup {-Second}
         /\ total_orders' \in Nat /\ total_cancels' \in Nat
         /\ accepted' \in [Times -> Nat]
<1>1. /\ orders_this_second \in Nat /\ last_rate_reset \in Times \cup {-Second}
      /\ total_orders \in Nat /\ total_cancels \in Nat
      /\ now \in Times /\ accepted \in [Times -> Nat]
  BY DEF TypeOK
<1>2. orders_this_second' \in Nat /\ last_rate_reset' \in Times \cup {-Second}
  BY <1>1 DEF Check, CountOrder, InWindow, Restarts
<1>3. total_orders' \in Nat /\ total_cancels' \in Nat
  BY <1>1 DEF Check
<1>4. accepted' \in [Times -> Nat]
  BY <1>1 DEF Check
<1> QED BY <1>2, <1>3, <1>4

\* No order is tracked before the first check.
LEMMA InitInd == Init => IndInv
<1> SUFFICES ASSUME Init PROVE IndInv
  OBVIOUS
<1>1. TypeOK
  BY RiskAssumption DEF Init, TypeOK, Times
<1>2. Tracked = {}
  BY DEF Init, Tracked
<1> QED BY <1>1, <1>2 DEF IndInv, TrackedUncrossed

\* A check, a cancel, a fill and the clock keep the gate consistent.
LEMMA StepInd == IndInv /\ [Next]_vars => IndInv'
<1> SUFFICES ASSUME IndInv, [Next]_vars PROVE IndInv'
  OBVIOUS
<1>0. TypeOK
  BY DEF IndInv
<1> DEFINE Table == /\ active_orders' \in [OrderIds -> Entry \cup {Untracked}]
                    /\ TrackedUncrossed'
<1>1. ASSUME NEW id \in OrderIds, NEW o \in Offers, Submit(id, o)
      PROVE  IndInv'
  <2>1. Check(o) /\ UNCHANGED <<position, now>>
    BY <1>1 DEF Submit
  <2>2. CASE Passes(o) /\ o.type = "Limit"
    <3>1. TrackOrder(id, o) /\ SelfTradeOk(o)
      BY <1>1, <2>2 DEF Submit, Passes
    <3>2. Table
      BY <3>1, <2>2, TrackFacts
    <3> QED BY <3>2, <2>1, <1>0, CheckFacts DEF IndInv, TypeOK, Entry
  <2>3. CASE ~(Passes(o) /\ o.type = "Limit")
    <3>1. UNCHANGED active_orders
      BY <1>1, <2>3 DEF Submit
    <3>2. Table
      BY <3>1, TableUnchanged
    <3> QED BY <3>2, <2>1, <1>0, CheckFacts DEF IndInv, TypeOK, Entry
  <2> QED BY <2>2, <2>3
<1>2. ASSUME NEW id \in OrderIds, NEW side \in {"Buy", "Sell"}, NEW is_maker \in BOOLEAN,
             ReportFill(id, side, 1, is_maker)
      PROVE  IndInv'
  <2>1. Table
    BY <1>2, UntrackFacts DEF ReportFill
  <2>2. position' \in Int
    BY <1>2, RiskAssumption DEF ReportFill
  <2> QED BY <1>0, <1>2, <2>1, <2>2 DEF IndInv, TypeOK, ReportFill, rateVars, Entry
<1>3. ASSUME NEW id \in OrderIds, Cancel(id)
      PROVE  IndInv'
  <2>1. Table
    BY <1>3, UntrackFacts DEF Cancel
  <2> QED BY <1>0, <1>3, <2>1 DEF IndInv, TypeOK, Cancel, rateVars, Entry
<1>4. ASSUME Reset
      PROVE  IndInv'
  <2>1. Tracked' = {}
    BY <1>4 DEF Reset, Tracked
  <2>2. TypeOK'
    BY <1>0, <1>4 DEF TypeOK, Reset
  <2> QED BY <2>1, <2>2 DEF IndInv, TrackedUncrossed
<1>5. ASSUME Advance
      PROVE  IndInv'
  <2>1. Table
    BY <1>5, TableUnchanged DEF Advance, gateVars
  <2>2. now' \in Times
    BY <1>0, <1>5, RiskAssumption DEF Advance, TypeOK, Times
  <2> QED BY <1>0, <1>5, <2>1, <2>2 DEF IndInv, TypeOK, Advance, gateVars, rateVars, Entry
<1>6. ASSUME UNCHANGED vars
      PROVE  IndInv'
  <2>1. Table
    BY <1>6, TableUnchanged DEF vars, gateVars
  <2> QED BY <1>0, <1>6, <2>1 DEF IndInv, TypeOK, vars, gateVars, rateVars, Entry
<1> QED BY <1>1, <1>2, <1>3, <1>4, <1>5, <1>6 DEF Next

\* The gate stays consistent, whatever the engine asks of it.
THEOREM Inductive == Spec => []IndInv
<1>1. Init => IndInv
  BY InitInd
<1>2. IndInv /\ [Next]_vars => IndInv'
  BY StepInd
<1> QED BY <1>1, <1>2, PTL DEF Spec

\* The gate's variables keep their types, for any limits and any offers.
THEOREM TypeCorrect == Spec => []TypeOK
<1>1. IndInv => TypeOK
  BY DEF IndInv
<1> QED BY <1>1, Inductive, PTL

\* With check_self_trade on, check() and track_order() never let two tracked
\* orders cross, whatever is submitted, filled, cancelled or reset in between.
THEOREM NeverTracksCrossing == Spec => []TrackedUncrossed
<1>1. IndInv => TrackedUncrossed
  BY DEF IndInv
<1> QED BY <1>1, Inductive, PTL

-----------------------------------------------------------------------------
(* The rate of orders                                                      *)

\* What has passed in a set of instants, when a holds the count of each.
Passed(a, S) == SumFunctionOnSet(a, S)

Since(w) == {u \in Times : w <= u}

Until(t, w) == {u \in Times : t <= u /\ u < w}

\* No order has passed in the future, or where the next one opens a new window.
NothingAhead(a, w, n) ==
  /\ w <= n
  /\ \A u \in Times : (u > n \/ u >= w + Second) => a[u] = 0

\* The seconds that end before the window that began at w hold at most the limit.
BeforeBounded(a, w) ==
  \A t \in Int : t >= w - Second => Passed(a, Until(t, w)) <= MaxOrdersPerSecond

\* What holds of the instants a, the window from w and its counter k, at time n.
RateState(a, w, k, n) ==
  /\ NothingAhead(a, w, n)
  /\ Passed(a, Since(w)) <= k
  /\ Passed(a, Since(w)) <= MaxOrdersPerSecond
  /\ BeforeBounded(a, w)
  /\ \A t \in Times : Passed(a, Until(t, t + Second)) <= 2 * MaxOrdersPerSecond

RateInv == RateState(accepted, last_rate_reset, orders_this_second, now)

\* Every set of instants is finite: what has passed in it is a number.
LEMMA PassedFacts ==
  ASSUME NEW a \in [Times -> Nat], NEW S \in SUBSET Times
  PROVE  /\ IsFiniteSet(S) /\ Passed(a, S) \in Nat
         /\ \A T \in SUBSET S : Passed(a, T) <= Passed(a, S)
<1>1. IsFiniteSet(Times)
  BY FS_Interval, RiskAssumption DEF Times
<1>2. IsFiniteSet(S)
  BY <1>1, FS_Subset
<1>3. \A u \in S : a[u] \in Nat
  OBVIOUS
<1>4. SumFunctionOnSet(a, S) \in Nat
  BY <1>2, <1>3, SumNat
<1>5. \A T \in SUBSET S : SumFunctionOnSet(a, T) <= SumFunctionOnSet(a, S)
  BY <1>2, <1>3, SumOfPart
<1> QED
  BY <1>2, <1>4, <1>5 DEF Passed

\* Where no order has passed the sum is zero.
LEMMA NonePassed ==
  ASSUME NEW a \in [Times -> Nat], NEW S \in SUBSET Times, \A u \in S : a[u] = 0
  PROVE  Passed(a, S) = 0
BY PassedFacts, SumZero DEF Passed

\* One more order at instant n counts in the sets that hold n.
LEMMA OneMore ==
  ASSUME NEW a \in [Times -> Nat], NEW b \in [Times -> Nat], NEW n \in Times, NEW S \in SUBSET Times,
         b[n] = a[n] + 1, \A u \in Times : u # n => b[u] = a[u]
  PROVE  /\ n \in S => Passed(b, S) = Passed(a, S) + 1
         /\ n \notin S => Passed(b, S) = Passed(a, S)
<1>1. IsFiniteSet(S) /\ SumFunctionOnSet(a, S) \in Nat
  BY PassedFacts DEF Passed
<1>2. /\ \A u \in S : a[u] \in Int /\ b[u] \in Int
      /\ b[n] - a[n] = 1 /\ \A u \in S : u # n => b[u] = a[u]
  OBVIOUS
<1>3. ASSUME n \in S PROVE SumFunctionOnSet(b, S) = SumFunctionOnSet(a, S) + 1
  <2>1. SumFunctionOnSet(b, S) = SumFunctionOnSet(a, S) + (b[n] - a[n])
    BY <1>1, <1>2, <1>3, SumChange
  <2> QED
    BY <1>2, <2>1
<1>4. ASSUME n \notin S PROVE SumFunctionOnSet(b, S) = SumFunctionOnSet(a, S)
  <2>1. \A u \in S : a[u] \in Int /\ a[u] = b[u]
    BY <1>2, <1>4
  <2> QED
    BY <1>1, <2>1, SumSame
<1> QED
  BY <1>3, <1>4 DEF Passed

\* The orders of a second are those before the window and those in it.
LEMMA SecondSplit ==
  ASSUME NEW a \in [Times -> Nat], NEW t \in Times, NEW w \in Int,
         Passed(a, Since(w)) <= MaxOrdersPerSecond, BeforeBounded(a, w), t >= w - Second
  PROVE  Passed(a, Until(t, t + Second)) <= 2 * MaxOrdersPerSecond
<1> DEFINE S == Until(t, t + Second)
           T == S \cap Until(t, w)
<1>0. t \in Int /\ MaxOrdersPerSecond \in Nat
  BY RiskAssumption DEF Times
<1>1. S \in SUBSET Times /\ T \in SUBSET S /\ T \in SUBSET Until(t, w)
      /\ S \ T \in SUBSET Since(w) /\ Until(t, w) \in SUBSET Times /\ Since(w) \in SUBSET Times
  BY <1>0, RiskAssumption DEF Until, Since, Times
<1> HIDE DEF S, T
<1>2. IsFiniteSet(S) /\ \A u \in S : a[u] \in Int
  BY <1>1, PassedFacts
<1>3. SumFunctionOnSet(a, S) = SumFunctionOnSet(a, T) + SumFunctionOnSet(a, S \ T)
  BY <1>1, <1>2, SumSplit
<1>4. Passed(a, T) <= Passed(a, Until(t, w)) /\ Passed(a, S \ T) <= Passed(a, Since(w))
  BY <1>1, PassedFacts
<1>5. Passed(a, Until(t, w)) <= MaxOrdersPerSecond
  BY <1>0 DEF BeforeBounded
<1>6. /\ Passed(a, T) \in Nat /\ Passed(a, S \ T) \in Nat
      /\ Passed(a, Until(t, w)) \in Nat /\ Passed(a, Since(w)) \in Nat
  <2>1. T \in SUBSET Times /\ S \ T \in SUBSET Times
    BY <1>1
  <2> QED
    BY <1>1, <2>1, PassedFacts
<1>7. Passed(a, S) <= 2 * MaxOrdersPerSecond
  BY <1>0, <1>3, <1>4, <1>5, <1>6 DEF Passed
<1> QED
  BY <1>7 DEF S

\* The gate starts, and starts again, with nothing passed.
LEMMA Fresh ==
  ASSUME NEW a \in [Times -> Nat], NEW w \in Int, NEW k \in Nat, NEW n \in Times, w <= n,
         \A u \in Times : a[u] = 0
  PROVE  RateState(a, w, k, n)
<1>1. \A S \in SUBSET Times : Passed(a, S) = 0
  BY NonePassed
<1>2. /\ Since(w) \in SUBSET Times
      /\ \A t, v : Until(t, v) \in SUBSET Times
  BY DEF Since, Until
<1>3. MaxOrdersPerSecond \in Nat
  BY RiskAssumption
<1> QED
  BY <1>1, <1>2, <1>3 DEF RateState, NothingAhead, BeforeBounded

\* Time alone disturbs nothing.
LEMMA Later ==
  ASSUME NEW a, NEW w, NEW k, NEW n \in Int, RateState(a, w, k, n), w \in Int
  PROVE  RateState(a, w, k, n + 1)
BY DEF RateState, NothingAhead, Times

\* An attempt within the window counts; what has passed falls behind the counter.
LEMMA CountedOn ==
  ASSUME NEW a \in [Times -> Nat], NEW w \in Int, NEW k \in Nat, NEW n \in Times,
         RateState(a, w, k, n)
  PROVE  RateState(a, w, k + 1, n) /\ Passed(a, Since(w)) <= (k + 1) - 1
<1>1. Passed(a, Since(w)) \in Nat
  <2>1. Since(w) \in SUBSET Times
    BY DEF Since
  <2> QED
    BY <2>1, PassedFacts
<1> QED
  BY <1>1 DEF RateState

\* A new window begins now: the orders before it belong to the last window, for a
\* window begins a second or more after the one before.
LEMMA CountedAnew ==
  ASSUME NEW a \in [Times -> Nat], NEW w \in Int, NEW k \in Nat, NEW n \in Times,
         RateState(a, w, k, n), n - w >= Second
  PROVE  RateState(a, n, 1, n) /\ Passed(a, Since(n)) = 0
<1>0. n \in Int /\ MaxOrdersPerSecond \in Nat /\ Second \in Nat
  BY RiskAssumption DEF Times
<1>1. \A u \in Since(n) : a[u] = 0
  BY <1>0 DEF RateState, NothingAhead, Since, Times
<1>2. Passed(a, Since(n)) = 0
  <2>1. Since(n) \in SUBSET Times
    BY DEF Since
  <2> QED
    BY <1>1, <2>1, NonePassed
<1>3. ASSUME NEW t \in Int, t >= n - Second
      PROVE  Passed(a, Until(t, n)) <= MaxOrdersPerSecond
  <2>1. Until(t, n) \in SUBSET Since(w) /\ Since(w) \in SUBSET Times
    BY <1>0, <1>3 DEF Until, Since, Times
  <2>2. Passed(a, Until(t, n)) <= Passed(a, Since(w)) /\ Passed(a, Since(w)) \in Nat
    BY <2>1, PassedFacts
  <2>3. Passed(a, Until(t, n)) \in Nat
    <3>1. Until(t, n) \in SUBSET Times
      BY <2>1
    <3> QED
      BY <3>1, PassedFacts
  <2> QED
    BY <1>0, <2>2, <2>3 DEF RateState
<1>4. NothingAhead(a, n, n)
  BY <1>0 DEF RateState, NothingAhead, Times
<1> QED
  BY <1>0, <1>2, <1>3, <1>4 DEF RateState, BeforeBounded

\* An order that passes is within the counter, and the counter within the limit.
LEMMA PassesNow ==
  ASSUME NEW a \in [Times -> Nat], NEW b \in [Times -> Nat], NEW w \in Int, NEW k \in Nat,
         NEW n \in Times, RateState(a, w, k, n), n - w < Second,
         Passed(a, Since(w)) <= k - 1, k <= MaxOrdersPerSecond,
         b[n] = a[n] + 1, \A u \in Times : u # n => b[u] = a[u]
  PROVE  RateState(b, w, k, n)
<1>0. n \in Int /\ MaxOrdersPerSecond \in Nat /\ Second \in Nat /\ w <= n
  BY RiskAssumption DEF RateState, NothingAhead, Times
<1>1. NothingAhead(b, w, n)
  BY <1>0 DEF RateState, NothingAhead
<1>2. Passed(b, Since(w)) <= k
  <2>1. Since(w) \in SUBSET Times /\ n \in Since(w)
    BY <1>0 DEF Since
  <2>2. Passed(b, Since(w)) = Passed(a, Since(w)) + 1
    BY <2>1, OneMore
  <2>3. Passed(a, Since(w)) \in Nat
    BY <2>1, PassedFacts
  <2> QED
    BY <2>2, <2>3
<1>3. Passed(b, Since(w)) <= MaxOrdersPerSecond
  <2>1. Passed(b, Since(w)) \in Nat
    <3>1. Since(w) \in SUBSET Times
      BY DEF Since
    <3> QED
      BY <3>1, PassedFacts
  <2> QED
    BY <1>0, <1>2, <2>1
<1>4. BeforeBounded(b, w)
  <2>1. ASSUME NEW t \in Int, t >= w - Second
        PROVE  Passed(b, Until(t, w)) <= MaxOrdersPerSecond
    <3>1. Until(t, w) \in SUBSET Times /\ n \notin Until(t, w)
      BY <1>0 DEF Until
    <3>2. Passed(b, Until(t, w)) = Passed(a, Until(t, w))
      BY <3>1, OneMore
    <3> QED
      BY <2>1, <3>2 DEF RateState, BeforeBounded
  <2> QED
    BY <2>1 DEF BeforeBounded
<1>5. ASSUME NEW t \in Times
      PROVE  Passed(b, Until(t, t + Second)) <= 2 * MaxOrdersPerSecond
  <2>0. t \in Int
    BY DEF Times
  <2>1. CASE t >= w - Second
    BY <1>3, <1>4, <2>1, SecondSplit
  <2>2. CASE t < w - Second
    <3>1. Until(t, t + Second) \in SUBSET Times /\ n \notin Until(t, t + Second)
      BY <1>0, <2>0, <2>2 DEF Until
    <3>2. Passed(b, Until(t, t + Second)) = Passed(a, Until(t, t + Second))
      BY <3>1, OneMore
    <3> QED
      BY <3>2 DEF RateState
  <2> QED
    BY <1>0, <2>0, <2>1, <2>2
<1> QED
  BY <1>1, <1>2, <1>3, <1>4, <1>5 DEF RateState

\* A check counts the attempt, in its window or a new one, before it passes it.
LEMMA CheckRate ==
  ASSUME TypeOK, RateInv, NEW o, Check(o), UNCHANGED now
  PROVE  RateInv'
<1>0. /\ accepted \in [Times -> Nat] /\ last_rate_reset \in Int
      /\ orders_this_second \in Nat /\ now \in Times /\ now \in Int
      /\ Second \in Nat \ {0}
  BY RiskAssumption DEF TypeOK, Times
<1> DEFINE w == last_rate_reset'
           k == orders_this_second'
<1>1. /\ RateState(accepted, w, k, now) /\ Passed(accepted, Since(w)) <= k - 1
      /\ now - w < Second /\ w \in Int /\ k \in Nat
  <2>1. CASE now - last_rate_reset >= Second
    <3>1. w = now /\ k = 1
      BY <2>1 DEF Check, CountOrder, InWindow, Restarts
    <3>2. RateState(accepted, now, 1, now) /\ Passed(accepted, Since(now)) = 0
      BY <1>0, <2>1, CountedAnew DEF RateInv
    <3> HIDE DEF w, k
    <3> QED
      BY <1>0, <3>1, <3>2
  <2>2. CASE now - last_rate_reset < Second
    <3>1. w = last_rate_reset /\ k = orders_this_second + 1
      BY <1>0, <2>2 DEF Check, CountOrder, InWindow, Restarts
    <3>2. /\ RateState(accepted, last_rate_reset, orders_this_second + 1, now)
          /\ Passed(accepted, Since(last_rate_reset)) <= (orders_this_second + 1) - 1
      BY <1>0, CountedOn DEF RateInv
    <3> HIDE DEF w, k
    <3> QED
      BY <1>0, <2>2, <3>1, <3>2
  <2> QED
    BY <1>0, <2>1, <2>2
<1>2. CASE Passes(o)
  <2>1. k <= MaxOrdersPerSecond
    BY <1>2 DEF Passes, RateOk
  <2>2. accepted' = [accepted EXCEPT ![now] = @ + 1]
    BY <1>2 DEF Check
  <2>3. /\ accepted' \in [Times -> Nat] /\ accepted'[now] = accepted[now] + 1
        /\ \A u \in Times : u # now => accepted'[u] = accepted[u]
    BY <1>0, <2>2
  <2> HIDE DEF w, k
  <2>4. RateState(accepted', w, k, now)
    BY <1>0, <1>1, <2>1, <2>3, PassesNow
  <2> QED
    BY <2>4 DEF RateInv, w, k
<1>3. CASE ~Passes(o)
  <2>1. accepted' = accepted
    BY <1>3 DEF Check
  <2> QED
    BY <1>1, <2>1 DEF RateInv
<1> QED
  BY <1>2, <1>3

\* Every step keeps the rate of orders within its bounds.
LEMMA StepRate == TypeOK /\ TypeOK' /\ RateInv /\ [Next]_vars => RateInv'
<1> SUFFICES ASSUME TypeOK, TypeOK', RateInv, [Next]_vars PROVE RateInv'
  OBVIOUS
<1>1. ASSUME NEW id \in OrderIds, NEW o \in Offers, Submit(id, o)
      PROVE  RateInv'
  BY <1>1, CheckRate DEF Submit
<1>2. CASE Reset
  <2>1. /\ last_rate_reset' = now /\ now' = now /\ orders_this_second' = 0
        /\ \A u \in Times : accepted'[u] = 0
    BY <1>2 DEF Reset
  <2>2. accepted' \in [Times -> Nat] /\ now' \in Times /\ now' \in Int
    BY DEF TypeOK, Times
  <2> QED
    BY <2>1, <2>2, Fresh DEF RateInv
<1>3. CASE Advance
  <2>1. now' = now + 1 /\ UNCHANGED <<accepted, last_rate_reset, orders_this_second>>
    BY <1>3 DEF Advance, gateVars, rateVars
  <2>2. now \in Int /\ last_rate_reset \in Int
    BY RiskAssumption DEF TypeOK, Times
  <2> QED
    BY <2>1, <2>2, Later DEF RateInv
<1>4. CASE UNCHANGED <<accepted, rateVars, now>>
  BY <1>4 DEF RateInv, rateVars
<1>5. \/ \E id \in OrderIds, o \in Offers : Submit(id, o)
      \/ Reset \/ Advance
      \/ UNCHANGED <<accepted, rateVars, now>>
  BY DEF Next, ReportFill, Cancel, vars, gateVars
<1> QED
  BY <1>1, <1>2, <1>3, <1>4, <1>5

\* check_order_rate bounds the flow of orders for any limit and any length of the
\* second: no second, wherever it begins, sees more than twice the limit pass.
THEOREM RateIsBounded == Spec => []RateBounded
<1>1. Init => RateInv
  <2> SUFFICES ASSUME Init PROVE RateInv
    OBVIOUS
  <2>1. TypeOK
    BY InitInd DEF IndInv
  <2>2. /\ accepted \in [Times -> Nat] /\ last_rate_reset \in Int /\ now \in Times
        /\ orders_this_second \in Nat
    BY <2>1, RiskAssumption DEF TypeOK, Times
  <2>3. last_rate_reset <= now /\ \A u \in Times : accepted[u] = 0
    BY RiskAssumption DEF Init
  <2> QED
    BY <2>2, <2>3, Fresh DEF RateInv
<1>2. RateInv => RateBounded
  BY DEF RateInv, RateState, RateBounded, PassedFrom, Passed, Until
<1> QED
  BY <1>1, <1>2, StepRate, TypeCorrect, PTL DEF Spec
=============================================================================
