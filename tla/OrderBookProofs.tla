-------------------------- MODULE OrderBookProofs --------------------------
(***************************************************************************)
(* The order book of OrderBook.tla, for every price range, tick size and   *)
(* set of orders.  Two invariants carry the theorems:                      *)
(*                                                                         *)
(*   IndInv     match() on the caches of the best prices: what is being    *)
(*              matched crosses, nothing rests on the wrong side, and a    *)
(*              callback leaves the order it is told about where it is;    *)
(*   QueueInv   the ids in each queue ascend, order_map_ locates exactly   *)
(*              the resting orders, and each unit of each order is         *)
(*              accounted for.                                             *)
(*                                                                         *)
(* On them rest the totals of the levels, the refinement of                *)
(* PriceTimePriority.tla, and that the loops of match() end.               *)
(***************************************************************************)
EXTENDS OrderBook, Arithmetic

-----------------------------------------------------------------------------
(* The price grid                                                          *)

\* Multiples of a positive tick are ordered as their factors.
LEMMA TickOrder ==
  ASSUME NEW T \in Nat \ {0}, NEW i \in Nat, NEW j \in Nat, i < j
  PROVE  i * T < j * T
<1>1. PICK d \in Nat \ {0} : j = i + d
  BY j - i \in Nat \ {0}, j = i + (j - i)
<1>2. (i + d) * T = i * T + d * T
  OBVIOUS
<1>3. d * T > 0
  OBVIOUS
<1>4. i * T \in Nat /\ d * T \in Nat
  OBVIOUS
<1> QED
  BY <1>1, <1>2, <1>3, <1>4

\* There is at least one level.
LEMMA LevelsExist == NumLevels \in Nat \ {0} /\ 0 \in Idx
<1>1. MaxPrice - MinPrice \in Nat /\ TickSize \in Nat \ {0}
  BY ConfigAssumption
<1>2. (MaxPrice - MinPrice) \div TickSize \in Nat
  <2>1. /\ MaxPrice - MinPrice = TickSize * ((MaxPrice - MinPrice) \div TickSize)
                                  + ((MaxPrice - MinPrice) % TickSize)
        /\ (MaxPrice - MinPrice) % TickSize \in 0 .. TickSize-1
        /\ (MaxPrice - MinPrice) \div TickSize \in Int
    BY <1>1, DivMod
  <2> DEFINE q == (MaxPrice - MinPrice) \div TickSize
             r == (MaxPrice - MinPrice) % TickSize
             a == MaxPrice - MinPrice
  <2>2. a = TickSize * q + r /\ r \in 0 .. TickSize-1 /\ q \in Int /\ a \in Nat
    BY <1>1, <2>1
  <2> HIDE DEF q, r, a
  <2>3. q >= 0
    <3> SUFFICES ASSUME q <= -1 PROVE FALSE
      BY <2>2
    <3>1. TickSize * q <= TickSize * (-1)
      BY <1>1, <2>2
    <3> QED
      BY <1>1, <2>2, <3>1
  <2> QED
    BY <2>2, <2>3 DEF q
<1> QED
  BY <1>2 DEF NumLevels, Idx

\* Prices and indices of levels correspond, in order.
LEMMA LevelPrices ==
  /\ \A i \in Idx : LevelPrice(i) \in Nat /\ PriceToIndex(LevelPrice(i)) = i
  /\ \A i, j \in Idx : i < j => LevelPrice(i) < LevelPrice(j)
<1>1. ASSUME NEW i \in Idx
      PROVE  LevelPrice(i) \in Nat /\ PriceToIndex(LevelPrice(i)) = i
  <2>1. i \in Nat /\ TickSize \in Nat \ {0} /\ MinPrice \in Nat
    BY LevelsExist, ConfigAssumption DEF Idx
  <2> DEFINE a == i * TickSize
  <2>2. a \in Nat /\ a = TickSize * i + 0 /\ 0 \in 0 .. TickSize-1
    BY <2>1
  <2>3. (MinPrice + a) - MinPrice = a
    BY <2>1, <2>2
  <2> HIDE DEF a
  <2>4. /\ a = TickSize * (a \div TickSize) + (a % TickSize)
        /\ a % TickSize \in 0 .. TickSize-1
        /\ a \div TickSize \in Int
    BY <2>1, <2>2, DivMod
  <2> DEFINE q == a \div TickSize
             r == a % TickSize
  <2>5. TickSize * i + 0 = TickSize * q + r /\ r \in 0 .. TickSize-1 /\ q \in Int
    BY <2>2, <2>4
  <2> HIDE DEF q, r
  <2>6. q = i
    BY <2>1, <2>2, <2>5, QuotientUnique
  <2> QED
    BY <2>1, <2>2, <2>3, <2>6 DEF LevelPrice, PriceToIndex, a, q
<1>2. ASSUME NEW i \in Idx, NEW j \in Idx, i < j
      PROVE  LevelPrice(i) < LevelPrice(j)
  <2>1. i \in Nat /\ j \in Nat /\ TickSize \in Nat \ {0} /\ MinPrice \in Nat
    BY LevelsExist, ConfigAssumption DEF Idx
  <2>2. i * TickSize < j * TickSize /\ i * TickSize \in Nat /\ j * TickSize \in Nat
    BY <1>2, <2>1, TickOrder
  <2> QED
    BY <2>1, <2>2 DEF LevelPrice
<1> QED
  BY <1>1, <1>2

\* The price of a limit order is the price of a level, found by price_to_index.
LEMMA LimitOnGrid ==
  ASSUME NEW r \in Requests, r.type = "Limit"
  PROVE  PriceToIndex(r.price) \in Idx /\ LevelPrice(PriceToIndex(r.price)) = r.price
<1> DEFINE a == r.price - MinPrice
           b == MaxPrice - MinPrice
           q == a \div TickSize
           s == b \div TickSize
           t == b % TickSize
<1>1. a \in Nat /\ b \in Nat /\ a <= b /\ a % TickSize = 0 /\ TickSize \in Nat \ {0}
  BY ConfigAssumption, RequestAssumption
<1>2. a = TickSize * q + 0 /\ q \in Int
  BY <1>1, DivMod
<1>3. b = TickSize * s + t /\ s \in Int /\ t \in 0 .. TickSize-1
  BY <1>1, DivMod
<1>4. PriceToIndex(r.price) = q /\ NumLevels = s + 1
  BY DEF PriceToIndex, NumLevels
<1>5. r.price = MinPrice + a /\ MinPrice \in Nat
  BY ConfigAssumption, RequestAssumption
<1> HIDE DEF a, b, q, s, t
<1>6. q >= 0
  <2> SUFFICES ASSUME q <= -1 PROVE FALSE
    BY <1>2
  <2>1. TickSize * q <= TickSize * (-1)
    BY <1>1, <1>2
  <2> QED
    BY <1>1, <1>2, <2>1
<1>7. q <= s
  <2> SUFFICES ASSUME q >= s + 1 PROVE FALSE
    BY <1>2, <1>3
  <2>1. TickSize * q >= TickSize * (s + 1)
    BY <1>1, <1>2, <1>3
  <2>2. TickSize * (s + 1) = TickSize * s + TickSize
    BY <1>1, <1>3
  <2>3. TickSize * s \in Int /\ TickSize * q \in Int
    BY <1>1, <1>2, <1>3
  <2> QED
    BY <1>1, <1>2, <1>3, <2>1, <2>2, <2>3
<1>8. q \in Idx
  BY <1>2, <1>3, <1>4, <1>6, <1>7 DEF Idx
<1>9. LevelPrice(q) = MinPrice + a
  <2>1. q * TickSize = TickSize * q
    BY <1>1, <1>2
  <2> QED
    BY <1>2, <2>1, <1>1 DEF LevelPrice
<1> QED
  BY <1>4, <1>5, <1>8, <1>9

-----------------------------------------------------------------------------
(* Levels                                                                  *)

\* The smaller of two quantities.
LEMMA MinPair ==
  ASSUME NEW a \in Nat, NEW b \in Nat
  PROVE  Min({a, b}) \in {a, b} /\ Min({a, b}) <= a /\ Min({a, b}) <= b
<1>1. \E x \in {a, b} : \A y \in {a, b} : x <= y
  OBVIOUS
<1> QED
  BY <1>1 DEF Min

\* A new level is a level.
LEMMA EmptyLevelType == EmptyLevel \in PriceLevel /\ IsEmpty(EmptyLevel)
  BY DEF EmptyLevel, PriceLevel, IsEmpty

\* Appending an order leaves a level that is not empty.
LEMMA EnqueueType ==
  ASSUME NEW level \in PriceLevel, NEW id \in Ids, NEW qty \in Nat \ {0}
  PROVE  Enqueue(level, id, qty) \in PriceLevel /\ ~IsEmpty(Enqueue(level, id, qty))
<1>1. level.orders \in Seq(RestingOrder) /\ level.total_quantity \in Int
  BY DEF PriceLevel
<1>2. [id |-> id, qty |-> qty] \in RestingOrder
  BY DEF RestingOrder
<1>3. /\ Append(level.orders, [id |-> id, qty |-> qty]) \in Seq(RestingOrder)
      /\ Append(level.orders, [id |-> id, qty |-> qty]) # << >>
  BY <1>1, <1>2
<1> QED
  BY <1>1, <1>3 DEF Enqueue, PriceLevel, IsEmpty

\* Erasing an order leaves a level, and leaves the front alone unless it is
\* the front that is erased.
LEMMA EraseType ==
  ASSUME NEW level \in PriceLevel, NEW k \in 1 .. Len(level.orders)
  PROVE  /\ Erase(level, k) \in PriceLevel
         /\ k # 1 => /\ ~IsEmpty(Erase(level, k))
                     /\ Erase(level, k).orders[1] = level.orders[1]
<1> DEFINE o == level.orders
           u == SubSeq(o, 1, k-1)
           v == SubSeq(o, k+1, Len(o))
<1>1. o \in Seq(RestingOrder) /\ level.total_quantity \in Int /\ Len(o) \in Nat
  BY DEF PriceLevel
<1>2. o[k] \in RestingOrder /\ o[k].qty \in Int
  <2>1. o[k] \in RestingOrder
    BY <1>1
  <2> QED
    BY <2>1 DEF RestingOrder
<1>3. u \in Seq(RestingOrder) /\ Len(u) = k-1 /\ \A j \in 1 .. k-1 : u[j] = o[j]
  BY <1>1
<1>4. v \in Seq(RestingOrder)
  BY <1>1
<1>5. RemoveAt(o, k) = u \o v
  BY DEF RemoveAt
<1> HIDE DEF u, v
<1>6. RemoveAt(o, k) \in Seq(RestingOrder)
  BY <1>3, <1>4, <1>5
<1>7. ASSUME k # 1
      PROVE  RemoveAt(o, k) # << >> /\ RemoveAt(o, k)[1] = o[1]
  <2>1. 1 \in 1 .. k-1 /\ k-1 \in Nat
    BY <1>1, <1>7
  <2>2. Len(u \o v) = Len(u) + Len(v) /\ (u \o v)[1] = u[1] /\ Len(v) \in Nat
    BY <1>3, <1>4, <2>1
  <2> QED
    BY <1>3, <1>5, <2>1, <2>2
<1>8. Erase(level, k) = [total_quantity |-> level.total_quantity - o[k].qty,
                         orders |-> RemoveAt(o, k)]
  BY DEF Erase
<1> QED
  BY <1>1, <1>2, <1>6, <1>7, <1>8 DEF PriceLevel, IsEmpty

\* A partial fill leaves a level whose front still holds something.
LEMMA ReduceFrontType ==
  ASSUME NEW level \in PriceLevel, ~IsEmpty(level),
         NEW filled \in Nat, filled < level.orders[1].qty
  PROVE  ReduceFront(level, filled) \in PriceLevel /\ ~IsEmpty(ReduceFront(level, filled))
<1> DEFINE o == level.orders
           w == [o EXCEPT ![1].qty = @ - filled]
<1>1. o \in Seq(RestingOrder) /\ level.total_quantity \in Int /\ o # << >>
  BY DEF PriceLevel, IsEmpty
<1>2. Len(o) \in Nat /\ 1 \in 1 .. Len(o)
  BY <1>1
<1>3. o[1] \in RestingOrder
  BY <1>1, <1>2
<1>4. [o[1] EXCEPT !.qty = @ - filled] \in RestingOrder
  BY <1>3 DEF RestingOrder
<1>5. w = [o EXCEPT ![1] = [o[1] EXCEPT !.qty = @ - filled]]
  OBVIOUS
<1>6. w \in Seq(RestingOrder) /\ Len(w) = Len(o)
  BY <1>1, <1>2, <1>4, <1>5
<1> HIDE DEF w
<1>7. w # << >>
  BY <1>2, <1>6
<1>8. ReduceFront(level, filled) = [total_quantity |-> level.total_quantity - filled,
                                    orders |-> w]
  BY DEF ReduceFront, w
<1> QED
  BY <1>1, <1>6, <1>7, <1>8 DEF PriceLevel, IsEmpty

-----------------------------------------------------------------------------
(* Best prices                                                             *)

\* The scan that starts at the exhausted best level finds the best price.
LEMMA NextBestIsBest ==
  ASSUME NEW s \in Sides, NEW lv, NEW i \in Idx, NEW p,
         IsEmpty(lv[i]),
         \A j \in Idx : Better(s, LevelPrice(j), LevelPrice(i)) => IsEmpty(lv[j]),
         IsNextBest(s, lv, i, p)
  PROVE  IsBest(s, lv, p)
<1>1. ASSUME NEW j \in Idx, ~IsEmpty(lv[j]) PROVE j \in Behind(s, i)
  <2>1. j # i /\ i \in Nat /\ j \in Nat
    BY <1>1, LevelsExist DEF Idx
  <2>2. LevelPrice(j) < LevelPrice(i) \/ LevelPrice(i) < LevelPrice(j)
    BY <2>1, LevelPrices
  <2> QED
    BY <1>1, <2>2, LevelPrices DEF Behind, Better
<1>2. CASE p = NoPrice /\ \A j \in Behind(s, i) : IsEmpty(lv[j])
  BY <1>1, <1>2 DEF IsBest
<1>3. ASSUME NEW j \in Behind(s, i), p = LevelPrice(j), ~IsEmpty(lv[j]),
             \A k \in Behind(s, i) : ~IsEmpty(lv[k]) => ~Better(s, LevelPrice(k), p)
      PROVE  IsBest(s, lv, p)
  <2>1. j \in Idx
    BY DEF Behind
  <2> QED
    BY <1>1, <1>3, <2>1 DEF IsBest
<1> QED
  BY <1>2, <1>3 DEF IsNextBest

-----------------------------------------------------------------------------
(* The inductive invariant                                                 *)

\* The locals of match(): an order is being added exactly when the call is
\* running, the price of a limit order is a level's, and the level being
\* matched is the best one, every better level being empty.
InCall ==
  /\ phase = "idle" <=> incoming = NoOrder
  /\ incoming.type = "Limit" =>
       /\ PriceToIndex(incoming.price) \in Idx
       /\ LevelPrice(PriceToIndex(incoming.price)) = incoming.price
  /\ phase \in {"level", "taker", "maker"} =>
       /\ best[Book] = LevelPrice(idx)
       /\ \A j \in Idx :
            Better(Book, LevelPrice(j), LevelPrice(idx)) => IsEmpty(levels[Book][j])

\* The reference to the front of the level, and the quantity to be traded.
Callback ==
  phase \in {"taker", "maker"} =>
    /\ ~IsEmpty(Level)
    /\ Level.orders[1].id = resting
    /\ fill.price = LevelPrice(idx)
    /\ fill.qty \in 1 .. incoming.qty
    /\ fill.qty <= Level.orders[1].qty

IndInv == TypeOK /\ InCall /\ Callback /\ BestIsExact /\ Uncrossed

\* The order in hand is typed while a call runs.
LEMMA IncomingType ==
  ASSUME IndInv, phase # "idle"
  PROVE  /\ incoming \in Order /\ incoming.id \in Ids /\ incoming.side \in Sides
         /\ incoming.price \in Nat /\ incoming.qty \in Nat
         /\ incoming.type \in {"Limit", "Market"}
         /\ Book \in Sides /\ Book # incoming.side
<1>1. incoming \in Order
  BY DEF IndInv, InCall, TypeOK
<1>2. /\ incoming.id \in Ids /\ incoming.side \in Sides /\ incoming.price \in Nat
      /\ incoming.qty \in Nat /\ incoming.type \in {"Limit", "Market"}
  BY <1>1 DEF Order
<1> QED
  BY <1>1, <1>2 DEF Book, Opposite, Sides

\* The reachable prices: levels and best prices are well typed.
LEMMA BookType ==
  ASSUME IndInv
  PROVE  /\ \A s \in Sides, i \in Idx : levels[s][i] \in PriceLevel
         /\ \A s \in Sides : best[s] \in Int /\ (best[s] < 0 <=> best[s] = NoPrice)
<1>1. \A p \in Prices : p \in Nat
  BY LevelPrices DEF Prices
<1>2. /\ levels \in [Sides -> [Idx -> PriceLevel]]
      /\ best \in [Sides -> Prices \cup {NoPrice}]
  BY DEF IndInv, TypeOK
<1>3. \A s \in Sides, i \in Idx : levels[s][i] \in PriceLevel
  BY <1>2
<1>4. ASSUME NEW s \in Sides PROVE best[s] \in Int /\ (best[s] < 0 <=> best[s] = NoPrice)
  BY <1>1, <1>2 DEF NoPrice
<1> QED
  BY <1>3, <1>4

\* The constructor: all levels empty, no best price.
LEMMA InitInd == Init => IndInv
<1> SUFFICES ASSUME Init PROVE IndInv
  OBVIOUS
<1>1. 0 \in Idx /\ 1 \in 1 .. MaxOrders + 1
  BY LevelsExist, MaxOrdersAssumption
<1>2. \A s \in Sides, i \in Idx : levels[s][i] = EmptyLevel
  BY DEF Init
<1>3. levels \in [Sides -> [Idx -> PriceLevel]]
  BY EmptyLevelType DEF Init
<1>4. TypeOK
  BY <1>1, <1>3 DEF Init, TypeOK, NoPrice
<1>5. InCall /\ Callback
  BY DEF Init, InCall, Callback, NoOrder
<1>6. BestIsExact
  BY <1>2, EmptyLevelType DEF Init, BestIsExact, IsBest
<1>7. Uncrossed
  BY <1>2, EmptyLevelType DEF Uncrossed, Sides
<1> QED
  BY <1>4, <1>5, <1>6, <1>7 DEF IndInv

\* Entering add_order fixes the order in hand.
LEMMA AddOrderInd ==
  ASSUME IndInv, NEW r \in Requests, AddOrder(r)
  PROVE  IndInv'
<1>1. /\ phase = "idle" /\ phase' = "match" /\ next_id <= MaxOrders
      /\ incoming' = [id |-> next_id, side |-> r.side, type |-> r.type,
                      price |-> r.price, qty |-> r.qty]
      /\ next_id' = next_id + 1
      /\ ordered' = [ordered EXCEPT ![next_id] = r.qty]
      /\ UNCHANGED <<levels, best, order_map, idx, resting, fill, reported>>
  BY DEF AddOrder, bookVars
<1>2. TypeOK /\ InCall /\ Callback /\ BestIsExact /\ Uncrossed
  BY DEF IndInv
<1>3. /\ r.side \in Sides /\ r.type \in {"Limit", "Market"}
      /\ r.price \in Nat /\ r.qty \in Nat
  BY RequestAssumption DEF Sides
<1>4. next_id \in Ids /\ next_id' \in 1 .. MaxOrders + 1
  BY <1>1, <1>2, MaxOrdersAssumption DEF TypeOK, Ids
<1>5. incoming' \in Order /\ incoming' # NoOrder
  <2>1. incoming' \in Order
    BY <1>1, <1>3, <1>4 DEF Order
  <2>2. incoming'.side # "none"
    BY <1>1, <1>3 DEF Sides
  <2> QED
    BY <2>1, <2>2 DEF NoOrder
<1>6. TypeOK'
  <2>1. ordered' \in [Ids -> Nat]
    BY <1>1, <1>2, <1>3, <1>4 DEF TypeOK
  <2> QED
    BY <2>1, <1>1, <1>2, <1>4, <1>5 DEF TypeOK
<1>7. InCall'
  <2>1. r.type = "Limit" => /\ PriceToIndex(r.price) \in Idx
                            /\ LevelPrice(PriceToIndex(r.price)) = r.price
    BY LimitOnGrid
  <2> QED
    BY <2>1, <1>1, <1>5 DEF InCall
<1>8. Callback' /\ BestIsExact' /\ Uncrossed'
  BY <1>1, <1>2 DEF Callback, BestIsExact, Uncrossed
<1> QED
  BY <1>6, <1>7, <1>8 DEF IndInv

\* Entering a level: it is the best one.
LEMMA EnterLevelInd ==
  ASSUME IndInv, EnterLevel
  PROVE  IndInv'
<1>1. /\ phase = "match" /\ phase' = "level" /\ Crosses(incoming)
      /\ idx' = PriceToIndex(best[Book])
      /\ UNCHANGED <<levels, best, order_map, incoming, resting, fill, next_id,
                     ordered, reported>>
  BY DEF EnterLevel, bookVars, histVars
<1>2. TypeOK /\ InCall /\ BestIsExact /\ Uncrossed
  BY DEF IndInv
<1>3. Book \in Sides /\ Book' = Book /\ best[Book] >= 0
  BY <1>1, IncomingType DEF Crosses, Book
<1>4. IsBest(Book, levels[Book], best[Book])
  BY <1>1, <1>2, <1>3 DEF BestIsExact
<1>5. PICK i \in Idx :
        /\ best[Book] = LevelPrice(i) /\ ~IsEmpty(levels[Book][i])
        /\ \A j \in Idx : Better(Book, LevelPrice(j), best[Book]) => IsEmpty(levels[Book][j])
  BY <1>3, <1>4 DEF IsBest, NoPrice
<1>6. idx' = i
  BY <1>1, <1>5, LevelPrices
<1>7. TypeOK'
  BY <1>1, <1>2, <1>5, <1>6 DEF TypeOK
<1>8. InCall'
  BY <1>1, <1>2, <1>3, <1>5, <1>6 DEF InCall
<1>9. Callback'
  BY <1>1 DEF Callback
<1>10. BestIsExact'
  BY <1>1, <1>2 DEF BestIsExact
<1>11. Uncrossed'
  BY <1>1, <1>2 DEF Uncrossed
<1> QED
  BY <1>7, <1>8, <1>9, <1>10, <1>11 DEF IndInv

\* Binding the front order and announcing the trade to the taker.
LEMMA ReportTakerInd ==
  ASSUME IndInv, ReportTaker
  PROVE  IndInv'
<1>1. /\ phase = "level" /\ phase' = "taker" /\ ~IsEmpty(Level) /\ incoming.qty > 0
      /\ resting' = Level.orders[1].id
      /\ fill' = [qty |-> Min({incoming.qty, Level.orders[1].qty}), price |-> best[Book]]
      /\ reported' = [reported EXCEPT ![incoming.id] = @ + fill'.qty]
      /\ UNCHANGED <<levels, best, order_map, incoming, idx, next_id, ordered>>
  BY DEF ReportTaker, Report, bookVars
<1>2. TypeOK /\ InCall /\ BestIsExact /\ Uncrossed
  BY DEF IndInv
<1>3. /\ Book \in Sides /\ incoming.id \in Ids /\ incoming.qty \in Nat
      /\ Book' = Book /\ Level' = Level
  BY <1>1, IncomingType DEF Book, Level
<1>4. idx \in Idx /\ Level \in PriceLevel
  BY <1>2, <1>3, BookType DEF TypeOK, Level
<1>5. Level.orders[1] \in RestingOrder
  <2>1. Level.orders \in Seq(RestingOrder) /\ Level.orders # << >>
    BY <1>1, <1>4 DEF PriceLevel, IsEmpty
  <2> QED
    BY <2>1
<1>6. Level.orders[1].id \in Ids /\ Level.orders[1].qty \in Nat \ {0}
  BY <1>5 DEF RestingOrder
<1>7. /\ fill'.qty \in 1 .. incoming.qty /\ fill'.qty <= Level.orders[1].qty
      /\ fill'.qty \in Nat /\ fill'.price = best[Book]
  BY <1>1, <1>3, <1>6, MinPair
<1>8. best[Book] = LevelPrice(idx) /\ best[Book] \in Prices \cup {NoPrice}
  BY <1>1, <1>2, <1>4 DEF InCall, Prices
<1>9. TypeOK'
  <2>1. fill' \in [qty : Nat, price : Prices \cup {NoPrice}]
    BY <1>1, <1>7, <1>8
  <2>2. reported' \in [Ids -> Nat]
    BY <1>1, <1>2, <1>3, <1>7 DEF TypeOK
  <2> QED
    BY <2>1, <2>2, <1>1, <1>2, <1>6 DEF TypeOK
<1>10. InCall'
  BY <1>1, <1>2, <1>3 DEF InCall
<1>11. Callback'
  BY <1>1, <1>3, <1>7, <1>8 DEF Callback
<1>12. BestIsExact'
  BY <1>1, <1>2 DEF BestIsExact, Level, Book
<1>13. Uncrossed'
  BY <1>1, <1>2 DEF Uncrossed
<1> QED
  BY <1>9, <1>10, <1>11, <1>12, <1>13 DEF IndInv

\* Announcing the trade to the maker.
LEMMA ReportMakerInd ==
  ASSUME IndInv, ReportMaker
  PROVE  IndInv'
<1>1. /\ phase = "taker" /\ phase' = "maker"
      /\ fill' = [fill EXCEPT !.price = best[Book]]
      /\ reported' = [reported EXCEPT ![resting] = @ + fill'.qty]
      /\ UNCHANGED <<levels, best, order_map, incoming, idx, resting, next_id, ordered>>
  BY DEF ReportMaker, Report, bookVars
<1>2. TypeOK /\ InCall /\ Callback /\ BestIsExact /\ Uncrossed
  BY DEF IndInv
<1>3. Book \in Sides /\ Book' = Book /\ Level' = Level
  BY <1>1, IncomingType DEF Book, Level
<1>4. /\ idx \in Idx /\ best[Book] = LevelPrice(idx) /\ best[Book] \in Prices \cup {NoPrice}
      /\ fill \in [qty : Nat, price : Prices \cup {NoPrice}]
  BY <1>1, <1>2 DEF TypeOK, InCall, Prices
<1>5. fill'.qty = fill.qty /\ fill'.price = best[Book]
      /\ fill' \in [qty : Nat, price : Prices \cup {NoPrice}]
  BY <1>1, <1>4
<1>6. TypeOK'
  <2>1. reported' \in [Ids -> Nat]
    <3>1. reported \in [Ids -> Nat] /\ fill'.qty \in Nat
      BY <1>2, <1>4, <1>5 DEF TypeOK
    <3> DEFINE q == fill'.qty
    <3>2. reported' = [reported EXCEPT ![resting] = @ + q]
      BY <1>1
    <3> HIDE DEF q
    <3>3. CASE resting \in Ids
      BY <3>1, <3>2, <3>3 DEF q
    <3>4. CASE resting \notin Ids
      <4>1. reported' = reported
        BY <3>1, <3>2, <3>4
      <4> QED
        BY <4>1, <3>1
    <3> QED
      BY <3>3, <3>4
  <2> QED
    BY <2>1, <1>1, <1>2, <1>5 DEF TypeOK
<1>7. InCall'
  BY <1>1, <1>2, <1>3 DEF InCall
<1>8. Callback'
  BY <1>1, <1>2, <1>3, <1>4, <1>5 DEF Callback
<1>9. BestIsExact'
  BY <1>1, <1>2 DEF BestIsExact, Level, Book
<1>10. Uncrossed'
  BY <1>1, <1>2 DEF Uncrossed
<1> QED
  BY <1>6, <1>7, <1>8, <1>9, <1>10 DEF IndInv

\* Booking the trade: the front leaves or shrinks, best prices stay put.
LEMMA SettleInd ==
  ASSUME IndInv, Settle
  PROVE  IndInv'
<1>1. /\ phase = "maker" /\ phase' = "level"
      /\ incoming' = [incoming EXCEPT !.qty = @ - fill.qty]
      /\ UNCHANGED <<best, idx, resting, fill, next_id, ordered, reported>>
  BY DEF Settle
<1>2. TypeOK /\ InCall /\ Callback /\ BestIsExact /\ Uncrossed
  BY DEF IndInv
<1>3. /\ incoming \in Order /\ incoming.qty \in Nat /\ incoming.side \in Sides
      /\ Book \in Sides /\ idx \in Idx
  BY <1>1, <1>2, IncomingType DEF TypeOK
<1>4. Level \in PriceLevel /\ Level = levels[Book][idx] /\ ~IsEmpty(Level)
  BY <1>1, <1>2, <1>3, BookType DEF Level, Callback
<1>5. fill.qty \in Nat /\ fill.qty <= incoming.qty
  BY <1>1, <1>2, <1>3 DEF Callback
<1>6. /\ incoming' \in Order /\ incoming'.side = incoming.side
      /\ incoming'.type = incoming.type /\ incoming'.price = incoming.price
  BY <1>1, <1>3, <1>5 DEF Order
<1>7. Book' = Book
  BY <1>6 DEF Book
<1>8. PICK lv \in PriceLevel : levels' = [levels EXCEPT ![Book][idx] = lv]
  <2>1. CASE fill.qty >= Level.orders[1].qty
    <3>1. levels' = [levels EXCEPT ![Book][idx] = Erase(levels[Book][idx], 1)]
      BY <1>1, <2>1 DEF Settle
    <3>2. 1 \in 1 .. Len(Level.orders)
      <4>1. Level.orders \in Seq(RestingOrder) /\ Level.orders # << >>
        BY <1>4 DEF PriceLevel, IsEmpty
      <4> QED
        BY <4>1
    <3>3. Erase(levels[Book][idx], 1) \in PriceLevel
      BY <1>4, <3>2, EraseType
    <3> QED
      BY <3>1, <3>3
  <2>2. CASE ~(fill.qty >= Level.orders[1].qty)
    <3>1. levels' = [levels EXCEPT ![Book][idx] = ReduceFront(levels[Book][idx], fill.qty)]
      BY <1>1, <2>2 DEF Settle
    <3>2. fill.qty < Level.orders[1].qty
      <4>1. Level.orders \in Seq(RestingOrder) /\ Level.orders # << >>
        BY <1>4 DEF PriceLevel, IsEmpty
      <4>2. Level.orders[1] \in RestingOrder
        BY <4>1
      <4> QED
        BY <4>2, <1>5, <2>2 DEF RestingOrder
    <3>3. ReduceFront(levels[Book][idx], fill.qty) \in PriceLevel
      BY <1>4, <1>5, <3>2, ReduceFrontType
    <3> QED
      BY <3>1, <3>3
  <2> QED
    BY <2>1, <2>2
<1>9. levels \in [Sides -> [Idx -> PriceLevel]]
  BY <1>2 DEF TypeOK
<1>10. /\ levels' \in [Sides -> [Idx -> PriceLevel]]
       /\ \A s \in Sides, j \in Idx :
            ~(s = Book /\ j = idx) => levels'[s][j] = levels[s][j]
       /\ \A s \in Sides : s # Book => levels'[s] = levels[s]
  BY <1>3, <1>8, <1>9
<1>11. order_map' \in [Ids -> [side : Sides, idx : Idx] \cup {NoLoc}]
  BY <1>1, <1>2 DEF Settle, TypeOK
<1>12. TypeOK'
  BY <1>1, <1>2, <1>6, <1>10, <1>11 DEF TypeOK
<1>13. ~Better(Book, LevelPrice(idx), LevelPrice(idx))
  BY <1>3, LevelPrices DEF Better
<1>14. /\ best'[Book] = LevelPrice(idx)
       /\ \A j \in Idx :
            Better(Book, LevelPrice(j), LevelPrice(idx)) => IsEmpty(levels'[Book][j])
  BY <1>1, <1>2, <1>3, <1>10, <1>13 DEF InCall
<1>15. InCall'
  <2>1. incoming' # NoOrder
    BY <1>3, <1>6 DEF NoOrder, Sides
  <2> QED
    BY <2>1, <1>1, <1>2, <1>6, <1>7, <1>14 DEF InCall
<1>16. Callback'
  BY <1>1 DEF Callback
<1>17. BestIsExact'
  <2> SUFFICES ASSUME NEW s \in Sides, ~(s = Book /\ IsEmpty(levels'[Book][idx]))
               PROVE  IsBest(s, levels'[s], best'[s])
    BY <1>1, <1>7 DEF BestIsExact, Level
  <2>1. CASE s = Book
    BY <2>1, <1>3, <1>14 DEF IsBest
  <2>2. CASE s # Book
    BY <2>2, <1>1, <1>2, <1>10 DEF BestIsExact
  <2> QED
    BY <2>1, <2>2
<1>18. Uncrossed'
  <2>1. \A s \in Sides, j \in Idx : ~IsEmpty(levels'[s][j]) => ~IsEmpty(levels[s][j])
    BY <1>4, <1>10
  <2> QED
    BY <2>1, <1>2 DEF Uncrossed, Sides
<1> QED
  BY <1>12, <1>15, <1>16, <1>17, <1>18 DEF IndInv

\* Leaving an exhausted level repairs the best price.
LEMMA LeaveLevelInd ==
  ASSUME IndInv, LeaveLevel
  PROVE  IndInv'
<1>1. /\ phase = "level" /\ phase' = "match" /\ levels' = levels
      /\ UNCHANGED <<order_map, incoming, idx, resting, fill, next_id, ordered, reported>>
  BY DEF LeaveLevel, histVars
<1>2. TypeOK /\ InCall /\ Callback /\ BestIsExact /\ Uncrossed
  BY DEF IndInv
<1>3. Book \in Sides /\ Book' = Book /\ Level = levels[Book][idx] /\ idx \in Idx
  BY <1>1, <1>2, IncomingType DEF Book, Level, TypeOK
<1>4. best \in [Sides -> Prices \cup {NoPrice}]
  BY <1>2 DEF TypeOK
<1>5. CASE IsEmpty(Level)
  <2>1. PICK p \in Prices \cup {NoPrice} :
          IsNextBest(Book, levels[Book], idx, p) /\ best' = [best EXCEPT ![Book] = p]
    BY <1>1, <1>5 DEF LeaveLevel, UpdateBestAfterEmpty
  <2>2. IsBest(Book, levels[Book], p)
    BY <1>1, <1>2, <1>3, <1>5, <2>1, NextBestIsBest DEF InCall
  <2>3. /\ best' \in [Sides -> Prices \cup {NoPrice}] /\ best'[Book] = p
        /\ \A s \in Sides : s # Book => best'[s] = best[s]
    BY <1>3, <1>4, <2>1
  <2>4. TypeOK'
    BY <1>1, <1>2, <2>3 DEF TypeOK
  <2>5. InCall' /\ Callback'
    BY <1>1, <1>2 DEF InCall, Callback
  <2>6. BestIsExact'
    <3> SUFFICES ASSUME NEW s \in Sides PROVE IsBest(s, levels[s], best'[s])
      BY <1>1 DEF BestIsExact
    <3>1. CASE s = Book
      BY <3>1, <2>2, <2>3
    <3>2. CASE s # Book
      BY <3>2, <2>3, <1>1, <1>2 DEF BestIsExact
    <3> QED
      BY <3>1, <3>2
  <2>7. Uncrossed'
    BY <1>1, <1>2 DEF Uncrossed
  <2> QED
    BY <2>4, <2>5, <2>6, <2>7 DEF IndInv
<1>6. CASE ~IsEmpty(Level)
  <2>1. best' = best
    BY <1>6 DEF LeaveLevel
  <2>2. TypeOK'
    BY <1>1, <1>2, <2>1 DEF TypeOK
  <2>3. InCall' /\ Callback'
    BY <1>1, <1>2 DEF InCall, Callback
  <2>4. BestIsExact'
    BY <1>1, <1>2, <1>6, <2>1 DEF BestIsExact
  <2>5. Uncrossed'
    BY <1>1, <1>2 DEF Uncrossed
  <2> QED
    BY <2>2, <2>3, <2>4, <2>5 DEF IndInv
<1> QED
  BY <1>5, <1>6

\* What add_order leaves behind when it returns.
LEMMA ReturnFacts ==
  ASSUME Return
  PROVE  /\ phase' = "idle" /\ incoming' = NoOrder /\ idx' \in Idx /\ resting' = 0
         /\ fill' \in [qty : Nat, price : Prices \cup {NoPrice}]
         /\ InCall' /\ Callback'
<1>1. /\ phase' = "idle" /\ incoming' = NoOrder /\ idx' = 0 /\ resting' = 0
      /\ fill' = [qty |-> 0, price |-> NoPrice]
  BY DEF Return
<1>2. InCall' /\ Callback'
  BY <1>1 DEF InCall, Callback, NoOrder
<1> QED
  BY <1>1, <1>2, LevelsExist

\* Nothing rests: the book is untouched.
LEMMA DiscardInd ==
  ASSUME IndInv, Discard
  PROVE  IndInv'
<1>1. /\ phase = "match" /\ Return
      /\ UNCHANGED <<levels, best, order_map, next_id, ordered, reported>>
  BY DEF Discard, bookVars, histVars
<1>2. TypeOK /\ BestIsExact /\ Uncrossed
  BY DEF IndInv
<1>3. TypeOK'
  BY <1>1, <1>2, ReturnFacts DEF TypeOK
<1>4. BestIsExact'
  BY <1>1, <1>2 DEF BestIsExact
<1>5. Uncrossed'
  BY <1>1, <1>2 DEF Uncrossed
<1> QED
  BY <1>1, <1>3, <1>4, <1>5, ReturnFacts DEF IndInv

\* The rest of a limit order joins a level that no order of the other side
\* reaches, and raises the best price only if it is better.
LEMMA RestInd ==
  ASSUME IndInv, Rest
  PROVE  IndInv'
<1> DEFINE s == incoming.side
           i == PriceToIndex(incoming.price)
           lv == Enqueue(levels[s][i], incoming.id, incoming.qty)
<1>1. /\ phase = "match" /\ ~Crosses(incoming) /\ incoming.qty > 0
      /\ incoming.type = "Limit" /\ Return
      /\ levels' = [levels EXCEPT ![s][i] = lv]
      /\ order_map' = [order_map EXCEPT ![incoming.id] = [side |-> s, idx |-> i]]
      /\ best' = IF best[s] < 0 \/ Better(s, incoming.price, best[s])
                 THEN [best EXCEPT ![s] = incoming.price] ELSE best
      /\ UNCHANGED <<next_id, ordered, reported>>
  BY DEF Rest, histVars
<1>2. TypeOK /\ InCall /\ BestIsExact /\ Uncrossed
  BY DEF IndInv
<1>3. /\ incoming.id \in Ids /\ s \in Sides /\ incoming.qty \in Nat \ {0}
      /\ Book \in Sides /\ Book # s /\ Book = Opposite(s)
  BY <1>1, IncomingType DEF Book
<1>4. i \in Idx /\ LevelPrice(i) = incoming.price /\ incoming.price \in Nat
  BY <1>1, <1>2, IncomingType DEF InCall
<1>5. lv \in PriceLevel /\ ~IsEmpty(lv)
  <2>1. levels[s][i] \in PriceLevel
    BY <1>3, <1>4, BookType
  <2> QED
    BY <2>1, <1>3, EnqueueType
<1>6. \A t \in Sides : IsBest(t, levels[t], best[t])
  BY <1>1, <1>2 DEF BestIsExact
<1>7. /\ levels \in [Sides -> [Idx -> PriceLevel]]
      /\ best \in [Sides -> Prices \cup {NoPrice}]
      /\ order_map \in [Ids -> [side : Sides, idx : Idx] \cup {NoLoc}]
  BY <1>2 DEF TypeOK
<1> HIDE DEF s, i, lv
<1>8. /\ levels' \in [Sides -> [Idx -> PriceLevel]]
      /\ levels'[s][i] = lv
      /\ \A j \in Idx : j # i => levels'[s][j] = levels[s][j]
      /\ \A t \in Sides : t # s => levels'[t] = levels[t]
  BY <1>1, <1>3, <1>4, <1>5, <1>7
<1>9. incoming.price \in Prices
  BY <1>4 DEF Prices
<1>10. /\ best' \in [Sides -> Prices \cup {NoPrice}]
       /\ \A t \in Sides : t # s => best'[t] = best[t]
       /\ best'[s] = IF best[s] < 0 \/ Better(s, incoming.price, best[s])
                     THEN incoming.price ELSE best[s]
  BY <1>1, <1>3, <1>7, <1>9
<1>11. TypeOK'
  <2>1. order_map' \in [Ids -> [side : Sides, idx : Idx] \cup {NoLoc}]
    BY <1>1, <1>3, <1>4, <1>7
  <2> QED
    BY <2>1, <1>1, <1>2, <1>8, <1>10, ReturnFacts DEF TypeOK
<1>12. IsBest(s, levels'[s], best'[s])
  <2>1. best[s] \in Int /\ (best[s] < 0 <=> best[s] = NoPrice)
    BY <1>3, BookType
  <2>2. \A j \in Idx : LevelPrice(j) \in Nat
    BY LevelPrices
  <2>3. CASE best[s] < 0
    <3>1. \A j \in Idx : IsEmpty(levels[s][j])
      BY <1>3, <1>6, <2>1, <2>2, <2>3 DEF IsBest
    <3>2. best'[s] = LevelPrice(i) /\ ~Better(s, LevelPrice(i), LevelPrice(i))
      BY <1>4, <1>10, <2>3 DEF Better
    <3> QED
      BY <3>1, <3>2, <1>4, <1>5, <1>8 DEF IsBest
  <2>4. CASE best[s] >= 0
    <3>1. PICK m \in Idx :
            /\ best[s] = LevelPrice(m) /\ ~IsEmpty(levels[s][m])
            /\ \A j \in Idx : Better(s, LevelPrice(j), best[s]) => IsEmpty(levels[s][j])
      BY <1>3, <1>6, <2>1, <2>4 DEF IsBest, NoPrice
    <3>2. CASE Better(s, incoming.price, best[s])
      <4>1. best'[s] = LevelPrice(i) /\ ~Better(s, LevelPrice(i), LevelPrice(i))
        BY <1>4, <1>10, <3>2 DEF Better
      <4>2. ASSUME NEW j \in Idx, Better(s, LevelPrice(j), LevelPrice(i))
            PROVE  IsEmpty(levels'[s][j])
        <5>1. j # i /\ Better(s, LevelPrice(j), best[s])
          BY <4>1, <4>2, <3>2, <2>1, <2>2, <1>4 DEF Better
        <5> QED
          BY <5>1, <3>1, <1>8
      <4> QED
        BY <4>1, <4>2, <1>4, <1>5, <1>8 DEF IsBest
    <3>3. CASE ~Better(s, incoming.price, best[s])
      <4>1. best'[s] = LevelPrice(m)
        BY <1>10, <2>1, <2>4, <3>1, <3>3
      <4>2. ~IsEmpty(levels'[s][m])
        BY <3>1, <1>5, <1>8
      <4>3. ASSUME NEW j \in Idx, Better(s, LevelPrice(j), LevelPrice(m))
            PROVE  IsEmpty(levels'[s][j])
        <5>1. j # i
          BY <4>3, <3>1, <3>3, <1>4
        <5> QED
          BY <5>1, <4>3, <3>1, <1>8
      <4> QED
        BY <4>1, <4>2, <4>3 DEF IsBest
    <3> QED
      BY <3>2, <3>3
  <2> QED
    BY <2>1, <2>3, <2>4
<1>13. BestIsExact'
  <2> SUFFICES ASSUME NEW t \in Sides PROVE IsBest(t, levels'[t], best'[t])
    BY DEF BestIsExact
  <2> QED
    BY <1>6, <1>8, <1>10, <1>12
<1>14. ASSUME NEW j \in Idx, ~IsEmpty(levels[Book][j])
       PROVE  Better(s, LevelPrice(j), LevelPrice(i))
  <2>1. best[Book] \in Int /\ (best[Book] < 0 <=> best[Book] = NoPrice)
    BY <1>3, BookType
  <2>2. \A l \in Idx : LevelPrice(l) \in Nat
    BY LevelPrices
  <2>3. best[Book] < 0 \/ Better(s, best[Book], incoming.price)
    BY <1>1, <1>3, <2>1 DEF Crosses, s, Book
  <2>4. best[Book] # NoPrice
    BY <1>3, <1>6, <1>14, <2>2 DEF IsBest, NoPrice
  <2>5. ~Better(Book, LevelPrice(j), best[Book])
    BY <1>3, <1>6, <1>14, <2>4 DEF IsBest
  <2>6. LevelPrice(j) \in Nat /\ LevelPrice(i) \in Nat
    BY <2>2, <1>4
  <2>7. (s = "Buy" /\ Book = "Sell") \/ (s = "Sell" /\ Book = "Buy")
    BY <1>3 DEF Sides
  <2> QED
    BY <2>1, <2>3, <2>4, <2>5, <2>6, <2>7, <1>4 DEF Better
<1>15. Uncrossed'
  <2> SUFFICES ASSUME NEW b \in Idx, NEW a \in Idx,
                      ~IsEmpty(levels'["Buy"][b]), ~IsEmpty(levels'["Sell"][a])
               PROVE  b < a
    BY DEF Uncrossed
  <2>1. a \in Nat /\ b \in Nat /\ i \in Nat
    BY <1>4, LevelsExist DEF Idx
  <2>2. \A j, l \in Idx : j < l => LevelPrice(j) < LevelPrice(l)
    BY LevelPrices
  <2>3. LevelPrice(a) \in Nat /\ LevelPrice(b) \in Nat
    BY LevelPrices
  <2>4. CASE s = "Buy" /\ Book = "Sell"
    <3>1. levels'["Sell"] = levels["Sell"]
      BY <1>8, <2>4 DEF Sides
    <3>2. CASE b = i
      <4>1. LevelPrice(a) > LevelPrice(b)
        BY <3>1, <3>2, <2>4, <1>14 DEF Better
      <4> QED
        BY <4>1, <2>1, <2>2, <2>3
    <3>3. CASE b # i
      BY <3>1, <3>3, <2>4, <1>2, <1>8 DEF Uncrossed
    <3> QED
      BY <3>2, <3>3
  <2>5. CASE s = "Sell" /\ Book = "Buy"
    <3>1. levels'["Buy"] = levels["Buy"]
      BY <1>8, <2>5 DEF Sides
    <3>2. CASE a = i
      <4>1. LevelPrice(b) < LevelPrice(a)
        BY <3>1, <3>2, <2>5, <1>14 DEF Better
      <4> QED
        BY <4>1, <2>1, <2>2, <2>3
    <3>3. CASE a # i
      BY <3>1, <3>3, <2>5, <1>2, <1>8 DEF Uncrossed
    <3> QED
      BY <3>2, <3>3
  <2> QED
    BY <2>4, <2>5, <1>3 DEF Sides
<1> QED
  BY <1>1, <1>11, <1>13, <1>15, ReturnFacts DEF IndInv

\* A cancel, also one made by a callback, keeps the best price exact and the
\* reference of the running match alive.
LEMMA CancelOrderInd ==
  ASSUME IndInv, NEW id \in Ids, CancelOrder(id)
  PROVE  IndInv'
<1> DEFINE s == order_map[id].side
           i == order_map[id].idx
<1>1. /\ MayCancel(id) /\ order_map[id] # NoLoc
      /\ order_map' = [order_map EXCEPT ![id] = NoLoc]
      /\ UNCHANGED <<phase, incoming, idx, resting, fill, next_id, ordered, reported>>
      /\ IF IsEmpty(levels'[s][i]) /\ LevelPrice(i) = best[s]
         THEN UpdateBestAfterEmpty(s, i) ELSE best' = best
  BY DEF CancelOrder, CancelEffect, callVars, histVars
<1>2. PICK k \in 1 .. Len(levels[s][i].orders) :
        /\ levels[s][i].orders[k].id = id
        /\ levels' = [levels EXCEPT ![s][i] = Erase(levels[s][i], k)]
  BY DEF CancelOrder, CancelEffect
<1>3. TypeOK /\ InCall /\ Callback /\ BestIsExact /\ Uncrossed
  BY DEF IndInv
<1>4. s \in Sides /\ i \in Idx
  <2>1. order_map[id] \in [side : Sides, idx : Idx]
    BY <1>1, <1>3 DEF TypeOK
  <2> QED
    BY <2>1
<1> HIDE DEF s, i
<1>5. levels[s][i] \in PriceLevel
  BY <1>4, BookType
<1>6. ~IsEmpty(levels[s][i])
  <2>1. levels[s][i].orders \in Seq(RestingOrder)
    BY <1>5 DEF PriceLevel
  <2>2. 1 .. Len(levels[s][i].orders) # {}
    BY <1>2
  <2> QED
    BY <2>1, <2>2 DEF IsEmpty
<1>7. /\ Erase(levels[s][i], k) \in PriceLevel
      /\ k # 1 => /\ ~IsEmpty(Erase(levels[s][i], k))
                  /\ Erase(levels[s][i], k).orders[1] = levels[s][i].orders[1]
  BY <1>5, EraseType
<1>8. levels \in [Sides -> [Idx -> PriceLevel]] /\ best \in [Sides -> Prices \cup {NoPrice}]
  BY <1>3 DEF TypeOK
<1>9. /\ levels' \in [Sides -> [Idx -> PriceLevel]]
      /\ levels'[s][i] = Erase(levels[s][i], k)
      /\ \A j \in Idx : j # i => levels'[s][j] = levels[s][j]
      /\ \A t \in Sides : t # s => levels'[t] = levels[t]
  BY <1>2, <1>4, <1>7, <1>8
<1>10. \A t \in Sides, j \in Idx : IsEmpty(levels[t][j]) => IsEmpty(levels'[t][j])
  BY <1>6, <1>9
<1>11. phase \in {"idle", "taker", "maker"}
  BY <1>1 DEF MayCancel
<1>12. \A t \in Sides : IsBest(t, levels[t], best[t])
  BY <1>3, <1>11 DEF BestIsExact
<1>13. \A j \in Idx : LevelPrice(j) \in Nat /\ LevelPrice(j) # NoPrice
  BY LevelPrices DEF NoPrice
<1>14. PICK m \in Idx :
         /\ best[s] = LevelPrice(m) /\ ~IsEmpty(levels[s][m])
         /\ \A j \in Idx : Better(s, LevelPrice(j), best[s]) => IsEmpty(levels[s][j])
  BY <1>4, <1>6, <1>12 DEF IsBest
<1>15. /\ best' \in [Sides -> Prices \cup {NoPrice}]
       /\ \A t \in Sides : t # s => best'[t] = best[t]
       /\ IsBest(s, levels'[s], best'[s])
  <2>1. CASE IsEmpty(levels'[s][i]) /\ LevelPrice(i) = best[s]
    <3>1. PICK p \in Prices \cup {NoPrice} :
            IsNextBest(s, levels'[s], i, p) /\ best' = [best EXCEPT ![s] = p]
      BY <1>1, <2>1 DEF UpdateBestAfterEmpty
    <3>2. \A j \in Idx : Better(s, LevelPrice(j), LevelPrice(i)) => IsEmpty(levels'[s][j])
      BY <1>4, <1>10, <1>14, <2>1
    <3>3. IsBest(s, levels'[s], p)
      BY <1>4, <2>1, <3>1, <3>2, NextBestIsBest
    <3> QED
      BY <1>4, <1>8, <3>1, <3>3
  <2>2. CASE ~(IsEmpty(levels'[s][i]) /\ LevelPrice(i) = best[s])
    <3>1. best' = best
      BY <1>1, <2>2
    <3>2. ~IsEmpty(levels'[s][m])
      BY <1>9, <1>14, <2>2
    <3>3. \A j \in Idx : Better(s, LevelPrice(j), best[s]) => IsEmpty(levels'[s][j])
      BY <1>4, <1>10, <1>14
    <3> QED
      BY <1>8, <1>14, <3>1, <3>2, <3>3 DEF IsBest
  <2> QED
    BY <2>1, <2>2
<1>16. TypeOK'
  <2>1. order_map' \in [Ids -> [side : Sides, idx : Idx] \cup {NoLoc}]
    BY <1>1, <1>3 DEF TypeOK
  <2> QED
    BY <2>1, <1>1, <1>3, <1>9, <1>15 DEF TypeOK
<1>17. BestIsExact'
  <2> SUFFICES ASSUME NEW t \in Sides PROVE IsBest(t, levels'[t], best'[t])
    BY DEF BestIsExact
  <2> QED
    BY <1>9, <1>12, <1>15
<1>18. Uncrossed'
  BY <1>3, <1>10 DEF Uncrossed, Sides
<1>19. Book' = Book
  BY <1>1 DEF Book
<1>20. ASSUME phase # "idle"
       PROVE  /\ Book \in Sides /\ idx \in Idx /\ id # resting
              /\ ~IsEmpty(levels'[Book][idx])
              /\ levels'[Book][idx].orders[1] = levels[Book][idx].orders[1]
  <2>1. Book \in Sides /\ idx \in Idx /\ id # resting
    BY <1>1, <1>3, <1>20, IncomingType DEF MayCancel, TypeOK
  <2>2. ~IsEmpty(levels[Book][idx]) /\ levels[Book][idx].orders[1].id = resting
    BY <1>3, <1>11, <1>20 DEF Callback, Level
  <2>3. CASE Book = s /\ idx = i
    <3>1. k # 1
      BY <1>2, <2>1, <2>2, <2>3
    <3> QED
      BY <3>1, <2>1, <2>3, <1>7, <1>9
  <2>4. CASE ~(Book = s /\ idx = i)
    BY <2>1, <2>2, <2>4, <1>9
  <2> QED
    BY <2>1, <2>3, <2>4
<1>21. InCall'
  <2>1. ASSUME phase # "idle" PROVE best'[Book] = best[Book]
    <3>1. best[Book] = LevelPrice(idx)
      BY <1>3, <1>11, <2>1 DEF InCall
    <3>2. CASE Book # s
      BY <3>2, <1>15, <1>20, <2>1
    <3>3. CASE Book = s
      <4>1. LevelPrice(i) = best[s] => i = idx
        BY <3>1, <3>3, <1>4, <1>20, <2>1, LevelPrices
      <4>2. best' = best
        BY <4>1, <3>3, <1>1, <1>20, <2>1
      <4> QED
        BY <4>2
    <3> QED
      BY <3>2, <3>3
  <2> QED
    BY <2>1, <1>1, <1>3, <1>10, <1>19, <1>20 DEF InCall
<1>22. Callback'
  <2>1. Level' = levels'[Book][idx]
    BY <1>1, <1>19 DEF Level
  <2> QED
    BY <2>1, <1>1, <1>3, <1>20 DEF Callback, Level
<1> QED
  BY <1>16, <1>17, <1>18, <1>21, <1>22 DEF IndInv

-----------------------------------------------------------------------------
\* Every step of add_order, its callbacks and cancel_order.
LEMMA StepInd == IndInv /\ [Next]_vars => IndInv'
<1> SUFFICES ASSUME IndInv, [Next]_vars PROVE IndInv'
  OBVIOUS
<1>1. ASSUME NEW r \in Requests, AddOrder(r) PROVE IndInv'
  BY <1>1, AddOrderInd
<1>2. ASSUME EnterLevel PROVE IndInv'
  BY <1>2, EnterLevelInd
<1>3. ASSUME ReportTaker PROVE IndInv'
  BY <1>3, ReportTakerInd
<1>4. ASSUME ReportMaker PROVE IndInv'
  BY <1>4, ReportMakerInd
<1>5. ASSUME Settle PROVE IndInv'
  BY <1>5, SettleInd
<1>6. ASSUME LeaveLevel PROVE IndInv'
  BY <1>6, LeaveLevelInd
<1>7. ASSUME Rest PROVE IndInv'
  BY <1>7, RestInd
<1>8. ASSUME Discard PROVE IndInv'
  BY <1>8, DiscardInd
<1>9. ASSUME NEW id \in Ids, CancelOrder(id) PROVE IndInv'
  BY <1>9, CancelOrderInd
<1>10. ASSUME UNCHANGED vars PROVE IndInv'
  <2>1. UNCHANGED <<levels, best, order_map, phase, incoming, idx, resting, fill,
                    next_id, ordered, reported>>
    BY <1>10 DEF vars, bookVars, callVars, histVars
  <2> QED
    BY <2>1 DEF IndInv, TypeOK, InCall, Callback, BestIsExact, Uncrossed, Level, Book
<1> QED
  BY <1>1, <1>2, <1>3, <1>4, <1>5, <1>6, <1>7, <1>8, <1>9, <1>10 DEF Next, Match

\* The inductive invariant holds in every reachable state.
THEOREM Inductive == Spec => []IndInv
<1>1. Init => IndInv
  BY InitInd
<1>2. IndInv /\ [Next]_vars => IndInv'
  BY StepInd
<1> QED
  BY <1>1, <1>2, PTL DEF Spec

\* Levels, best prices and the locals of match() keep their types.
THEOREM TypeCorrect == Spec => []TypeOK
<1>1. IndInv => TypeOK
  BY DEF IndInv
<1> QED
  BY <1>1, Inductive, PTL

\* best_bid_ and best_ask_ are exact whenever they can be read, inside the
\* callbacks of match() too (order_book.cpp:38, 45, 70, 74, 123, 151).
THEOREM BestPricesExact == Spec => []BestIsExact
<1>1. IndInv => BestIsExact
  BY DEF IndInv
<1> QED
  BY <1>1, Inductive, PTL

\* The book never holds a bid at or above an ask (order_book.cpp:99, 129).
THEOREM NeverCrossed == Spec => []Uncrossed
<1>1. IndInv => Uncrossed
  BY DEF IndInv
<1> QED
  BY <1>1, Inductive, PTL

\* The reference match() holds across its two callbacks stays bound to the
\* front of the level, if callbacks leave that one order alone
\* (order_book.cpp:104-120).
THEOREM ReferenceStaysGood == Spec => []CallbackSeesRestingOrder
<1>1. IndInv => CallbackSeesRestingOrder
  <2> SUFFICES ASSUME IndInv, phase \in {"taker", "maker"}
               PROVE  /\ ~IsEmpty(Level) /\ Level.orders[1].id = resting
                      /\ fill.price = LevelPrice(idx)
                      /\ fill.qty \in 1 .. Min({incoming.qty, Level.orders[1].qty})
    BY DEF CallbackSeesRestingOrder
  <2>1. /\ ~IsEmpty(Level) /\ Level.orders[1].id = resting
        /\ fill.price = LevelPrice(idx) /\ fill.qty \in 1 .. incoming.qty
        /\ fill.qty <= Level.orders[1].qty
    BY DEF IndInv, Callback
  <2>2. incoming.qty \in Nat /\ Book \in Sides /\ idx \in Idx
    BY IncomingType DEF IndInv, TypeOK
  <2>3. Level \in PriceLevel
    BY <2>2, BookType DEF Level
  <2>4. Level.orders[1].qty \in Nat
    <3>1. Level.orders \in Seq(RestingOrder) /\ Level.orders # << >>
      BY <2>1, <2>3 DEF PriceLevel, IsEmpty
    <3>2. Level.orders[1] \in RestingOrder
      BY <3>1
    <3> QED
      BY <3>2 DEF RestingOrder
  <2> QED
    BY <2>1, <2>2, <2>4, MinPair
<1> QED
  BY <1>1, Inductive, PTL

-----------------------------------------------------------------------------
(* What the queues hold                                                    *)

Queue(s, i) == levels[s][i].orders

-----------------------------------------------------------------------------
(* Queues                                                                  *)

\* The orders of a level are a sequence of resting orders.
LEMMA QueueType ==
  ASSUME IndInv, NEW s \in Sides, NEW i \in Idx
  PROVE  /\ levels[s][i] \in PriceLevel
         /\ Queue(s, i) \in Seq(RestingOrder)
         /\ Len(Queue(s, i)) \in Nat /\ DOMAIN Queue(s, i) = 1 .. Len(Queue(s, i))
         /\ \A k \in DOMAIN Queue(s, i) :
              Queue(s, i)[k].id \in Ids /\ Queue(s, i)[k].qty \in Nat \ {0}
<1>1. levels[s][i] \in PriceLevel
  BY BookType
<1>2. Queue(s, i) \in Seq(RestingOrder)
  BY <1>1 DEF PriceLevel, Queue
<1>3. \A k \in DOMAIN Queue(s, i) : Queue(s, i)[k] \in RestingOrder
  BY <1>2
<1> QED
  BY <1>1, <1>2, <1>3 DEF RestingOrder

\* erase(it): the orders behind the erased one move up.
LEMMA EraseOrders ==
  ASSUME NEW level \in PriceLevel, NEW k \in 1 .. Len(level.orders)
  PROVE  LET o == level.orders
             e == Erase(level, k).orders
         IN  /\ e \in Seq(RestingOrder) /\ Len(e) = Len(o) - 1
             /\ \A j \in 1 .. Len(o) - 1 : e[j] = o[IF j < k THEN j ELSE j + 1]
<1> DEFINE o == level.orders
           n == Len(o)
           u == SubSeq(o, 1, k-1)
           v == SubSeq(o, k+1, n)
<1>1. o \in Seq(RestingOrder) /\ n \in Nat
  BY DEF PriceLevel
<1>2. /\ u \in Seq(RestingOrder) /\ Len(u) = k-1
      /\ \A j \in 1 .. k-1 : u[j] = o[j]
  BY <1>1
<1>3. /\ v \in Seq(RestingOrder) /\ Len(v) = n-k
      /\ \A j \in 1 .. n-k : v[j] = o[k+j]
  BY <1>1
<1>4. Erase(level, k).orders = u \o v
  BY DEF Erase, RemoveAt
<1> HIDE DEF u, v
<1>5. u \o v \in Seq(RestingOrder) /\ Len(u \o v) = n - 1
  <2>1. u \in Seq(RestingOrder) /\ v \in Seq(RestingOrder)
    BY <1>2, <1>3
  <2>2. u \o v \in Seq(RestingOrder) /\ Len(u \o v) = Len(u) + Len(v)
    BY <2>1
  <2> QED
    BY <2>2, <1>1, <1>2, <1>3
<1>6. ASSUME NEW j \in 1 .. n-1
      PROVE  (u \o v)[j] = o[IF j < k THEN j ELSE j + 1]
  <2>1. CASE j < k
    BY <2>1, <1>1, <1>2, <1>3
  <2>2. CASE ~(j < k)
    <3>1. (u \o v)[j] = v[j - (k-1)]
      BY <2>2, <1>1, <1>2, <1>3
    <3>2. j - (k-1) \in 1 .. n-k /\ k + (j - (k-1)) = j + 1
      BY <2>2, <1>1
    <3> QED
      BY <3>1, <3>2, <2>2, <1>3
  <2> QED
    BY <2>1, <2>2
<1> QED
  BY <1>4, <1>5, <1>6

\* A partial fill changes the quantity of the front and nothing else.
LEMMA ReduceOrders ==
  ASSUME NEW level \in PriceLevel, ~IsEmpty(level), NEW filled \in Nat
  PROVE  LET o == level.orders
             w == ReduceFront(level, filled).orders
         IN  /\ DOMAIN w = DOMAIN o /\ 1 \in DOMAIN o
             /\ \A j \in DOMAIN o : w[j].id = o[j].id
             /\ \A j \in DOMAIN o : w[j].qty = IF j = 1 THEN o[j].qty - filled ELSE o[j].qty
             /\ \A j \in DOMAIN o : j # 1 => w[j] = o[j]
<1> DEFINE o == level.orders
           w == [o EXCEPT ![1].qty = @ - filled]
<1>1. o \in Seq(RestingOrder) /\ o # << >>
  BY DEF PriceLevel, IsEmpty
<1>2. 1 \in DOMAIN o
  BY <1>1
<1>3. \A j \in DOMAIN o : o[j] \in RestingOrder
  BY <1>1
<1>4. ReduceFront(level, filled).orders = w
  BY DEF ReduceFront
<1>5. w = [o EXCEPT ![1] = [o[1] EXCEPT !.qty = @ - filled]]
  OBVIOUS
<1>6. /\ [o[1] EXCEPT !.qty = @ - filled].id = o[1].id
      /\ [o[1] EXCEPT !.qty = @ - filled].qty = o[1].qty - filled
  BY <1>2, <1>3 DEF RestingOrder
<1> HIDE DEF o, w
<1>7. DOMAIN w = DOMAIN o /\ \A j \in DOMAIN o : j # 1 => w[j] = o[j]
  BY <1>5
<1>8. w[1].id = o[1].id /\ w[1].qty = o[1].qty - filled
  BY <1>2, <1>5, <1>6
<1> QED
  BY <1>2, <1>4, <1>7, <1>8 DEF o

\* push_back(order).
LEMMA EnqueueOrders ==
  ASSUME NEW level \in PriceLevel, NEW id, NEW qty
  PROVE  LET o == level.orders
             e == Enqueue(level, id, qty).orders
         IN  /\ DOMAIN e = 1 .. Len(o) + 1 /\ Len(o) \in Nat
             /\ e[Len(o) + 1] = [id |-> id, qty |-> qty]
             /\ \A j \in DOMAIN o : e[j] = o[j]
<1>1. level.orders \in Seq(RestingOrder)
  BY DEF PriceLevel
<1>2. Enqueue(level, id, qty).orders = Append(level.orders, [id |-> id, qty |-> qty])
  BY DEF Enqueue
<1> QED
  BY <1>1, <1>2

-----------------------------------------------------------------------------
(* The inductive invariant                                                 *)

\* Ids ascend from the front of a queue to its back: the front is the oldest.
Ascending ==
  \A s \in Sides, i \in Idx : \A k, l \in DOMAIN Queue(s, i) :
    k < l => Queue(s, i)[k].id < Queue(s, i)[l].id

\* The map locates every order that is in a queue ...
Located ==
  \A s \in Sides, i \in Idx : \A k \in DOMAIN Queue(s, i) :
    order_map[Queue(s, i)[k].id] = [side |-> s, idx |-> i]

\* ... and nothing else.
Found ==
  \A id \in Ids, s \in Sides, i \in Idx : order_map[id] = [side |-> s, idx |-> i] =>
    \E k \in DOMAIN Queue(s, i) : Queue(s, i)[k].id = id

Queued == Ascending /\ Located /\ Found

\* Ids are fresh; the order in hand has the last one and does not rest yet.
Numbered ==
  /\ \A id \in Ids : id >= next_id => order_map[id] = NoLoc /\ reported[id] = 0
  /\ phase # "idle" => incoming.id = next_id - 1 /\ order_map[incoming.id] = NoLoc

\* The order in hand reaches the level being matched, and trades all it can.
Trading ==
  /\ phase \in {"level", "taker", "maker"} =>
       ~Better(incoming.side, LevelPrice(idx), incoming.price)
  /\ phase \in {"taker", "maker"} => fill.qty \in {incoming.qty, Level.orders[1].qty}

QueueInv == IndInv /\ Queued /\ Numbered /\ Trading /\ QuantityAccounted

\* A location of the book is not the mark of an id that is not in the map.
LEMMA LocationKnown == \A s \in Sides, i \in Idx : [side |-> s, idx |-> i] # NoLoc
<1> SUFFICES ASSUME NEW s \in Sides, NEW i \in Idx, [side |-> s, idx |-> i] = NoLoc
             PROVE  FALSE
  OBVIOUS
<1>1. [side |-> s, idx |-> i].side = NoLoc.side
  OBVIOUS
<1> QED
  BY <1>1 DEF NoLoc, Sides

\* An id is in one place of one queue.
LEMMA OnePlace ==
  ASSUME IndInv, Queued,
         NEW s \in Sides, NEW i \in Idx, NEW k \in DOMAIN Queue(s, i),
         NEW t \in Sides, NEW j \in Idx, NEW l \in DOMAIN Queue(t, j),
         Queue(s, i)[k].id = Queue(t, j)[l].id
  PROVE  s = t /\ i = j /\ k = l
<1>1. [side |-> s, idx |-> i] = [side |-> t, idx |-> j]
  BY DEF Queued, Located
<1>2. s = t /\ i = j
  BY <1>1
<1>3. k \in Int /\ l \in Int /\ \A m \in DOMAIN Queue(s, i) : Queue(s, i)[m].id \in Int
  BY <1>2, QueueType DEF Ids
<1>4. ~(k < l) /\ ~(l < k)
  BY <1>2, <1>3 DEF Queued, Ascending
<1> QED
  BY <1>2, <1>3, <1>4

\* The k-th order of a level leaves its queue.
TakesOut(s, i, k) == levels' = [levels EXCEPT ![s][i] = Erase(levels[s][i], k)]

\* The queues after an order has been taken out of one of them.
LEMMA RemoveFacts ==
  ASSUME IndInv, NEW s \in Sides, NEW i \in Idx, NEW k \in DOMAIN Queue(s, i),
         TakesOut(s, i, k)
  PROVE  /\ DOMAIN Queue(s, i)' = 1 .. Len(Queue(s, i)) - 1
         /\ \A j \in DOMAIN Queue(s, i)' :
              Queue(s, i)'[j] = Queue(s, i)[IF j < k THEN j ELSE j + 1]
         /\ \A t \in Sides, j \in Idx : ~(t = s /\ j = i) => Queue(t, j)' = Queue(t, j)
<1>1. levels[s][i] \in PriceLevel /\ k \in 1 .. Len(levels[s][i].orders)
  BY QueueType DEF Queue
<1>2. levels \in [Sides -> [Idx -> PriceLevel]]
  BY DEF IndInv, TypeOK
<1>3. /\ levels'[s][i] = Erase(levels[s][i], k)
      /\ \A t \in Sides, j \in Idx : ~(t = s /\ j = i) => levels'[t][j] = levels[t][j]
  BY <1>2 DEF TakesOut
<1>4. /\ Erase(levels[s][i], k).orders \in Seq(RestingOrder)
      /\ Len(Erase(levels[s][i], k).orders) = Len(Queue(s, i)) - 1
      /\ \A j \in 1 .. Len(Queue(s, i)) - 1 :
           Erase(levels[s][i], k).orders[j] = Queue(s, i)[IF j < k THEN j ELSE j + 1]
  BY <1>1, EraseOrders DEF Queue
<1>5. DOMAIN Queue(s, i)' = 1 .. Len(Queue(s, i)) - 1
  BY <1>3, <1>4 DEF Queue
<1> QED
  BY <1>3, <1>4, <1>5 DEF Queue

\* The same, told order by order: what is left was there and is not the order
\* taken out, and what was there and is not that order is left.
LEMMA RemoveElements ==
  ASSUME IndInv, NEW s \in Sides, NEW i \in Idx, NEW k \in DOMAIN Queue(s, i),
         TakesOut(s, i, k),
         NEW t \in Sides, NEW j \in Idx
  PROVE  /\ \A l \in DOMAIN Queue(t, j)' : \E m \in DOMAIN Queue(t, j) :
              Queue(t, j)'[l] = Queue(t, j)[m] /\ ~(t = s /\ j = i /\ m = k)
         /\ \A m \in DOMAIN Queue(t, j) : ~(t = s /\ j = i /\ m = k) =>
              \E l \in DOMAIN Queue(t, j)' : Queue(t, j)'[l] = Queue(t, j)[m]
<1> DEFINE n == Len(Queue(s, i))
<1>1. n \in Nat /\ DOMAIN Queue(s, i) = 1 .. n /\ k \in 1 .. n
  BY QueueType
<1>2. CASE ~(t = s /\ j = i)
  <2>1. Queue(t, j)' = Queue(t, j)
    BY <1>2, RemoveFacts DEF Queue
  <2> QED
    BY <1>2, <2>1
<1>3. CASE t = s /\ j = i
  <2>1. /\ DOMAIN Queue(s, i)' = 1 .. n - 1
        /\ \A l \in 1 .. n - 1 :
             Queue(s, i)'[l] = Queue(s, i)[IF l < k THEN l ELSE l + 1]
    BY RemoveFacts DEF Queue
  <2> HIDE DEF n
  <2>2. ASSUME NEW l \in 1 .. n - 1
        PROVE  \E m \in DOMAIN Queue(s, i) : Queue(s, i)'[l] = Queue(s, i)[m] /\ m # k
    <3> DEFINE m == IF l < k THEN l ELSE l + 1
    <3>1. m \in 1 .. n /\ m # k
      BY <1>1
    <3>2. Queue(s, i)'[l] = Queue(s, i)[m]
      BY <2>1
    <3> HIDE DEF m
    <3> QED
      BY <1>1, <3>1, <3>2
  <2>3. ASSUME NEW m \in 1 .. n, m # k
        PROVE  \E l \in 1 .. n - 1 : Queue(s, i)'[l] = Queue(s, i)[m]
    <3> DEFINE l == IF m < k THEN m ELSE m - 1
    <3>1. l \in 1 .. n - 1 /\ (IF l < k THEN l ELSE l + 1) = m
      BY <1>1, <2>3
    <3> HIDE DEF l
    <3>2. Queue(s, i)'[l] = Queue(s, i)[m]
      BY <2>1, <3>1
    <3> QED
      BY <3>1, <3>2
  <2> QED
    BY <1>1, <1>3, <2>1, <2>2, <2>3
<1> QED
  BY <1>2, <1>3

\* Taking an order out of its queue and out of the map keeps both in step.
LEMMA RemoveQueued ==
  ASSUME IndInv, Queued, NEW s \in Sides, NEW i \in Idx, NEW k \in DOMAIN Queue(s, i),
         TakesOut(s, i, k),
         order_map' = [order_map EXCEPT ![Queue(s, i)[k].id] = NoLoc]
  PROVE  Queued'
<1> DEFINE x == Queue(s, i)[k].id
           n == Len(Queue(s, i))
<1>1. n \in Nat /\ DOMAIN Queue(s, i) = 1 .. n /\ k \in 1 .. n /\ x \in Ids
  BY QueueType
<1>2. /\ order_map'[x] = NoLoc
      /\ \A id \in Ids : id # x => order_map'[id] = order_map[id]
  BY <1>1 DEF IndInv, TypeOK
<1> HIDE DEF x
<1>3. Ascending'
  <2> SUFFICES ASSUME NEW t \in Sides, NEW j \in Idx,
                      NEW a \in DOMAIN Queue(t, j)', NEW b \in DOMAIN Queue(t, j)', a < b
               PROVE  Queue(t, j)'[a].id < Queue(t, j)'[b].id
    BY DEF Ascending
  <2>1. CASE ~(t = s /\ j = i)
    <3>1. Queue(t, j)' = Queue(t, j)
      BY <2>1, RemoveFacts DEF Queue
    <3> QED
      BY <3>1 DEF Queued, Ascending
  <2>2. CASE t = s /\ j = i
    <3>1. /\ DOMAIN Queue(s, i)' = 1 .. n - 1
          /\ \A l \in 1 .. n - 1 :
               Queue(s, i)'[l] = Queue(s, i)[IF l < k THEN l ELSE l + 1]
      BY RemoveFacts DEF Queue
    <3> HIDE DEF n
    <3> DEFINE c == IF a < k THEN a ELSE a + 1
               d == IF b < k THEN b ELSE b + 1
    <3>2. a \in 1 .. n - 1 /\ b \in 1 .. n - 1
      BY <2>2, <3>1
    <3>3. c \in 1 .. n /\ d \in 1 .. n /\ c < d
      BY <1>1, <3>2
    <3>4. Queue(s, i)'[a] = Queue(s, i)[c] /\ Queue(s, i)'[b] = Queue(s, i)[d]
      BY <3>1, <3>2
    <3> HIDE DEF c, d
    <3> QED
      BY <1>1, <2>2, <3>3, <3>4 DEF Queued, Ascending
  <2> QED
    BY <2>1, <2>2
<1>4. Located'
  <2> SUFFICES ASSUME NEW t \in Sides, NEW j \in Idx, NEW l \in DOMAIN Queue(t, j)'
               PROVE  order_map'[Queue(t, j)'[l].id] = [side |-> t, idx |-> j]
    BY DEF Located
  <2>1. PICK m \in DOMAIN Queue(t, j) :
          Queue(t, j)'[l] = Queue(t, j)[m] /\ ~(t = s /\ j = i /\ m = k)
    BY RemoveElements DEF Queue
  <2>2. Queue(t, j)[m].id # x
    BY <2>1, OnePlace DEF x
  <2>3. Queue(t, j)[m].id \in Ids
    BY QueueType
  <2> QED
    BY <1>2, <2>1, <2>2, <2>3 DEF Queued, Located
<1>5. Found'
  <2> SUFFICES ASSUME NEW id \in Ids, NEW t \in Sides, NEW j \in Idx,
                      order_map'[id] = [side |-> t, idx |-> j]
               PROVE  \E l \in DOMAIN Queue(t, j)' : Queue(t, j)'[l].id = id
    BY DEF Found
  <2>1. id # x
    BY <1>2 DEF NoLoc, Sides
  <2>2. PICK m \in DOMAIN Queue(t, j) : Queue(t, j)[m].id = id
    BY <1>2, <2>1 DEF Queued, Found
  <2>3. ~(t = s /\ j = i /\ m = k)
    BY <2>1, <2>2 DEF x
  <2>4. PICK l \in DOMAIN Queue(t, j)' : Queue(t, j)'[l] = Queue(t, j)[m]
    BY <2>3, RemoveElements DEF Queue
  <2> QED
    BY <2>2, <2>4
<1> QED
  BY <1>3, <1>4, <1>5 DEF Queued

\* The front of a level shrinks.
Reduces(s, i, filled) ==
  levels' = [levels EXCEPT ![s][i] = ReduceFront(levels[s][i], filled)]

\* The queues after a partial fill: places and ids stay.
LEMMA ReduceFacts ==
  ASSUME IndInv, NEW s \in Sides, NEW i \in Idx, NEW filled \in Nat,
         ~IsEmpty(levels[s][i]), Reduces(s, i, filled),
         NEW t \in Sides, NEW j \in Idx
  PROVE  /\ DOMAIN Queue(t, j)' = DOMAIN Queue(t, j) /\ 1 \in DOMAIN Queue(s, i)
         /\ \A l \in DOMAIN Queue(t, j) :
              /\ Queue(t, j)'[l].id = Queue(t, j)[l].id
              /\ t = s /\ j = i /\ l = 1 => Queue(t, j)'[l].qty = Queue(t, j)[l].qty - filled
              /\ ~(t = s /\ j = i /\ l = 1) => Queue(t, j)'[l] = Queue(t, j)[l]
<1>1. levels[s][i] \in PriceLevel
  BY QueueType
<1>2. levels \in [Sides -> [Idx -> PriceLevel]]
  BY DEF IndInv, TypeOK
<1>3. /\ levels'[s][i] = ReduceFront(levels[s][i], filled)
      /\ ~(t = s /\ j = i) => levels'[t][j] = levels[t][j]
  BY <1>2 DEF Reduces
<1>4. LET o == Queue(s, i)
          w == ReduceFront(levels[s][i], filled).orders
      IN  /\ DOMAIN w = DOMAIN o /\ 1 \in DOMAIN o
          /\ \A l \in DOMAIN o : w[l].id = o[l].id
          /\ \A l \in DOMAIN o : w[l].qty = IF l = 1 THEN o[l].qty - filled ELSE o[l].qty
          /\ \A l \in DOMAIN o : l # 1 => w[l] = o[l]
  BY <1>1, ReduceOrders DEF Queue
<1>5. CASE ~(t = s /\ j = i)
  BY <1>3, <1>4, <1>5 DEF Queue
<1>6. CASE t = s /\ j = i
  BY <1>3, <1>4, <1>6 DEF Queue
<1> QED
  BY <1>5, <1>6

\* Queues whose places and ids stay remain in step with the map.
LEMMA SameIdsQueued ==
  ASSUME Queued, order_map' = order_map,
         \A t \in Sides, j \in Idx :
           /\ DOMAIN Queue(t, j)' = DOMAIN Queue(t, j)
           /\ \A l \in DOMAIN Queue(t, j) : Queue(t, j)'[l].id = Queue(t, j)[l].id
  PROVE  Queued'
<1>1. Ascending'
  BY DEF Queued, Ascending, Queue
<1>2. Located'
  <2> SUFFICES ASSUME NEW t \in Sides, NEW j \in Idx, NEW l \in DOMAIN Queue(t, j)'
               PROVE  order_map'[Queue(t, j)'[l].id] = [side |-> t, idx |-> j]
    BY DEF Located
  <2>1. l \in DOMAIN Queue(t, j) /\ Queue(t, j)'[l].id = Queue(t, j)[l].id
    OBVIOUS
  <2> QED
    BY <2>1 DEF Queued, Located
<1>3. Found'
  BY DEF Queued, Found, Queue
<1> QED
  BY <1>1, <1>2, <1>3 DEF Queued

\* An order joins the back of a level.
Joins(s, i, id, qty) ==
  levels' = [levels EXCEPT ![s][i] = Enqueue(levels[s][i], id, qty)]

\* The queues after an order has joined one of them.
LEMMA JoinFacts ==
  ASSUME IndInv, NEW s \in Sides, NEW i \in Idx, NEW id, NEW qty, Joins(s, i, id, qty)
  PROVE  /\ DOMAIN Queue(s, i)' = 1 .. Len(Queue(s, i)) + 1
         /\ Queue(s, i)'[Len(Queue(s, i)) + 1] = [id |-> id, qty |-> qty]
         /\ \A l \in DOMAIN Queue(s, i) : Queue(s, i)'[l] = Queue(s, i)[l]
         /\ \A t \in Sides, j \in Idx : ~(t = s /\ j = i) => Queue(t, j)' = Queue(t, j)
<1>1. levels[s][i] \in PriceLevel
  BY QueueType
<1>2. levels \in [Sides -> [Idx -> PriceLevel]]
  BY DEF IndInv, TypeOK
<1>3. /\ levels'[s][i] = Enqueue(levels[s][i], id, qty)
      /\ \A t \in Sides, j \in Idx : ~(t = s /\ j = i) => levels'[t][j] = levels[t][j]
  BY <1>2 DEF Joins
<1>4. LET o == Queue(s, i)
          e == Enqueue(levels[s][i], id, qty).orders
      IN  /\ DOMAIN e = 1 .. Len(o) + 1
          /\ e[Len(o) + 1] = [id |-> id, qty |-> qty]
          /\ \A j \in DOMAIN o : e[j] = o[j]
  BY <1>1, EnqueueOrders DEF Queue
<1> QED
  BY <1>3, <1>4 DEF Queue

\* The same, order by order.
LEMMA JoinElements ==
  ASSUME IndInv, NEW s \in Sides, NEW i \in Idx, NEW id, NEW qty, Joins(s, i, id, qty),
         NEW t \in Sides, NEW j \in Idx
  PROVE  /\ \A l \in DOMAIN Queue(t, j)' :
              \/ l \in DOMAIN Queue(t, j) /\ Queue(t, j)'[l] = Queue(t, j)[l]
              \/ /\ t = s /\ j = i /\ Queue(t, j)'[l] = [id |-> id, qty |-> qty]
                 /\ l \in Int /\ \A m \in DOMAIN Queue(t, j) : m < l
         /\ \A l \in DOMAIN Queue(t, j) :
              l \in DOMAIN Queue(t, j)' /\ Queue(t, j)'[l] = Queue(t, j)[l]
         /\ \E l \in DOMAIN Queue(s, i)' : Queue(s, i)'[l] = [id |-> id, qty |-> qty]
<1> DEFINE n == Len(Queue(s, i))
<1>1. n \in Nat /\ DOMAIN Queue(s, i) = 1 .. n
  BY QueueType
<1>2. /\ DOMAIN Queue(s, i)' = 1 .. n + 1
      /\ Queue(s, i)'[n + 1] = [id |-> id, qty |-> qty]
      /\ \A l \in DOMAIN Queue(s, i) : Queue(s, i)'[l] = Queue(s, i)[l]
  BY JoinFacts DEF Queue
<1> HIDE DEF n
<1>3. n + 1 \in DOMAIN Queue(s, i)'
  BY <1>1, <1>2
<1>4. CASE ~(t = s /\ j = i)
  <2>1. Queue(t, j)' = Queue(t, j)
    BY <1>4, JoinFacts DEF Queue
  <2> QED
    BY <2>1, <1>2, <1>3
<1>5. CASE t = s /\ j = i
  <2>1. ASSUME NEW l \in 1 .. n + 1
        PROVE  l \in 1 .. n \/ (l = n + 1 /\ l \in Int /\ \A m \in 1 .. n : m < l)
    BY <1>1
  <2>2. 1 .. n \subseteq 1 .. n + 1
    BY <1>1
  <2> QED
    BY <1>1, <1>2, <1>3, <1>5, <2>1, <2>2
<1> QED
  BY <1>4, <1>5

\* An id that is not in the map and is younger than those that rest.
LEMMA JoinQueued ==
  ASSUME IndInv, Queued, NEW s \in Sides, NEW i \in Idx, NEW id \in Ids, NEW qty,
         Joins(s, i, id, qty), order_map[id] = NoLoc,
         \A k \in DOMAIN Queue(s, i) : Queue(s, i)[k].id < id,
         order_map' = [order_map EXCEPT ![id] = [side |-> s, idx |-> i]]
  PROVE  Queued'
<1> DEFINE new == [id |-> id, qty |-> qty]
<1>1. /\ order_map'[id] = [side |-> s, idx |-> i]
      /\ \A x \in Ids : x # id => order_map'[x] = order_map[x]
  BY DEF IndInv, TypeOK
<1>2. \A t \in Sides, j \in Idx : \A l \in DOMAIN Queue(t, j)' :
        \/ l \in DOMAIN Queue(t, j) /\ Queue(t, j)'[l] = Queue(t, j)[l]
        \/ /\ t = s /\ j = i /\ Queue(t, j)'[l] = new
           /\ l \in Int /\ \A m \in DOMAIN Queue(t, j) : m < l
  BY JoinElements DEF Queue
<1>3. \A t \in Sides, j \in Idx : \A l \in DOMAIN Queue(t, j) :
        l \in DOMAIN Queue(t, j)' /\ Queue(t, j)'[l] = Queue(t, j)[l]
  <2> SUFFICES ASSUME NEW t \in Sides, NEW j \in Idx
               PROVE  \A l \in DOMAIN Queue(t, j) :
                        l \in DOMAIN Queue(t, j)' /\ Queue(t, j)'[l] = Queue(t, j)[l]
    OBVIOUS
  <2> QED
    BY JoinElements
<1>4. new.id = id
  OBVIOUS
<1> HIDE DEF new
<1>5. \A t \in Sides, j \in Idx : \A l \in DOMAIN Queue(t, j) :
        Queue(t, j)[l].id \in Ids /\ Queue(t, j)[l].id # id /\ l \in Int
  <2> SUFFICES ASSUME NEW t \in Sides, NEW j \in Idx, NEW l \in DOMAIN Queue(t, j)
               PROVE  Queue(t, j)[l].id \in Ids /\ Queue(t, j)[l].id # id /\ l \in Int
    OBVIOUS
  <2>1. Queue(t, j)[l].id \in Ids /\ l \in Int
    BY QueueType
  <2>2. order_map[Queue(t, j)[l].id] # NoLoc
    BY LocationKnown DEF Queued, Located
  <2> QED
    BY <2>1, <2>2
<1>6. Ascending'
  <2> SUFFICES ASSUME NEW t \in Sides, NEW j \in Idx,
                      NEW a \in DOMAIN Queue(t, j)', NEW b \in DOMAIN Queue(t, j)', a < b
               PROVE  Queue(t, j)'[a].id < Queue(t, j)'[b].id
    BY DEF Ascending
  <2>1. CASE a \in DOMAIN Queue(t, j) /\ b \in DOMAIN Queue(t, j)
    <3>1. Queue(t, j)'[a] = Queue(t, j)[a] /\ Queue(t, j)'[b] = Queue(t, j)[b]
      BY <2>1, <1>3
    <3> QED
      BY <2>1, <3>1 DEF Queued, Ascending
  <2>2. CASE a \in DOMAIN Queue(t, j) /\ b \notin DOMAIN Queue(t, j)
    <3>1. Queue(t, j)'[a] = Queue(t, j)[a]
      BY <2>2, <1>3
    <3>2. t = s /\ j = i /\ Queue(t, j)'[b] = new
      BY <2>2, <1>2
    <3> QED
      BY <2>2, <3>1, <3>2, <1>4
  <2>3. CASE a \notin DOMAIN Queue(t, j)
    <3>1. a \in Int /\ \A m \in DOMAIN Queue(t, j) : m < a
      BY <2>3, <1>2
    <3>2. b \notin DOMAIN Queue(t, j)
      BY <3>1, <1>5
    <3>3. a = Len(Queue(s, i)) + 1 /\ b = Len(Queue(s, i)) + 1
      <4>1. t = s /\ j = i
        BY <2>3, <1>2
      <4>2. DOMAIN Queue(s, i)' = 1 .. Len(Queue(s, i)) + 1
        BY JoinFacts DEF Queue
      <4>3. DOMAIN Queue(s, i) = 1 .. Len(Queue(s, i)) /\ Len(Queue(s, i)) \in Nat
        BY QueueType
      <4> QED
        BY <2>3, <3>2, <4>1, <4>2, <4>3
    <3> QED
      BY <3>3, <3>1
  <2> QED
    BY <2>1, <2>2, <2>3
<1>7. Located'
  <2> SUFFICES ASSUME NEW t \in Sides, NEW j \in Idx, NEW l \in DOMAIN Queue(t, j)'
               PROVE  order_map'[Queue(t, j)'[l].id] = [side |-> t, idx |-> j]
    BY DEF Located
  <2>1. CASE l \in DOMAIN Queue(t, j) /\ Queue(t, j)'[l] = Queue(t, j)[l]
    BY <2>1, <1>1, <1>5 DEF Queued, Located
  <2>2. CASE t = s /\ j = i /\ Queue(t, j)'[l] = new
    BY <2>2, <1>1, <1>4
  <2> QED
    BY <2>1, <2>2, <1>2
<1>8. Found'
  <2> SUFFICES ASSUME NEW x \in Ids, NEW t \in Sides, NEW j \in Idx,
                      order_map'[x] = [side |-> t, idx |-> j]
               PROVE  \E l \in DOMAIN Queue(t, j)' : Queue(t, j)'[l].id = x
    BY DEF Found
  <2>1. CASE x = id
    <3>1. t = s /\ j = i
      BY <1>1, <2>1
    <3>2. \E l \in DOMAIN Queue(s, i)' : Queue(s, i)'[l] = new
      BY JoinElements DEF Queue, new
    <3> QED
      BY <3>1, <3>2, <2>1, <1>4
  <2>2. CASE x # id
    <3>1. PICK l \in DOMAIN Queue(t, j) : Queue(t, j)[l].id = x
      BY <1>1, <2>2 DEF Queued, Found
    <3> QED
      BY <3>1, <1>3
  <2> QED
    BY <2>1, <2>2
<1> QED
  BY <1>6, <1>7, <1>8 DEF Queued

-----------------------------------------------------------------------------
(* The steps                                                               *)

\* An order that rests is older than the next one and is not the one in hand.
LEMMA RestingIsOlder ==
  ASSUME QueueInv, NEW s \in Sides, NEW i \in Idx, NEW k \in DOMAIN Queue(s, i)
  PROVE  /\ Queue(s, i)[k].id \in Ids /\ Queue(s, i)[k].id < next_id
         /\ phase # "idle" => Queue(s, i)[k].id < incoming.id
<1>1. /\ IndInv /\ Queued /\ Numbered
      /\ Queue(s, i)[k].id \in Ids /\ next_id \in Int
  BY QueueType DEF QueueInv, IndInv, TypeOK
<1>2. order_map[Queue(s, i)[k].id] # NoLoc
  <2>1. order_map[Queue(s, i)[k].id] = [side |-> s, idx |-> i]
    BY <1>1 DEF Queued, Located
  <2> QED
    BY <2>1, LocationKnown
<1>3. Queue(s, i)[k].id < next_id
  BY <1>1, <1>2 DEF Numbered, Ids
<1> QED
  BY <1>1, <1>2, <1>3 DEF Numbered, Ids

\* The accounts, one order at a time.
Accounted(o) == o.qty + reported[o.id] - Unsettled(o.id) = ordered[o.id]

\* QuantityAccounted, one order at a time.
LEMMA Accounts ==
  QuantityAccounted <=>
    /\ \A s \in Sides, i \in Idx : \A k \in DOMAIN Queue(s, i) : Accounted(Queue(s, i)[k])
    /\ incoming # NoOrder => Accounted(incoming)
    /\ \A id \in Ids : reported[id] <= ordered[id]
BY DEF QuantityAccounted, Accounted, Queue

\* The empty book.
LEMMA InitQueue == Init => QueueInv
<1> SUFFICES ASSUME Init PROVE QueueInv
  OBVIOUS
<1>1. IndInv
  BY InitInd
<1>2. \A s \in Sides, i \in Idx : DOMAIN Queue(s, i) = {}
  BY DEF Init, Queue, EmptyLevel
<1>3. \A id \in Ids : order_map[id] = NoLoc /\ reported[id] = 0 /\ ordered[id] = 0
  BY DEF Init
<1>4. Queued
  BY <1>2, <1>3 DEF Queued, Ascending, Located, Found, NoLoc, Sides
<1>5. Numbered /\ Trading
  BY <1>3 DEF Init, Numbered, Trading
<1>6. QuantityAccounted
  BY <1>2, <1>3, Accounts DEF Init
<1> QED
  BY <1>1, <1>4, <1>5, <1>6 DEF QueueInv

\* Entering add_order: the new id has no account yet.
LEMMA AddOrderQueue ==
  ASSUME QueueInv, NEW r \in Requests, AddOrder(r)
  PROVE  QueueInv'
<1>1. /\ phase = "idle" /\ phase' = "match" /\ next_id <= MaxOrders
      /\ incoming' = [id |-> next_id, side |-> r.side, type |-> r.type,
                      price |-> r.price, qty |-> r.qty]
      /\ next_id' = next_id + 1
      /\ ordered' = [ordered EXCEPT ![next_id] = r.qty]
      /\ UNCHANGED <<levels, best, order_map, idx, resting, fill, reported>>
  BY DEF AddOrder, bookVars
<1>2. IndInv /\ Queued /\ Numbered /\ QuantityAccounted /\ TypeOK
  BY DEF QueueInv, IndInv
<1>3. IndInv'
  BY <1>2, AddOrderInd
<1>4. next_id \in Ids /\ r.qty \in Nat
  BY <1>1, <1>2, MaxOrdersAssumption, RequestAssumption DEF TypeOK, Ids
<1>5. Queued'
  BY <1>1, <1>2, SameIdsQueued DEF Queue
<1>6. Numbered' /\ Trading'
  BY <1>1, <1>2, <1>4 DEF Numbered, Trading, Ids
<1>7. /\ ordered'[next_id] = r.qty /\ reported[next_id] = 0
      /\ \A id \in Ids : id # next_id => ordered'[id] = ordered[id]
      /\ \A id \in Ids : Unsettled(id) = 0 /\ Unsettled(id)' = 0
  BY <1>1, <1>2, <1>4 DEF TypeOK, Numbered, Unsettled
<1>8. QuantityAccounted'
  <2>1. ASSUME NEW s \in Sides, NEW i \in Idx, NEW k \in DOMAIN Queue(s, i)
        PROVE  Accounted(Queue(s, i)[k])'
    <3>1. Queue(s, i)[k].id \in Ids /\ Queue(s, i)[k].id # next_id
      BY RestingIsOlder, <1>4 DEF Ids
    <3> QED
      BY <3>1, <1>1, <1>2, <1>7, Accounts DEF Accounted, Queue
  <2>2. Accounted(incoming)'
    BY <1>1, <1>4, <1>7 DEF Accounted
  <2>3. \A id \in Ids : reported'[id] <= ordered'[id]
    BY <1>1, <1>2, <1>4, <1>7, Accounts
  <2> QED
    BY <1>1, <2>1, <2>2, <2>3 DEF QuantityAccounted, Accounted, Queue
<1> QED
  BY <1>3, <1>5, <1>6, <1>8 DEF QueueInv

\* Steps between two trades: no order, no account and no location changes.
LEMMA BetweenTrades ==
  ASSUME QueueInv, UNCHANGED <<levels, order_map, next_id, ordered, reported>>,
         phase \in {"match", "level"}, phase' \in {"idle", "match", "level"},
         incoming' = incoming \/ (phase' = "idle" /\ incoming' = NoOrder)
  PROVE  Queued' /\ Numbered' /\ QuantityAccounted'
<1>1. IndInv /\ Queued /\ Numbered /\ QuantityAccounted
  BY DEF QueueInv
<1>2. Queued'
  BY <1>1, SameIdsQueued DEF Queue
<1>3. Numbered'
  BY <1>1 DEF Numbered
<1>4. \A id \in Ids : Unsettled(id) = 0 /\ Unsettled(id)' = 0
  BY DEF Unsettled
<1>5. \A s \in Sides, i \in Idx : \A k \in DOMAIN Queue(s, i) : Queue(s, i)[k].id \in Ids
  BY <1>1, QueueType
<1>6. incoming # NoOrder => incoming.id \in Ids
  BY <1>1, IncomingType DEF IndInv, InCall
<1>7. QuantityAccounted'
  BY <1>1, <1>4, <1>5, <1>6 DEF QuantityAccounted, Queue
<1> QED
  BY <1>2, <1>3, <1>7

\* The level entered is the best one, which the order in hand reaches.
LEMMA EnterLevelQueue ==
  ASSUME QueueInv, EnterLevel
  PROVE  QueueInv'
<1>1. /\ phase = "match" /\ phase' = "level" /\ Crosses(incoming)
      /\ UNCHANGED <<levels, best, order_map, incoming, next_id, ordered, reported>>
  BY DEF EnterLevel, bookVars, histVars
<1>2. IndInv /\ IndInv'
  BY EnterLevelInd DEF QueueInv
<1>3. best[Book] = LevelPrice(idx)'
  BY <1>1, <1>2 DEF IndInv, InCall, Book
<1>4. ~Better(incoming.side, best[Book], incoming.price)
  BY <1>1 DEF Crosses, Book
<1>5. Trading'
  BY <1>1, <1>3, <1>4 DEF Trading
<1> QED
  BY <1>1, <1>2, <1>5, BetweenTrades DEF QueueInv

\* Between two levels nothing moves.
LEMMA LeaveLevelQueue ==
  ASSUME QueueInv, LeaveLevel
  PROVE  QueueInv'
<1>1. /\ phase = "level" /\ phase' = "match" /\ levels' = levels
      /\ UNCHANGED <<order_map, incoming, next_id, ordered, reported>>
  BY DEF LeaveLevel, histVars
<1>2. IndInv'
  BY LeaveLevelInd DEF QueueInv
<1> QED
  BY <1>1, <1>2, BetweenTrades DEF QueueInv, Trading

\* What is left of a market order vanishes.
LEMMA DiscardQueue ==
  ASSUME QueueInv, Discard
  PROVE  QueueInv'
<1>1. /\ phase = "match" /\ Return
      /\ UNCHANGED <<levels, best, order_map, next_id, ordered, reported>>
  BY DEF Discard, bookVars, histVars
<1>2. IndInv'
  BY DiscardInd DEF QueueInv
<1>3. phase' = "idle" /\ incoming' = NoOrder
  BY <1>1, ReturnFacts
<1> QED
  BY <1>1, <1>2, <1>3, BetweenTrades DEF QueueInv, Trading

\* The front order of the level being matched: it is not the order in hand.
LEMMA FrontOrder ==
  ASSUME QueueInv, phase # "idle", ~IsEmpty(Level)
  PROVE  /\ Book \in Sides /\ idx \in Idx /\ Level = levels[Book][idx]
         /\ Level.orders = Queue(Book, idx)
         /\ 1 \in DOMAIN Queue(Book, idx) /\ Queue(Book, idx)[1] = Level.orders[1]
         /\ Level.orders[1].id \in Ids /\ Level.orders[1].qty \in Nat \ {0}
         /\ incoming.id \in Ids /\ Level.orders[1].id < incoming.id
<1>1. IndInv
  BY DEF QueueInv
<1>2. /\ Book \in Sides /\ idx \in Idx /\ Level = levels[Book][idx]
      /\ Level.orders = Queue(Book, idx) /\ incoming.id \in Ids
  BY <1>1, IncomingType DEF IndInv, TypeOK, Level, Queue
<1>3. Queue(Book, idx) \in Seq(RestingOrder) /\ Queue(Book, idx) # << >>
  BY <1>1, <1>2, QueueType DEF IsEmpty
<1>4. 1 \in DOMAIN Queue(Book, idx)
  BY <1>3
<1>5. Queue(Book, idx)[1].id < incoming.id
  BY <1>2, <1>4, RestingIsOlder
<1> QED
  BY <1>1, <1>2, <1>4, <1>5, QueueType

\* The report to the taker: its account moves from in hand to reported.
LEMMA ReportTakerQueue ==
  ASSUME QueueInv, ReportTaker
  PROVE  QueueInv'
<1>1. /\ phase = "level" /\ phase' = "taker" /\ ~IsEmpty(Level) /\ incoming.qty > 0
      /\ resting' = Level.orders[1].id
      /\ fill' = [qty |-> Min({incoming.qty, Level.orders[1].qty}), price |-> best[Book]]
      /\ reported' = [reported EXCEPT ![incoming.id] = @ + fill'.qty]
      /\ UNCHANGED <<levels, best, order_map, incoming, idx, next_id, ordered>>
  BY DEF ReportTaker, Report, bookVars
<1>2. IndInv /\ Queued /\ Numbered /\ Trading /\ QuantityAccounted /\ TypeOK
  BY DEF QueueInv, IndInv
<1>3. IndInv'
  BY <1>2, ReportTakerInd
<1>4. Queued'
  BY <1>1, <1>2, SameIdsQueued DEF Queue
<1>5. /\ Level.orders[1].qty \in Nat /\ incoming.id \in Ids /\ incoming.qty \in Nat
      /\ incoming # NoOrder
  BY <1>1, <1>2, FrontOrder, IncomingType DEF IndInv, InCall
<1>6. /\ fill'.qty \in {incoming.qty, Level.orders[1].qty}
      /\ fill'.qty <= incoming.qty /\ fill'.qty \in Nat
  BY <1>1, <1>5, MinPair
<1>7. Trading' /\ Level' = Level
  BY <1>1, <1>2, <1>6 DEF Trading, Level, Book
<1>8. /\ reported'[incoming.id] = reported[incoming.id] + fill'.qty
      /\ \A id \in Ids : id # incoming.id => reported'[id] = reported[id]
      /\ reported \in [Ids -> Nat] /\ ordered \in [Ids -> Nat]
  BY <1>1, <1>2, <1>5 DEF TypeOK
<1>9. Numbered'
  BY <1>1, <1>2, <1>8 DEF Numbered, Ids, TypeOK
<1>10. /\ \A id \in Ids : Unsettled(id) = 0
       /\ \A id \in Ids : id # incoming.id => Unsettled(id)' = 0
       /\ Unsettled(incoming.id)' = fill'.qty
  BY <1>1 DEF Unsettled
<1>11. ASSUME NEW s \in Sides, NEW i \in Idx, NEW k \in DOMAIN Queue(s, i)
       PROVE  Accounted(Queue(s, i)[k])'
  <2>1. Queue(s, i)[k].id \in Ids /\ Queue(s, i)[k].id # incoming.id
    BY <1>1, <1>5, RestingIsOlder DEF Ids
  <2>2. Accounted(Queue(s, i)[k])
    BY <1>2, Accounts
  <2> QED
    BY <2>1, <2>2, <1>1, <1>8, <1>10 DEF Accounted, Queue
<1>12. incoming.qty + reported[incoming.id] = ordered[incoming.id]
  BY <1>2, <1>5, <1>8, <1>10, Accounts DEF Accounted
<1>13. Accounted(incoming)'
  BY <1>1, <1>5, <1>6, <1>8, <1>10, <1>12 DEF Accounted
<1>14. \A id \in Ids : reported'[id] <= ordered'[id]
  BY <1>1, <1>2, <1>5, <1>6, <1>8, <1>12, Accounts
<1>15. QuantityAccounted'
  BY <1>1, <1>11, <1>13, <1>14 DEF QuantityAccounted, Accounted, Queue
<1> QED
  BY <1>3, <1>4, <1>7, <1>9, <1>15 DEF QueueInv

\* While a callback runs: the front is the order bound, and it is not the one
\* in hand.
LEMMA BoundOrder ==
  ASSUME QueueInv, phase \in {"taker", "maker"}
  PROVE  /\ Book \in Sides /\ idx \in Idx /\ Level = levels[Book][idx] /\ ~IsEmpty(Level)
         /\ 1 \in DOMAIN Queue(Book, idx) /\ Queue(Book, idx)[1] = Level.orders[1]
         /\ Level.orders[1].id = resting /\ resting \in Ids /\ resting # incoming.id
         /\ incoming \in Order /\ incoming # NoOrder
         /\ incoming.id \in Ids /\ incoming.qty \in Nat
         /\ Level.orders[1].qty \in Nat \ {0} /\ fill.qty \in Nat
         /\ fill.qty <= incoming.qty /\ fill.qty <= Level.orders[1].qty
         /\ \A s \in Sides, i \in Idx : \A k \in DOMAIN Queue(s, i) :
              /\ Queue(s, i)[k].id \in Ids /\ Queue(s, i)[k].id # incoming.id
              /\ ~(s = Book /\ i = idx /\ k = 1) => Queue(s, i)[k].id # resting
<1>1. IndInv /\ Queued /\ Callback /\ InCall
  BY DEF QueueInv, IndInv
<1>2. /\ ~IsEmpty(Level) /\ Level.orders[1].id = resting
      /\ fill.qty \in 1 .. incoming.qty /\ fill.qty <= Level.orders[1].qty
  BY <1>1 DEF Callback
<1>3. /\ Book \in Sides /\ idx \in Idx /\ Level = levels[Book][idx]
      /\ 1 \in DOMAIN Queue(Book, idx) /\ Queue(Book, idx)[1] = Level.orders[1]
      /\ resting \in Ids /\ Level.orders[1].qty \in Nat \ {0}
      /\ incoming.id \in Ids /\ resting < incoming.id
  BY <1>2, FrontOrder
<1>4. incoming \in Order /\ incoming # NoOrder /\ incoming.qty \in Nat
  BY <1>1, IncomingType DEF InCall
<1>5. resting # incoming.id /\ fill.qty \in Nat /\ fill.qty <= incoming.qty
  BY <1>2, <1>3, <1>4 DEF Ids
<1>6. ASSUME NEW s \in Sides, NEW i \in Idx, NEW k \in DOMAIN Queue(s, i)
      PROVE  /\ Queue(s, i)[k].id \in Ids /\ Queue(s, i)[k].id # incoming.id
             /\ ~(s = Book /\ i = idx /\ k = 1) => Queue(s, i)[k].id # resting
  <2>1. Queue(s, i)[k].id \in Ids /\ Queue(s, i)[k].id # incoming.id
    BY <1>3, RestingIsOlder DEF Ids
  <2>2. Queue(s, i)[k].id = resting => s = Book /\ i = idx /\ k = 1
    BY <1>1, <1>2, <1>3, OnePlace
  <2> QED
    BY <2>1, <2>2
<1> QED
  BY <1>2, <1>3, <1>4, <1>5, <1>6

\* The report to the maker.
LEMMA ReportMakerQueue ==
  ASSUME QueueInv, ReportMaker
  PROVE  QueueInv'
<1>1. /\ phase = "taker" /\ phase' = "maker"
      /\ fill' = [fill EXCEPT !.price = best[Book]]
      /\ reported' = [reported EXCEPT ![resting] = @ + fill'.qty]
      /\ UNCHANGED <<levels, best, order_map, incoming, idx, resting, next_id, ordered>>
  BY DEF ReportMaker, Report, bookVars
<1>2. IndInv /\ Queued /\ Numbered /\ Trading /\ QuantityAccounted /\ TypeOK
  BY DEF QueueInv, IndInv
<1>3. IndInv'
  BY <1>2, ReportMakerInd
<1>4. Queued'
  BY <1>1, <1>2, SameIdsQueued DEF Queue
<1>5. fill'.qty = fill.qty
  BY <1>1, <1>2 DEF TypeOK
<1>6. Trading'
  BY <1>1, <1>2, <1>5 DEF Trading, Level, Book
<1>7. /\ resting \in Ids /\ incoming.id \in Ids /\ resting # incoming.id
      /\ fill.qty \in Nat /\ fill.qty <= Level.orders[1].qty /\ Level.orders[1].qty \in Nat
      /\ Level.orders[1].id = resting
  BY <1>1, BoundOrder
<1>8. /\ reported'[resting] = reported[resting] + fill.qty
      /\ \A id \in Ids : id # resting => reported'[id] = reported[id]
      /\ reported \in [Ids -> Nat] /\ ordered \in [Ids -> Nat]
  BY <1>1, <1>2, <1>5, <1>7 DEF TypeOK
<1>9. /\ \A id \in Ids : id # incoming.id => Unsettled(id) = 0
      /\ Unsettled(incoming.id) = fill.qty /\ Unsettled(incoming.id)' = fill.qty
      /\ Unsettled(resting)' = fill.qty
      /\ \A id \in Ids : id # incoming.id /\ id # resting => Unsettled(id)' = 0
  BY <1>1, <1>5 DEF Unsettled
<1>10. Numbered'
  <2>1. resting < next_id
    BY <1>1, BoundOrder, RestingIsOlder
  <2> QED
    BY <2>1, <1>1, <1>2, <1>8 DEF Numbered, Ids, TypeOK
<1>11. Level.orders[1].qty + reported[resting] = ordered[resting]
  <2>1. Accounted(Level.orders[1])
    BY <1>1, <1>2, BoundOrder, Accounts
  <2> QED
    BY <2>1, <1>7, <1>8, <1>9 DEF Accounted
<1>12. ASSUME NEW s \in Sides, NEW i \in Idx, NEW k \in DOMAIN Queue(s, i)
       PROVE  Accounted(Queue(s, i)[k])'
  <2>1. /\ Queue(s, i)[k].id \in Ids /\ Queue(s, i)[k].id # incoming.id
        /\ ~(s = Book /\ i = idx /\ k = 1) => Queue(s, i)[k].id # resting
    BY <1>1, BoundOrder
  <2>2. Accounted(Queue(s, i)[k])
    BY <1>2, Accounts
  <2>3. CASE Queue(s, i)[k].id # resting
    BY <2>1, <2>2, <2>3, <1>1, <1>8, <1>9 DEF Accounted, Queue
  <2>4. CASE Queue(s, i)[k].id = resting
    <3>1. Queue(s, i)[k] = Level.orders[1]
      BY <2>1, <2>4, <1>1, BoundOrder
    <3>2. Level.orders[1].qty + (reported[resting] + fill.qty) - fill.qty = ordered[resting]
      BY <1>7, <1>8, <1>11
    <3>3. levels'[s][i].orders[k] = Level.orders[1]
      BY <3>1, <1>1 DEF Queue
    <3> QED
      BY <3>2, <3>3, <1>1, <1>7, <1>8, <1>9 DEF Accounted, Queue
  <2> QED
    BY <2>3, <2>4
<1>13. Accounted(incoming)'
  <2>1. Accounted(incoming)
    BY <1>1, <1>2, BoundOrder, Accounts
  <2> QED
    BY <2>1, <1>1, <1>7, <1>8, <1>9 DEF Accounted
<1>14. \A id \in Ids : reported'[id] <= ordered'[id]
  BY <1>1, <1>2, <1>7, <1>8, <1>11, Accounts
<1>15. QuantityAccounted'
  BY <1>1, <1>12, <1>13, <1>14 DEF QuantityAccounted, Accounted, Queue
<1> QED
  BY <1>3, <1>4, <1>6, <1>10, <1>15 DEF QueueInv

\* Booking the trade: what was reported is taken off both orders.
LEMMA SettleQueue ==
  ASSUME QueueInv, Settle
  PROVE  QueueInv'
<1>1. /\ phase = "maker" /\ phase' = "level"
      /\ incoming' = [incoming EXCEPT !.qty = @ - fill.qty]
      /\ UNCHANGED <<best, idx, resting, fill, next_id, ordered, reported>>
  BY DEF Settle
<1>2. IndInv /\ Queued /\ Numbered /\ Trading /\ QuantityAccounted /\ TypeOK
  BY DEF QueueInv, IndInv
<1>3. IndInv'
  BY <1>2, SettleInd
<1>4. /\ Book \in Sides /\ idx \in Idx /\ Level = levels[Book][idx] /\ ~IsEmpty(Level)
      /\ 1 \in DOMAIN Queue(Book, idx) /\ Queue(Book, idx)[1] = Level.orders[1]
      /\ Level.orders[1].id = resting /\ resting \in Ids /\ resting # incoming.id
      /\ incoming \in Order /\ incoming # NoOrder
      /\ incoming.id \in Ids /\ incoming.qty \in Nat
      /\ Level.orders[1].qty \in Nat \ {0} /\ fill.qty \in Nat
      /\ fill.qty <= Level.orders[1].qty
  BY <1>1, BoundOrder
<1>5. \A s \in Sides, i \in Idx : \A k \in DOMAIN Queue(s, i) :
        /\ Queue(s, i)[k].id \in Ids /\ Queue(s, i)[k].id # incoming.id
        /\ ~(s = Book /\ i = idx /\ k = 1) => Queue(s, i)[k].id # resting
  BY <1>1, BoundOrder
<1>6. /\ incoming'.id = incoming.id /\ incoming'.qty = incoming.qty - fill.qty
      /\ incoming'.side = incoming.side /\ incoming'.price = incoming.price
  BY <1>1, <1>4 DEF Order
<1>7. Trading'
  BY <1>1, <1>2, <1>6 DEF Trading
<1>8. /\ \A id \in Ids : id # incoming.id /\ id # resting => Unsettled(id) = 0
      /\ Unsettled(incoming.id) = fill.qty /\ Unsettled(resting) = fill.qty
      /\ \A id \in Ids : Unsettled(id)' = 0
  BY <1>1 DEF Unsettled
<1>9. reported \in [Ids -> Nat] /\ ordered \in [Ids -> Nat]
  BY <1>2 DEF TypeOK
<1>10. Accounted(incoming)'
  <2>1. Accounted(incoming)
    BY <1>2, <1>4, Accounts
  <2> QED
    BY <2>1, <1>1, <1>4, <1>6, <1>8, <1>9 DEF Accounted
<1>11. ASSUME NEW o, o.id \in Ids, o.id # incoming.id, o.id # resting, Accounted(o)
       PROVE  o.qty + reported[o.id] - 0 = ordered[o.id]
  BY <1>8, <1>11 DEF Accounted
<1>12. /\ Queued' /\ Numbered'
       /\ \A s \in Sides, i \in Idx : \A k \in DOMAIN Queue(s, i)' :
            LET o == Queue(s, i)'[k] IN
            o.id \in Ids /\ o.qty + reported[o.id] - 0 = ordered[o.id]
  <2>1. CASE fill.qty >= Level.orders[1].qty
    <3>1. TakesOut(Book, idx, 1) /\ order_map' = [order_map EXCEPT ![resting] = NoLoc]
      BY <2>1 DEF Settle, TakesOut
    <3>2. Queued'
      BY <3>1, <1>2, <1>4, RemoveQueued
    <3>3. Numbered'
      BY <3>1, <1>1, <1>2, <1>4, <1>6 DEF Numbered, TypeOK
    <3>4. ASSUME NEW s \in Sides, NEW i \in Idx, NEW k \in DOMAIN Queue(s, i)'
          PROVE  LET o == Queue(s, i)'[k] IN
                 o.id \in Ids /\ o.qty + reported[o.id] - 0 = ordered[o.id]
      <4>1. PICK m \in DOMAIN Queue(s, i) :
              Queue(s, i)'[k] = Queue(s, i)[m] /\ ~(s = Book /\ i = idx /\ m = 1)
        BY <3>1, <1>2, <1>4, RemoveElements
      <4>2. Accounted(Queue(s, i)[m])
        BY <1>2, Accounts
      <4> QED
        BY <4>1, <4>2, <1>5, <1>11
    <3> QED
      BY <3>2, <3>3, <3>4
  <2>2. CASE ~(fill.qty >= Level.orders[1].qty)
    <3>1. Reduces(Book, idx, fill.qty) /\ order_map' = order_map
      BY <2>2 DEF Settle, Reduces
    <3>2. \A s \in Sides, i \in Idx :
            /\ DOMAIN Queue(s, i)' = DOMAIN Queue(s, i)
            /\ \A k \in DOMAIN Queue(s, i) : Queue(s, i)'[k].id = Queue(s, i)[k].id
      BY <3>1, <1>2, <1>4, ReduceFacts
    <3>3. Queued'
      BY <3>1, <3>2, <1>2, SameIdsQueued
    <3>4. Numbered'
      BY <3>1, <1>1, <1>2, <1>6 DEF Numbered
    <3>5. ASSUME NEW s \in Sides, NEW i \in Idx, NEW k \in DOMAIN Queue(s, i)'
          PROVE  LET o == Queue(s, i)'[k] IN
                 o.id \in Ids /\ o.qty + reported[o.id] - 0 = ordered[o.id]
      <4>1. k \in DOMAIN Queue(s, i) /\ Queue(s, i)'[k].id = Queue(s, i)[k].id
        BY <3>2
      <4>2. Accounted(Queue(s, i)[k])
        BY <4>1, <1>2, Accounts
      <4>3. CASE ~(s = Book /\ i = idx /\ k = 1)
        <5>1. Queue(s, i)'[k] = Queue(s, i)[k]
          BY <4>1, <4>3, <3>1, <1>2, <1>4, ReduceFacts
        <5> QED
          BY <5>1, <4>1, <4>2, <4>3, <1>5, <1>11
      <4>4. CASE s = Book /\ i = idx /\ k = 1
        <5>1. Queue(s, i)[k] = Level.orders[1]
          BY <4>4, <1>4
        <5>2. Queue(s, i)'[k].qty = Level.orders[1].qty - fill.qty
          BY <5>1, <4>1, <4>4, <3>1, <1>2, <1>4, ReduceFacts
        <5>3. Queue(s, i)'[k].id = resting
          BY <5>1, <4>1, <1>4
        <5>4. Level.orders[1].qty + reported[resting] - fill.qty = ordered[resting]
          BY <5>1, <4>2, <1>4, <1>8 DEF Accounted
        <5>5. Level.orders[1].qty - fill.qty + reported[resting] - 0 = ordered[resting]
          BY <5>4, <1>4, <1>9
        <5> QED
          BY <5>2, <5>3, <5>5, <1>4
      <4> QED
        BY <4>3, <4>4
    <3> QED
      BY <3>3, <3>4, <3>5
  <2> QED
    BY <2>1, <2>2
<1>13. \A id \in Ids : reported'[id] <= ordered'[id]
  BY <1>1, <1>2, Accounts
<1>14. QuantityAccounted'
  BY <1>1, <1>8, <1>10, <1>12, <1>13 DEF QuantityAccounted, Accounted, Queue
<1> QED
  BY <1>3, <1>7, <1>12, <1>14 DEF QueueInv

\* The rest of a limit order joins the back of its level: it is the youngest.
LEMMA RestQueue ==
  ASSUME QueueInv, Rest
  PROVE  QueueInv'
<1> DEFINE s == incoming.side
           i == PriceToIndex(incoming.price)
<1>1. /\ phase = "match" /\ phase' = "idle" /\ incoming' = NoOrder
      /\ incoming.qty > 0 /\ incoming.type = "Limit"
      /\ Joins(s, i, incoming.id, incoming.qty)
      /\ order_map' = [order_map EXCEPT ![incoming.id] = [side |-> s, idx |-> i]]
      /\ UNCHANGED <<next_id, ordered, reported>>
  BY DEF Rest, Return, Joins, histVars
<1>2. IndInv /\ Queued /\ Numbered /\ QuantityAccounted /\ TypeOK /\ InCall
  BY DEF QueueInv, IndInv
<1>3. IndInv'
  BY <1>2, RestInd
<1>4. s \in Sides /\ i \in Idx /\ incoming.id \in Ids /\ incoming # NoOrder
  BY <1>1, <1>2, IncomingType DEF InCall
<1> HIDE DEF s, i
<1>5. order_map[incoming.id] = NoLoc /\ incoming.id = next_id - 1 /\ next_id \in Int
  BY <1>1, <1>2 DEF Numbered, TypeOK
<1>6. \A k \in DOMAIN Queue(s, i) : Queue(s, i)[k].id < incoming.id
  BY <1>1, <1>4, RestingIsOlder
<1>7. Queued'
  BY <1>1, <1>2, <1>4, <1>5, <1>6, JoinQueued
<1>8. Numbered' /\ Trading'
  BY <1>1, <1>2, <1>4, <1>5 DEF Numbered, Trading, TypeOK, Ids
<1>9. \A id \in Ids : Unsettled(id) = 0 /\ Unsettled(id)' = 0
  BY <1>1 DEF Unsettled
<1>10. ASSUME NEW t \in Sides, NEW j \in Idx, NEW l \in DOMAIN Queue(t, j)'
       PROVE  LET o == Queue(t, j)'[l] IN
              o.id \in Ids /\ o.qty + reported[o.id] - 0 = ordered[o.id]
  <2>1. \/ l \in DOMAIN Queue(t, j) /\ Queue(t, j)'[l] = Queue(t, j)[l]
        \/ Queue(t, j)'[l] = [id |-> incoming.id, qty |-> incoming.qty]
    BY <1>1, <1>2, <1>4, JoinElements
  <2>2. CASE l \in DOMAIN Queue(t, j) /\ Queue(t, j)'[l] = Queue(t, j)[l]
    <3>1. Accounted(Queue(t, j)[l]) /\ Queue(t, j)[l].id \in Ids
      BY <2>2, <1>2, Accounts, QueueType
    <3> QED
      BY <3>1, <2>2, <1>9 DEF Accounted
  <2>3. CASE Queue(t, j)'[l] = [id |-> incoming.id, qty |-> incoming.qty]
    <3>1. Accounted(incoming)
      BY <1>2, <1>4, Accounts
    <3>2. /\ [id |-> incoming.id, qty |-> incoming.qty].id = incoming.id
          /\ [id |-> incoming.id, qty |-> incoming.qty].qty = incoming.qty
      OBVIOUS
    <3> QED
      BY <3>1, <3>2, <2>3, <1>4, <1>9 DEF Accounted
  <2> QED
    BY <2>1, <2>2, <2>3
<1>11. QuantityAccounted'
  BY <1>1, <1>2, <1>9, <1>10, Accounts DEF QuantityAccounted, Queue
<1> QED
  BY <1>3, <1>7, <1>8, <1>11 DEF QueueInv

\* What cancel_order does to the queues.
LEMMA CancelTakesOut ==
  ASSUME IndInv, NEW id \in Ids, CancelEffect(id)
  PROVE  \E s \in Sides, i \in Idx : \E k \in DOMAIN Queue(s, i) :
           TakesOut(s, i, k) /\ Queue(s, i)[k].id = id
<1> DEFINE s == order_map[id].side
           i == order_map[id].idx
<1>1. order_map[id] \in [side : Sides, idx : Idx]
  BY DEF CancelEffect, IndInv, TypeOK
<1>2. s \in Sides /\ i \in Idx
  BY <1>1
<1>3. PICK k \in 1 .. Len(levels[s][i].orders) :
        /\ levels[s][i].orders[k].id = id
        /\ levels' = [levels EXCEPT ![s][i] = Erase(levels[s][i], k)]
  BY DEF CancelEffect
<1> HIDE DEF s, i
<1>4. k \in DOMAIN Queue(s, i)
  BY <1>2, <1>3, QueueType DEF Queue
<1> QED
  BY <1>2, <1>3, <1>4 DEF TakesOut, Queue

\* A cancel takes one order out, in a callback never the one that is bound.
LEMMA CancelOrderQueue ==
  ASSUME QueueInv, NEW id \in Ids, CancelOrder(id)
  PROVE  QueueInv'
<1>1. /\ MayCancel(id) /\ CancelEffect(id)
      /\ order_map' = [order_map EXCEPT ![id] = NoLoc]
      /\ UNCHANGED <<phase, incoming, idx, resting, fill, next_id, ordered, reported>>
  BY DEF CancelOrder, CancelEffect, callVars, histVars
<1>2. IndInv /\ Queued /\ Numbered /\ Trading /\ QuantityAccounted /\ TypeOK
  BY DEF QueueInv, IndInv
<1>3. IndInv'
  BY <1>2, CancelOrderInd
<1>4. PICK s \in Sides, i \in Idx : \E k \in DOMAIN Queue(s, i) :
        TakesOut(s, i, k) /\ Queue(s, i)[k].id = id
  BY <1>1, <1>2, CancelTakesOut
<1>5. PICK k \in DOMAIN Queue(s, i) : TakesOut(s, i, k) /\ Queue(s, i)[k].id = id
  BY <1>4
<1>6. Queued'
  BY <1>1, <1>2, <1>5, RemoveQueued
<1>7. Numbered'
  BY <1>1, <1>2 DEF Numbered, TypeOK
<1>8. \A t \in Sides, j \in Idx : \A l \in DOMAIN Queue(t, j)' :
        \E m \in DOMAIN Queue(t, j) : Queue(t, j)'[l] = Queue(t, j)[m]
  <2> SUFFICES ASSUME NEW t \in Sides, NEW j \in Idx, NEW l \in DOMAIN Queue(t, j)'
               PROVE  \E m \in DOMAIN Queue(t, j) : Queue(t, j)'[l] = Queue(t, j)[m]
    OBVIOUS
  <2> QED
    BY <1>2, <1>5, RemoveElements
<1>9. Trading'
  <2>1. CASE phase \in {"taker", "maker"}
    <3>1. /\ Book \in Sides /\ idx \in Idx /\ Book' = Book
          /\ 1 \in DOMAIN Queue(Book, idx) /\ Queue(Book, idx)[1] = Level.orders[1]
          /\ \A l \in DOMAIN Queue(Book, idx) :
               l # 1 => Queue(Book, idx)[l].id # resting
      BY <2>1, <1>1, BoundOrder DEF Book
    <3>2. /\ Level'.orders[1].id = resting /\ Level' = levels'[Book][idx]
          /\ ~IsEmpty(levels'[Book][idx])
      BY <2>1, <1>1, <1>3, <3>1 DEF IndInv, Callback, Level
    <3>3. 1 \in DOMAIN (levels'[Book][idx].orders)
      <4>1. levels'[Book][idx] \in PriceLevel
        BY <1>3, <3>1 DEF IndInv, TypeOK
      <4>2. levels'[Book][idx].orders \in Seq(RestingOrder)
        BY <4>1 DEF PriceLevel
      <4> QED
        BY <4>2, <3>2 DEF IsEmpty
    <3>4. PICK m \in DOMAIN Queue(Book, idx) :
            levels'[Book][idx].orders[1] = Queue(Book, idx)[m]
      BY <1>8, <3>1, <3>3 DEF Queue
    <3>5. Level'.orders[1] = Level.orders[1]
      BY <3>1, <3>2, <3>4
    <3> QED
      BY <3>5, <1>1, <1>2 DEF Trading
  <2>2. CASE phase \notin {"taker", "maker"}
    BY <2>2, <1>1, <1>2 DEF Trading
  <2> QED
    BY <2>1, <2>2
<1>10. Unsettled(incoming.id)' = Unsettled(incoming.id)
       /\ \A x \in Ids : Unsettled(x)' = Unsettled(x)
  BY <1>1 DEF Unsettled
<1>11. ASSUME NEW t \in Sides, NEW j \in Idx, NEW l \in DOMAIN Queue(t, j)'
       PROVE  LET o == Queue(t, j)'[l] IN
              o.id \in Ids /\ o.qty + reported[o.id] - Unsettled(o.id) = ordered[o.id]
  <2>1. PICK m \in DOMAIN Queue(t, j) : Queue(t, j)'[l] = Queue(t, j)[m]
    BY <1>8
  <2>2. Accounted(Queue(t, j)[m]) /\ Queue(t, j)[m].id \in Ids
    BY <1>2, Accounts, QueueType
  <2> QED
    BY <2>1, <2>2 DEF Accounted
<1>12. QuantityAccounted'
  <2>1. \A t \in Sides, j \in Idx : \A l \in DOMAIN levels'[t][j].orders :
          LET o == levels'[t][j].orders[l] IN
          o.id \in Ids /\ o.qty + reported[o.id] - Unsettled(o.id) = ordered[o.id]
    BY <1>11 DEF Queue
  <2> HIDE DEF Unsettled
  <2> QED
    BY <2>1, <1>1, <1>2, <1>10 DEF QuantityAccounted
<1> QED
  BY <1>3, <1>6, <1>7, <1>9, <1>12 DEF QueueInv

\* Every step keeps the queues, the map and the accounts in step.
LEMMA StepQueue == QueueInv /\ [Next]_vars => QueueInv'
<1> SUFFICES ASSUME QueueInv, [Next]_vars PROVE QueueInv'
  OBVIOUS
<1>1. ASSUME NEW r \in Requests, AddOrder(r) PROVE QueueInv'
  BY <1>1, AddOrderQueue
<1>2. ASSUME EnterLevel PROVE QueueInv'
  BY <1>2, EnterLevelQueue
<1>3. ASSUME ReportTaker PROVE QueueInv'
  BY <1>3, ReportTakerQueue
<1>4. ASSUME ReportMaker PROVE QueueInv'
  BY <1>4, ReportMakerQueue
<1>5. ASSUME Settle PROVE QueueInv'
  BY <1>5, SettleQueue
<1>6. ASSUME LeaveLevel PROVE QueueInv'
  BY <1>6, LeaveLevelQueue
<1>7. ASSUME Rest PROVE QueueInv'
  BY <1>7, RestQueue
<1>8. ASSUME Discard PROVE QueueInv'
  BY <1>8, DiscardQueue
<1>9. ASSUME NEW id \in Ids, CancelOrder(id) PROVE QueueInv'
  BY <1>9, CancelOrderQueue
<1>10. ASSUME UNCHANGED vars PROVE QueueInv'
  <2>1. UNCHANGED <<levels, best, order_map, phase, incoming, idx, resting, fill,
                    next_id, ordered, reported>>
    BY <1>10 DEF vars, bookVars, callVars, histVars
  <2>2. IndInv'
    BY <1>10, StepInd DEF QueueInv
  <2>3. Queued'
    BY <2>1, SameIdsQueued DEF QueueInv, Queue
  <2>4. Numbered' /\ Trading'
    BY <2>1 DEF QueueInv, Numbered, Trading, Level, Book
  <2>5. QuantityAccounted'
    BY <2>1 DEF QueueInv, QuantityAccounted, Unsettled
  <2> QED
    BY <2>2, <2>3, <2>4, <2>5 DEF QueueInv
<1> QED
  BY <1>1, <1>2, <1>3, <1>4, <1>5, <1>6, <1>7, <1>8, <1>9, <1>10 DEF Next, Match

\* The inductive invariant holds in every reachable state.
THEOREM QueueInductive == Spec => []QueueInv
<1>1. Init => QueueInv
  BY InitQueue
<1>2. QueueInv /\ [Next]_vars => QueueInv'
  BY StepQueue
<1> QED
  BY <1>1, <1>2, PTL DEF Spec

\* A queue of the book holds the orders that the map puts there, each once.
LEMMA QueuedIsExact == IndInv /\ Queued => MapIsExact
<1> SUFFICES ASSUME IndInv, Queued, NEW s \in Sides, NEW i \in Idx
             PROVE  /\ {Queue(s, i)[k].id : k \in DOMAIN Queue(s, i)}
                         = {id \in Ids : order_map[id] = [side |-> s, idx |-> i]}
                    /\ \A k, l \in DOMAIN Queue(s, i) :
                         Queue(s, i)[k].id = Queue(s, i)[l].id => k = l
  BY DEF MapIsExact, Queue
<1>1. \A k \in DOMAIN Queue(s, i) :
        /\ Queue(s, i)[k].id \in Ids
        /\ order_map[Queue(s, i)[k].id] = [side |-> s, idx |-> i]
  BY QueueType DEF Queued, Located
<1>2. \A id \in Ids : order_map[id] = [side |-> s, idx |-> i] =>
        \E k \in DOMAIN Queue(s, i) : Queue(s, i)[k].id = id
  BY DEF Queued, Found
<1>3. \A k, l \in DOMAIN Queue(s, i) : Queue(s, i)[k].id = Queue(s, i)[l].id => k = l
  BY OnePlace
<1> QED
  BY <1>1, <1>2, <1>3

\* order_map_ locates exactly the resting orders, through partial fills, full
\* fills and cancels inside the matching loop (order_book.cpp:37, 44, 61, 116, 144).
THEOREM LocationsExact == Spec => []MapIsExact
<1>1. QueueInv => MapIsExact
  BY QueuedIsExact DEF QueueInv
<1> QED
  BY <1>1, QueueInductive, PTL

\* Every unit ordered rests, is in hand or has been reported as filled, and
\* nobody is told of more than was ordered (order_book.cpp:104 to 120).
THEOREM QuantitiesAccounted == Spec => []QuantityAccounted
<1>1. QueueInv => QuantityAccounted
  BY DEF QueueInv
<1> QED
  BY <1>1, QueueInductive, PTL

-----------------------------------------------------------------------------
(* The totals of the levels                                                *)

\* The quantities of a queue.
Quantities(orders) == [k \in DOMAIN orders |-> orders[k].qty]

\* A level's total is what its queue holds.
Balanced(level) ==
  level.total_quantity
    = SumFunctionOnSet(Quantities(level.orders), DOMAIN level.orders)

\* The queue of a level, its places and its quantities.
LEMMA LevelFacts ==
  ASSUME NEW level \in PriceLevel
  PROVE  /\ level.orders \in Seq(RestingOrder) /\ level.total_quantity \in Int
         /\ Len(level.orders) \in Nat /\ DOMAIN level.orders = 1 .. Len(level.orders)
         /\ IsFiniteSet(DOMAIN level.orders)
         /\ \A k \in DOMAIN level.orders :
              /\ Quantities(level.orders)[k] = level.orders[k].qty
              /\ Quantities(level.orders)[k] \in Int
<1>1. level.orders \in Seq(RestingOrder) /\ level.total_quantity \in Int
  BY DEF PriceLevel
<1>2. Len(level.orders) \in Nat /\ DOMAIN level.orders = 1 .. Len(level.orders)
  BY <1>1
<1>3. \A k \in DOMAIN level.orders : level.orders[k] \in RestingOrder
  BY <1>1
<1>4. IsFiniteSet(DOMAIN level.orders)
  BY <1>2, FS_Interval
<1> QED
  BY <1>1, <1>2, <1>3, <1>4 DEF Quantities, RestingOrder

\* What leaves a queue leaves the total.
LEMMA EraseBalanced ==
  ASSUME NEW level \in PriceLevel, NEW k \in 1 .. Len(level.orders), Balanced(level)
  PROVE  Balanced(Erase(level, k))
<1> DEFINE o == level.orders
           n == Len(o)
           q == Quantities(o)
           e == Erase(level, k).orders
           p == Quantities(e)
           b == [j \in 1 .. n - 1 |-> IF j < k THEN j ELSE j + 1]
<1>1. /\ n \in Nat /\ DOMAIN o = 1 .. n /\ k \in 1 .. n
      /\ IsFiniteSet(1 .. n)
      /\ \A j \in 1 .. n : q[j] = o[j].qty /\ q[j] \in Int
      /\ level.total_quantity \in Int
  BY LevelFacts
<1>2. /\ e \in Seq(RestingOrder) /\ Len(e) = n - 1
      /\ \A j \in 1 .. n - 1 : e[j] = o[IF j < k THEN j ELSE j + 1]
  BY EraseOrders
<1>3. /\ Erase(level, k).total_quantity = level.total_quantity - q[k]
      /\ level.total_quantity = SumFunctionOnSet(q, 1 .. n)
  BY <1>1 DEF Erase, Balanced
<1>4. DOMAIN e = 1 .. n - 1
  BY <1>2
<1> HIDE DEF o, e, n
<1>5. \A j \in 1 .. n - 1 : b[j] \in 1 .. n /\ e[j] = o[b[j]]
  BY <1>1, <1>2
<1>6. \A i, j \in 1 .. n - 1 : b[i] = b[j] => i = j
  BY <1>1
<1>7. {b[j] : j \in 1 .. n - 1} = (1 .. n) \ {k}
  <2>1. ASSUME NEW i \in (1 .. n) \ {k} PROVE \E j \in 1 .. n - 1 : b[j] = i
    <3>1. CASE i < k
      <4>1. i \in 1 .. n - 1 /\ b[i] = i
        BY <1>1, <3>1
      <4> QED
        BY <4>1
    <3>2. CASE ~(i < k)
      <4>1. i - 1 \in 1 .. n - 1 /\ b[i - 1] = i
        BY <1>1, <3>2
      <4> QED
        BY <4>1
    <3> QED
      BY <3>1, <3>2
  <2>2. \A j \in 1 .. n - 1 : b[j] # k
    BY <1>1
  <2> HIDE DEF b
  <2> QED
    BY <1>5, <2>1, <2>2
<1> HIDE DEF b
<1>8. \A j \in 1 .. n - 1 : p[j] = q[b[j]] /\ p[j] \in Int
  <2>1. \A j \in 1 .. n - 1 : p[j] = e[j].qty
    BY <1>4 DEF Quantities
  <2> HIDE DEF p, q
  <2> QED
    BY <1>1, <1>5, <2>1
<1> DEFINE N == 1 .. n
           M == 1 .. n - 1
<1>9. IsFiniteSet(M) /\ IsFiniteSet(N) /\ k \in N /\ \A j \in N : q[j] \in Int
  BY <1>1, FS_Interval
<1>10. /\ \A j \in M : p[j] = q[b[j]] /\ p[j] \in Int
       /\ \A i, j \in M : b[i] = b[j] => i = j
       /\ {b[j] : j \in M} = N \ {k}
  BY <1>6, <1>7, <1>8
<1> HIDE DEF p, q, M, N
<1>11. SumFunctionOnSet(p, M) = SumFunctionOnSet(q, N \ {k})
  <2>1. SumFunctionOnSet(p, M) = SumFunctionOnSet(q, {b[j] : j \in M})
    BY <1>9, <1>10, SumReindexed
  <2> QED
    BY <1>10, <2>1
<1>12. SumFunctionOnSet(q, N) = q[k] + SumFunctionOnSet(q, N \ {k}) /\ q[k] \in Int
  <2>1. \A j \in N : SumFunctionOnSet(q, N) = q[j] + SumFunctionOnSet(q, N \ {j})
    BY <1>9, SumRemove
  <2> QED
    BY <1>9, <2>1
<1>13. SumFunctionOnSet(q, N \ {k}) \in Int
  <2>1. IsFiniteSet(N \ {k}) /\ \A j \in N \ {k} : q[j] \in Int
    BY <1>9, FS_Subset
  <2> QED
    BY <2>1, SumInt
<1>14. Erase(level, k).total_quantity = SumFunctionOnSet(p, M)
  <2>1. level.total_quantity = SumFunctionOnSet(q, N)
    BY <1>3 DEF N
  <2> QED
    BY <1>3, <1>11, <1>12, <1>13, <2>1
<1> QED
  BY <1>4, <1>14 DEF Balanced, p, e, M

\* A partial fill takes as much off the total as off the front.
LEMMA ReduceBalanced ==
  ASSUME NEW level \in PriceLevel, ~IsEmpty(level), NEW filled \in Nat, Balanced(level)
  PROVE  Balanced(ReduceFront(level, filled))
<1> DEFINE o == level.orders
           w == ReduceFront(level, filled).orders
           q == Quantities(o)
           p == Quantities(w)
           D == DOMAIN o
<1>1. IsFiniteSet(D) /\ \A j \in D : q[j] = o[j].qty /\ q[j] \in Int
  BY LevelFacts
<1>2. /\ DOMAIN w = D /\ 1 \in D
      /\ \A j \in D : w[j].qty = IF j = 1 THEN o[j].qty - filled ELSE o[j].qty
  BY ReduceOrders
<1>3. /\ ReduceFront(level, filled).total_quantity = level.total_quantity - filled
      /\ level.total_quantity = SumFunctionOnSet(q, D)
  BY DEF ReduceFront, Balanced
<1> HIDE DEF o, w, D
<1>4. \A j \in D : p[j] = w[j].qty
  BY <1>2 DEF Quantities
<1> HIDE DEF p, q
<1>5. /\ p[1] = q[1] - filled /\ q[1] \in Int
      /\ \A j \in D : j # 1 => p[j] = q[j]
  BY <1>1, <1>2, <1>4
<1>6. \A j \in D : q[j] \in Int /\ p[j] \in Int
  BY <1>1, <1>5
<1>7. SumFunctionOnSet(p, D) = SumFunctionOnSet(q, D) + (p[1] - q[1])
  BY <1>1, <1>2, <1>5, <1>6, SumChange
<1>8. SumFunctionOnSet(q, D) \in Int
  BY <1>1, SumInt
<1>9. ReduceFront(level, filled).total_quantity = SumFunctionOnSet(p, D)
  BY <1>3, <1>5, <1>7, <1>8
<1> QED
  BY <1>2, <1>9 DEF Balanced, p, w

\* What joins a queue joins the total.
LEMMA EnqueueBalanced ==
  ASSUME NEW level \in PriceLevel, NEW id, NEW qty \in Int, Balanced(level)
  PROVE  Balanced(Enqueue(level, id, qty))
<1> DEFINE o == level.orders
           e == Enqueue(level, id, qty).orders
           q == Quantities(o)
           p == Quantities(e)
           D == DOMAIN o
           m == Len(o) + 1
<1>1. /\ IsFiniteSet(D) /\ \A j \in D : q[j] = o[j].qty /\ q[j] \in Int
      /\ Len(o) \in Nat /\ D = 1 .. Len(o)
  BY LevelFacts
<1>2. /\ DOMAIN e = 1 .. m
      /\ e[m] = [id |-> id, qty |-> qty]
      /\ \A j \in D : e[j] = o[j]
  BY EnqueueOrders
<1>3. /\ Enqueue(level, id, qty).total_quantity = level.total_quantity + qty
      /\ level.total_quantity = SumFunctionOnSet(q, D)
  BY DEF Enqueue, Balanced
<1>4. 1 .. m = D \cup {m} /\ m \notin D
  BY <1>1
<1> HIDE DEF o, e, D, m
<1>5. \A j \in D \cup {m} : p[j] = e[j].qty
  BY <1>2, <1>4 DEF Quantities
<1> HIDE DEF p, q
<1>6. p[m] = qty /\ \A j \in D : q[j] \in Int /\ q[j] = p[j]
  <2>1. e[m].qty = qty
    BY <1>2
  <2> QED
    BY <1>1, <1>2, <1>5, <2>1
<1>7. \A j \in D \cup {m} : p[j] \in Int
  BY <1>6
<1>8. SumFunctionOnSet(q, D) = SumFunctionOnSet(p, D)
  BY <1>1, <1>6, SumSame
<1>9. SumFunctionOnSet(p, D \cup {m}) = SumFunctionOnSet(p, D) + p[m]
  BY <1>1, <1>4, <1>7, SumAdd
<1>10. Enqueue(level, id, qty).total_quantity = SumFunctionOnSet(p, 1 .. m)
  BY <1>3, <1>4, <1>6, <1>8, <1>9
<1> QED
  BY <1>2, <1>10 DEF Balanced, p, e

Totals == \A s \in Sides, i \in Idx : Balanced(levels[s][i])

\* A step that changes one level keeps the totals when it keeps that one's.
LEMMA OneLevel ==
  ASSUME IndInv, Totals, NEW s \in Sides, NEW i \in Idx, NEW level, Balanced(level),
         levels' = [levels EXCEPT ![s][i] = level]
  PROVE  Totals'
<1>1. levels \in [Sides -> [Idx -> PriceLevel]]
  BY DEF IndInv, TypeOK
<1>2. /\ levels'[s][i] = level
      /\ \A t \in Sides, j \in Idx : ~(t = s /\ j = i) => levels'[t][j] = levels[t][j]
  BY <1>1
<1>3. ASSUME NEW t \in Sides, NEW j \in Idx PROVE Balanced(levels'[t][j])
  <2>1. CASE t = s /\ j = i
    BY <1>2, <2>1
  <2>2. CASE ~(t = s /\ j = i)
    <3>1. levels'[t][j] = levels[t][j]
      BY <1>2, <2>2
    <3> QED
      BY <3>1 DEF Totals
  <2> QED
    BY <2>1, <2>2
<1> QED
  BY <1>3 DEF Totals

\* An order taken out of a queue is taken off its level's total.
LEMMA TakeOutTotals ==
  ASSUME IndInv, Totals, NEW s \in Sides, NEW i \in Idx, NEW k \in DOMAIN Queue(s, i),
         TakesOut(s, i, k)
  PROVE  Totals'
<1>1. levels[s][i] \in PriceLevel /\ k \in 1 .. Len(levels[s][i].orders)
  BY QueueType DEF Queue
<1>2. Balanced(levels[s][i])
  BY DEF Totals
<1>3. Balanced(Erase(levels[s][i], k))
  BY <1>1, <1>2, EraseBalanced
<1> QED
  BY <1>3, OneLevel DEF TakesOut

\* Each step changes at most one level, and its queue and total together.
LEMMA StepTotals == QueueInv /\ Totals /\ [Next]_vars => Totals'
<1> SUFFICES ASSUME QueueInv, Totals, [Next]_vars PROVE Totals'
  OBVIOUS
<1>1. IndInv
  BY DEF QueueInv
<1>2. CASE Settle
  <2>1. /\ Book \in Sides /\ idx \in Idx /\ Level = levels[Book][idx] /\ ~IsEmpty(Level)
        /\ 1 \in DOMAIN Queue(Book, idx) /\ fill.qty \in Nat
    BY <1>2, BoundOrder DEF Settle
  <2>2. \/ TakesOut(Book, idx, 1)
        \/ Reduces(Book, idx, fill.qty)
    BY <1>2 DEF Settle, TakesOut, Reduces
  <2>3. CASE TakesOut(Book, idx, 1)
    BY <1>1, <2>1, <2>3, TakeOutTotals
  <2>4. CASE Reduces(Book, idx, fill.qty)
    <3>1. levels[Book][idx] \in PriceLevel /\ Balanced(levels[Book][idx])
      BY <1>1, <2>1, QueueType DEF Totals
    <3>2. Balanced(ReduceFront(levels[Book][idx], fill.qty))
      BY <2>1, <3>1, ReduceBalanced
    <3> QED
      BY <1>1, <2>1, <2>4, <3>2, OneLevel DEF Reduces
  <2> QED
    BY <2>2, <2>3, <2>4
<1>3. CASE Rest
  <2> DEFINE s == incoming.side
             i == PriceToIndex(incoming.price)
  <2>1. Joins(s, i, incoming.id, incoming.qty)
    BY <1>3 DEF Rest, Joins
  <2>2. incoming # NoOrder /\ phase = "match" /\ incoming.type = "Limit" /\ InCall
    BY <1>1, <1>3 DEF Rest, NoOrder, IndInv
  <2>3. s \in Sides /\ i \in Idx /\ incoming.qty \in Int
    BY <1>1, <2>2, IncomingType DEF InCall, Order
  <2> HIDE DEF s, i
  <2>4. levels[s][i] \in PriceLevel /\ Balanced(levels[s][i])
    BY <1>1, <2>3, QueueType DEF Totals
  <2>5. Balanced(Enqueue(levels[s][i], incoming.id, incoming.qty))
    BY <2>3, <2>4, EnqueueBalanced
  <2> QED
    BY <1>1, <2>1, <2>3, <2>5, OneLevel DEF Joins
<1>4. ASSUME NEW id \in Ids, CancelOrder(id) PROVE Totals'
  <2>1. PICK s \in Sides, i \in Idx : \E k \in DOMAIN Queue(s, i) :
          TakesOut(s, i, k) /\ Queue(s, i)[k].id = id
    BY <1>1, <1>4, CancelTakesOut DEF CancelOrder
  <2> QED
    BY <1>1, <2>1, TakeOutTotals
<1>5. CASE UNCHANGED levels
  BY <1>5 DEF Totals
<1>6. \/ Settle \/ Rest
      \/ \E id \in Ids : CancelOrder(id)
      \/ UNCHANGED levels
  BY DEF Next, Match, AddOrder, EnterLevel, ReportTaker, ReportMaker, LeaveLevel, Discard,
         vars, bookVars
<1> QED
  BY <1>2, <1>3, <1>4, <1>5, <1>6

\* quantity_at() tells what rests at a level, whatever has been filled in part or
\* in full, and cancelled from the middle of its queue
\* (order_book.cpp:89 to 91, price_level.h:19).
THEOREM TotalsExact == Spec => []LevelTotals
<1>1. Init => Totals
  <2> SUFFICES ASSUME Init, NEW s \in Sides, NEW i \in Idx PROVE Balanced(levels[s][i])
    BY DEF Totals
  <2>1. levels[s][i] = EmptyLevel
    BY DEF Init
  <2>2. DOMAIN EmptyLevel.orders = {} /\ EmptyLevel.total_quantity = 0
    BY DEF EmptyLevel
  <2> QED
    BY <2>1, <2>2, SumEmpty DEF Balanced
<1>2. Totals => LevelTotals
  <2>1. ASSUME NEW orders
        PROVE  SumFunction([k \in DOMAIN orders |-> orders[k].qty])
                 = SumFunctionOnSet(Quantities(orders), DOMAIN orders)
    BY DEF SumFunction, Quantities
  <2> QED
    BY <2>1 DEF Totals, Balanced, LevelTotals
<1> QED
  BY <1>1, <1>2, StepTotals, QueueInductive, PTL DEF Spec

-----------------------------------------------------------------------------
(* Price-time priority                                                     *)

\* A resting order as PriceTimePriority sees it.
Entry(s, i, o) == [id |-> o.id, side |-> s, price |-> LevelPrice(i), qty |-> o.qty]

\* The orders in the queues of lv, as a set.
SetOf(lv) ==
  UNION {{[id |-> o.id, side |-> s, price |-> LevelPrice(i), qty |-> o.qty] :
            o \in Range(lv[s][i].orders)} : s \in Sides, i \in Idx}

\* An order is in the book when some level queues it.
LEMMA QueuesAsSet ==
  ASSUME NEW lv, NEW x
  PROVE  x \in SetOf(lv)
           <=> \E s \in Sides, i \in Idx : \E k \in DOMAIN lv[s][i].orders :
                 x = Entry(s, i, lv[s][i].orders[k])
<1> DEFINE At(s, i) == {[id |-> o.id, side |-> s, price |-> LevelPrice(i), qty |-> o.qty] :
                          o \in Range(lv[s][i].orders)}
<1>1. ASSUME NEW s \in Sides, NEW i \in Idx
      PROVE  x \in At(s, i) <=> \E k \in DOMAIN lv[s][i].orders :
                                  x = Entry(s, i, lv[s][i].orders[k])
  BY DEF Range, Entry
<1> HIDE DEF At
<1>2. x \in UNION {At(s, i) : s \in Sides, i \in Idx}
        <=> \E s \in Sides, i \in Idx : x \in At(s, i)
  OBVIOUS
<1>3. x \in UNION {At(s, i) : s \in Sides, i \in Idx}
        <=> \E s \in Sides, i \in Idx : \E k \in DOMAIN lv[s][i].orders :
              x = Entry(s, i, lv[s][i].orders[k])
  BY <1>1, <1>2
<1> QED
  BY <1>3 DEF At, SetOf

\* The resting orders are those in the queues.
LEMMA InRestingSet ==
  ASSUME NEW x
  PROVE  /\ x \in RestingSet <=>
              \E s \in Sides, i \in Idx : \E k \in DOMAIN Queue(s, i) :
                x = Entry(s, i, Queue(s, i)[k])
         /\ x \in RestingSet' <=>
              \E s \in Sides, i \in Idx : \E k \in DOMAIN Queue(s, i)' :
                x = Entry(s, i, Queue(s, i)'[k])
<1>1. x \in RestingSet <=>
        \E s \in Sides, i \in Idx : \E k \in DOMAIN Queue(s, i) :
          x = Entry(s, i, Queue(s, i)[k])
  <2>1. RestingSet = SetOf(levels)
    BY DEF RestingSet, SetOf
  <2> QED
    BY <2>1, QueuesAsSet DEF Queue
<1>2. x \in RestingSet' <=>
        \E s \in Sides, i \in Idx : \E k \in DOMAIN Queue(s, i)' :
          x = Entry(s, i, Queue(s, i)'[k])
  <2>1. RestingSet' = SetOf(levels')
    BY DEF RestingSet, SetOf
  <2> QED
    BY <2>1, QueuesAsSet DEF Queue
<1> QED
  BY <1>1, <1>2

\* Equal entries are one order at one place.
LEMMA OneEntry ==
  ASSUME IndInv, Queued,
         NEW s \in Sides, NEW i \in Idx, NEW k \in DOMAIN Queue(s, i),
         NEW t \in Sides, NEW j \in Idx, NEW l \in DOMAIN Queue(t, j),
         Entry(s, i, Queue(s, i)[k]) = Entry(t, j, Queue(t, j)[l])
  PROVE  s = t /\ i = j /\ k = l
<1>1. Entry(s, i, Queue(s, i)[k]).id = Entry(t, j, Queue(t, j)[l]).id
  OBVIOUS
<1>2. Queue(s, i)[k].id = Queue(t, j)[l].id
  BY <1>1 DEF Entry
<1> QED
  BY <1>2, OnePlace

\* An order that leaves its queue leaves the set.
LEMMA RemoveResting ==
  ASSUME IndInv, Queued, NEW s \in Sides, NEW i \in Idx, NEW k \in DOMAIN Queue(s, i),
         TakesOut(s, i, k)
  PROVE  RestingSet' = RestingSet \ {Entry(s, i, Queue(s, i)[k])}
<1> DEFINE e == Entry(s, i, Queue(s, i)[k])
<1>1. ASSUME NEW x \in RestingSet' PROVE x \in RestingSet /\ x # e
  <2>1. PICK t \in Sides, j \in Idx : \E l \in DOMAIN Queue(t, j)' :
          x = Entry(t, j, Queue(t, j)'[l])
    BY InRestingSet
  <2>2. PICK l \in DOMAIN Queue(t, j)' : x = Entry(t, j, Queue(t, j)'[l])
    BY <2>1
  <2>3. PICK m \in DOMAIN Queue(t, j) :
          Queue(t, j)'[l] = Queue(t, j)[m] /\ ~(t = s /\ j = i /\ m = k)
    BY RemoveElements
  <2>4. x = Entry(t, j, Queue(t, j)[m])
    BY <2>2, <2>3
  <2> QED
    BY <2>3, <2>4, InRestingSet, OneEntry
<1>2. ASSUME NEW x \in RestingSet, x # e PROVE x \in RestingSet'
  <2>1. PICK t \in Sides, j \in Idx : \E m \in DOMAIN Queue(t, j) :
          x = Entry(t, j, Queue(t, j)[m])
    BY InRestingSet
  <2>2. PICK m \in DOMAIN Queue(t, j) : x = Entry(t, j, Queue(t, j)[m])
    BY <2>1
  <2>3. ~(t = s /\ j = i /\ m = k)
    BY <1>2, <2>2
  <2>4. PICK l \in DOMAIN Queue(t, j)' : Queue(t, j)'[l] = Queue(t, j)[m]
    BY <2>3, RemoveElements
  <2>5. x = Entry(t, j, Queue(t, j)'[l])
    BY <2>2, <2>4
  <2> QED
    BY <2>5, InRestingSet
<1> QED
  BY <1>1, <1>2

\* A partial fill replaces the front by what is left of it.
LEMMA ReduceResting ==
  ASSUME IndInv, Queued, NEW s \in Sides, NEW i \in Idx, NEW filled \in Nat,
         ~IsEmpty(levels[s][i]), Reduces(s, i, filled)
  PROVE  LET m == Entry(s, i, Queue(s, i)[1])
         IN  RestingSet' = (RestingSet \ {m}) \cup {[m EXCEPT !.qty = @ - filled]}
<1> DEFINE m == Entry(s, i, Queue(s, i)[1])
           n == [m EXCEPT !.qty = @ - filled]
<1>1. /\ 1 \in DOMAIN Queue(s, i) /\ 1 \in DOMAIN Queue(s, i)'
      /\ Entry(s, i, Queue(s, i)'[1]) = n
  <2>1. /\ 1 \in DOMAIN Queue(s, i) /\ 1 \in DOMAIN Queue(s, i)'
        /\ Queue(s, i)'[1].id = Queue(s, i)[1].id
        /\ Queue(s, i)'[1].qty = Queue(s, i)[1].qty - filled
    BY ReduceFacts
  <2> QED
    BY <2>1 DEF Entry
<1>2. \A t \in Sides, j \in Idx :
        /\ DOMAIN Queue(t, j)' = DOMAIN Queue(t, j)
        /\ \A l \in DOMAIN Queue(t, j) :
             ~(t = s /\ j = i /\ l = 1) => Queue(t, j)'[l] = Queue(t, j)[l]
  BY ReduceFacts
<1> HIDE DEF n
<1>3. ASSUME NEW x \in RestingSet' PROVE x = n \/ (x \in RestingSet /\ x # m)
  <2>1. PICK t \in Sides, j \in Idx : \E l \in DOMAIN Queue(t, j)' :
          x = Entry(t, j, Queue(t, j)'[l])
    BY InRestingSet
  <2>2. PICK l \in DOMAIN Queue(t, j)' : x = Entry(t, j, Queue(t, j)'[l])
    BY <2>1
  <2>3. CASE t = s /\ j = i /\ l = 1
    BY <2>2, <2>3, <1>1
  <2>4. CASE ~(t = s /\ j = i /\ l = 1)
    <3>1. l \in DOMAIN Queue(t, j) /\ x = Entry(t, j, Queue(t, j)[l])
      BY <2>2, <2>4, <1>2
    <3> QED
      BY <3>1, <2>4, <1>1, InRestingSet, OneEntry
  <2> QED
    BY <2>3, <2>4
<1>4. n \in RestingSet'
  <2>1. n = Entry(s, i, Queue(s, i)'[1]) /\ 1 \in DOMAIN Queue(s, i)'
    BY <1>1
  <2> QED
    BY <2>1, InRestingSet
<1>5. ASSUME NEW x \in RestingSet, x # m PROVE x \in RestingSet'
  <2>1. PICK t \in Sides, j \in Idx : \E l \in DOMAIN Queue(t, j) :
          x = Entry(t, j, Queue(t, j)[l])
    BY InRestingSet
  <2>2. PICK l \in DOMAIN Queue(t, j) : x = Entry(t, j, Queue(t, j)[l])
    BY <2>1
  <2>3. ~(t = s /\ j = i /\ l = 1)
    BY <1>5, <2>2
  <2>4. l \in DOMAIN Queue(t, j)' /\ x = Entry(t, j, Queue(t, j)'[l])
    BY <2>2, <2>3, <1>2
  <2> QED
    BY <2>4, InRestingSet
<1>6. RestingSet' = (RestingSet \ {m}) \cup {n}
  BY <1>3, <1>4, <1>5
<1> QED
  BY <1>6 DEF n

\* An order that joins a queue joins the set.
LEMMA JoinResting ==
  ASSUME IndInv, NEW s \in Sides, NEW i \in Idx, NEW id, NEW qty, Joins(s, i, id, qty)
  PROVE  RestingSet' = RestingSet \cup
           {[id |-> id, side |-> s, price |-> LevelPrice(i), qty |-> qty]}
<1> DEFINE o == [id |-> id, qty |-> qty]
           e == [id |-> id, side |-> s, price |-> LevelPrice(i), qty |-> qty]
<1>1. Entry(s, i, o) = e
  BY DEF Entry
<1>2. \A t \in Sides, j \in Idx :
        /\ \A l \in DOMAIN Queue(t, j)' :
             \/ l \in DOMAIN Queue(t, j) /\ Queue(t, j)'[l] = Queue(t, j)[l]
             \/ t = s /\ j = i /\ Queue(t, j)'[l] = o
        /\ \A l \in DOMAIN Queue(t, j) :
             l \in DOMAIN Queue(t, j)' /\ Queue(t, j)'[l] = Queue(t, j)[l]
  <2> SUFFICES ASSUME NEW t \in Sides, NEW j \in Idx
               PROVE  /\ \A l \in DOMAIN Queue(t, j)' :
                           \/ l \in DOMAIN Queue(t, j) /\ Queue(t, j)'[l] = Queue(t, j)[l]
                           \/ t = s /\ j = i /\ Queue(t, j)'[l] = o
                      /\ \A l \in DOMAIN Queue(t, j) :
                           l \in DOMAIN Queue(t, j)' /\ Queue(t, j)'[l] = Queue(t, j)[l]
    OBVIOUS
  <2> QED
    BY JoinElements
<1>3. \E l \in DOMAIN Queue(s, i)' : Queue(s, i)'[l] = o
  BY JoinElements
<1> HIDE DEF o, e
<1>4. ASSUME NEW x \in RestingSet' PROVE x = e \/ x \in RestingSet
  <2>1. PICK t \in Sides, j \in Idx : \E l \in DOMAIN Queue(t, j)' :
          x = Entry(t, j, Queue(t, j)'[l])
    BY InRestingSet
  <2> QED
    BY <2>1, <1>1, <1>2, InRestingSet
<1>5. e \in RestingSet'
  BY <1>1, <1>3, InRestingSet
<1>6. ASSUME NEW x \in RestingSet PROVE x \in RestingSet'
  <2>1. PICK t \in Sides, j \in Idx : \E l \in DOMAIN Queue(t, j) :
          x = Entry(t, j, Queue(t, j)[l])
    BY InRestingSet
  <2>2. PICK l \in DOMAIN Queue(t, j) : x = Entry(t, j, Queue(t, j)[l])
    BY <2>1
  <2>3. l \in DOMAIN Queue(t, j)' /\ x = Entry(t, j, Queue(t, j)'[l])
    BY <2>2, <1>2
  <2> QED
    BY <2>3, InRestingSet
<1>7. RestingSet' = RestingSet \cup {e}
  BY <1>4, <1>5, <1>6
<1> QED
  BY <1>7 DEF e

\* The candidates of the order in hand rest on the other side, at prices it
\* reaches.
LEMMA CandidateFacts ==
  ASSUME QueueInv, phase # "idle"
  PROVE  /\ \A n \in Priority!Candidates : \E j \in Idx : \E l \in DOMAIN Queue(Book, j) :
              n = Entry(Book, j, Queue(Book, j)[l])
         /\ \A j \in Idx : \A l \in DOMAIN Queue(Book, j) :
              ~Better(incoming.side, LevelPrice(j), incoming.price)
                <=> Entry(Book, j, Queue(Book, j)[l]) \in Priority!Candidates
<1>1. /\ incoming.side \in Sides /\ Book \in Sides /\ Book # incoming.side
      /\ incoming.price \in Nat
  BY IncomingType DEF QueueInv
<1>2. ASSUME NEW n \in Priority!Candidates
      PROVE  \E j \in Idx : \E l \in DOMAIN Queue(Book, j) :
               n = Entry(Book, j, Queue(Book, j)[l])
  <2>1. n \in RestingSet /\ n.side # incoming.side
    BY DEF Priority!Candidates
  <2>2. PICK t \in Sides, j \in Idx : \E l \in DOMAIN Queue(t, j) :
          n = Entry(t, j, Queue(t, j)[l])
    BY <2>1, InRestingSet
  <2>3. n.side = t
    BY <2>2 DEF Entry
  <2>4. t = Book
    BY <1>1, <2>1, <2>3 DEF Sides
  <2> QED
    BY <2>2, <2>4
<1>3. ASSUME NEW j \in Idx, NEW l \in DOMAIN Queue(Book, j)
      PROVE  ~Better(incoming.side, LevelPrice(j), incoming.price)
               <=> Entry(Book, j, Queue(Book, j)[l]) \in Priority!Candidates
  <2> DEFINE n == Entry(Book, j, Queue(Book, j)[l])
  <2>1. n \in RestingSet
    BY <1>1, InRestingSet
  <2>2. n.side = Book /\ n.price = LevelPrice(j) /\ LevelPrice(j) \in Nat
    BY LevelPrices DEF Entry
  <2> HIDE DEF n
  <2>3. Priority!Acceptable(incoming, n.price)
          <=> ~Better(incoming.side, LevelPrice(j), incoming.price)
    BY <1>1, <2>2 DEF Priority!Acceptable, Better, Sides
  <2>4. n \in Priority!Candidates <=> Priority!Acceptable(incoming, n.price)
    BY <1>1, <2>1, <2>2 DEF Priority!Candidates
  <2> QED
    BY <2>3, <2>4 DEF n
<1> QED
  BY <1>2, <1>3

\* While the level is matched, its front precedes every candidate.
LEMMA FrontPrecedes ==
  ASSUME QueueInv, phase \in {"taker", "maker"}
  PROVE  /\ Entry(Book, idx, Queue(Book, idx)[1]) \in Priority!Candidates
         /\ \A n \in Priority!Candidates :
              Priority!Precedes(Entry(Book, idx, Queue(Book, idx)[1]), n)
<1> DEFINE m == Entry(Book, idx, Queue(Book, idx)[1])
<1>1. /\ Book \in Sides /\ idx \in Idx /\ 1 \in DOMAIN Queue(Book, idx)
      /\ IndInv /\ Queued /\ Trading /\ InCall
  BY BoundOrder DEF QueueInv, IndInv
<1>2. m \in Priority!Candidates
  BY <1>1, CandidateFacts DEF Trading
<1>3. ASSUME NEW n \in Priority!Candidates PROVE Priority!Precedes(m, n)
  <2>1. PICK j \in Idx : \E l \in DOMAIN Queue(Book, j) :
          n = Entry(Book, j, Queue(Book, j)[l])
    BY CandidateFacts
  <2>2. PICK l \in DOMAIN Queue(Book, j) : n = Entry(Book, j, Queue(Book, j)[l])
    BY <2>1
  <2>3. ~IsEmpty(levels[Book][j])
    <3>1. Queue(Book, j) \in Seq(RestingOrder) /\ DOMAIN Queue(Book, j) # {}
      BY <1>1, <2>2, QueueType
    <3> QED
      BY <3>1 DEF IsEmpty, Queue
  <2>4. ~Better(Book, LevelPrice(j), LevelPrice(idx))
    BY <1>1, <2>3 DEF InCall
  <2>5. /\ m.side = Book /\ m.price = LevelPrice(idx) /\ m.id = Queue(Book, idx)[1].id
        /\ n.price = LevelPrice(j) /\ n.id = Queue(Book, j)[l].id
        /\ LevelPrice(j) \in Nat /\ LevelPrice(idx) \in Nat
    BY <2>2, <1>1, LevelPrices DEF Entry
  <2> HIDE DEF m
  <2>6. CASE LevelPrice(j) # LevelPrice(idx)
    BY <2>4, <2>5, <2>6, <1>1 DEF Priority!Precedes, Better, Sides
  <2>7. CASE LevelPrice(j) = LevelPrice(idx)
    <3>1. j = idx
      BY <2>7, <1>1, LevelPrices
    <3>2. l \in Int /\ 1 <= l /\ Queue(Book, j)[l].id \in Int
      BY <1>1, <2>2, QueueType DEF Ids
    <3>3. Queue(Book, idx)[1].id <= Queue(Book, j)[l].id
      <4>1. CASE l = 1
        BY <4>1, <3>1, <3>2
      <4>2. CASE 1 < l
        BY <4>2, <3>1, <3>2, <1>1, QueueType DEF Queued, Ascending, Ids
      <4> QED
        BY <4>1, <4>2, <3>2
    <3> QED
      BY <3>3, <2>5, <2>7 DEF Priority!Precedes
  <2> QED
    BY <2>6, <2>7
<1> QED
  BY <1>2, <1>3

\* When the order in hand no longer crosses the book, it has no candidates.
LEMMA NoCandidates ==
  ASSUME QueueInv, phase = "match", ~Crosses(incoming), incoming.qty > 0
  PROVE  Priority!Candidates = {}
<1> SUFFICES ASSUME NEW n \in Priority!Candidates PROVE FALSE
  OBVIOUS
<1>1. /\ incoming.side \in Sides /\ Book \in Sides /\ Book # incoming.side
      /\ incoming.price \in Nat /\ IndInv /\ Book = Opposite(incoming.side)
  BY IncomingType DEF QueueInv, Book
<1>2. PICK j \in Idx : \E l \in DOMAIN Queue(Book, j) :
        n = Entry(Book, j, Queue(Book, j)[l])
  BY CandidateFacts
<1>3. PICK l \in DOMAIN Queue(Book, j) : n = Entry(Book, j, Queue(Book, j)[l])
  BY <1>2
<1>4. ~Better(incoming.side, LevelPrice(j), incoming.price)
  BY <1>3, CandidateFacts
<1>5. ~IsEmpty(levels[Book][j])
  <2>1. Queue(Book, j) \in Seq(RestingOrder) /\ DOMAIN Queue(Book, j) # {}
    BY <1>1, <1>3, QueueType
  <2> QED
    BY <2>1 DEF IsEmpty, Queue
<1>6. IsBest(Book, levels[Book], best[Book])
  BY <1>1 DEF IndInv, BestIsExact
<1>7. PICK i \in Idx :
        /\ best[Book] = LevelPrice(i)
        /\ \A k \in Idx : Better(Book, LevelPrice(k), best[Book]) => IsEmpty(levels[Book][k])
  BY <1>5, <1>6 DEF IsBest
<1>8. LevelPrice(i) \in Nat /\ LevelPrice(j) \in Nat
  BY LevelPrices
<1>9. ~Better(Book, LevelPrice(j), LevelPrice(i))
  BY <1>5, <1>7
<1>10. Better(incoming.side, LevelPrice(i), incoming.price)
  BY <1>1, <1>7, <1>8 DEF Crosses
<1>11. (incoming.side = "Buy" /\ Book = "Sell") \/ (incoming.side = "Sell" /\ Book = "Buy")
  BY <1>1 DEF Sides
<1> QED
  BY <1>1, <1>4, <1>8, <1>9, <1>10, <1>11 DEF Better

\* Every step of the book is a step of price-time priority, or none of it.
LEMMA StepRefines ==
  ASSUME QueueInv, [Next]_vars
  PROVE  [Priority!Next]_<<RestingSet, incoming, next_id - 1, last_trade>>
<1> DEFINE Stutter == UNCHANGED <<RestingSet, incoming, next_id - 1, last_trade>>
<1>1. IndInv /\ Queued /\ TypeOK /\ InCall /\ next_id \in Int
  BY DEF QueueInv, IndInv, TypeOK
<1>2. ASSUME UNCHANGED <<levels, incoming, next_id, last_trade>> PROVE Stutter
  BY <1>2 DEF RestingSet
<1>3. ASSUME NEW r \in Requests, AddOrder(r) PROVE Priority!Submit(r)
  <2>1. /\ phase = "idle" /\ next_id <= MaxOrders /\ levels' = levels
        /\ incoming' = [id |-> next_id, side |-> r.side, type |-> r.type,
                        price |-> r.price, qty |-> r.qty]
        /\ next_id' = next_id + 1 /\ last_trade' = last_trade
    BY <1>3 DEF AddOrder, bookVars
  <2>2. incoming = NoOrder /\ RestingSet' = RestingSet
    BY <2>1, <1>1 DEF InCall, RestingSet
  <2>3. next_id - 1 < MaxOrders /\ next_id' - 1 = (next_id - 1) + 1 /\ next_id' - 1 = next_id
    BY <2>1, <1>1, MaxOrdersAssumption
  <2> QED
    BY <2>1, <2>2, <2>3 DEF Priority!Submit
<1>4. ASSUME Settle PROVE \E m \in Priority!Candidates : Priority!Trade(m)
  <2> DEFINE m == Entry(Book, idx, Queue(Book, idx)[1])
             q == fill.qty
  <2>1. /\ phase = "maker" /\ incoming' = [incoming EXCEPT !.qty = @ - q]
        /\ last_trade' = [taker |-> incoming.id, maker |-> resting,
                          price |-> fill.price, qty |-> q]
        /\ next_id' = next_id
    BY <1>4 DEF Settle
  <2>2. /\ Book \in Sides /\ idx \in Idx /\ Level = levels[Book][idx] /\ ~IsEmpty(Level)
        /\ 1 \in DOMAIN Queue(Book, idx) /\ Queue(Book, idx)[1] = Level.orders[1]
        /\ Level.orders[1].id = resting /\ incoming.qty \in Nat
        /\ Level.orders[1].qty \in Nat \ {0} /\ q \in Nat
        /\ q <= incoming.qty /\ q <= Level.orders[1].qty
    BY <2>1, BoundOrder
  <2>3. q \in {incoming.qty, Level.orders[1].qty} /\ q > 0 /\ fill.price = LevelPrice(idx)
    BY <2>1, <2>2 DEF QueueInv, IndInv, Trading, Callback
  <2>4. m \in Priority!Candidates /\ \A n \in Priority!Candidates : Priority!Precedes(m, n)
    BY <2>1, FrontPrecedes
  <2>5. /\ m.id = resting /\ m.price = LevelPrice(idx) /\ m.qty = Level.orders[1].qty
        /\ [m EXCEPT !.qty = @ - q].qty = m.qty - q
    BY <2>2 DEF Entry
  <2>6. RestingSet' = (RestingSet \ {m}) \cup {n \in {[m EXCEPT !.qty = @ - q]} : n.qty > 0}
    <3>1. CASE q >= Level.orders[1].qty
      <4>1. TakesOut(Book, idx, 1)
        BY <3>1, <1>4 DEF Settle, TakesOut
      <4>2. RestingSet' = RestingSet \ {m}
        BY <4>1, <1>1, <2>2, RemoveResting
      <4>3. ~([m EXCEPT !.qty = @ - q].qty > 0)
        BY <3>1, <2>2, <2>5
      <4> QED
        BY <4>2, <4>3
    <3>2. CASE ~(q >= Level.orders[1].qty)
      <4>1. Reduces(Book, idx, q)
        BY <3>2, <1>4 DEF Settle, Reduces
      <4>2. RestingSet' = (RestingSet \ {m}) \cup {[m EXCEPT !.qty = @ - q]}
        BY <4>1, <1>1, <2>2, ReduceResting
      <4>3. [m EXCEPT !.qty = @ - q].qty > 0
        BY <3>2, <2>2, <2>5
      <4> QED
        BY <4>2, <4>3
    <3> QED
      BY <3>1, <3>2
  <2>7. Priority!Min({incoming.qty, m.qty}) = q
    BY <2>2, <2>3, <2>5 DEF Priority!Min
  <2>8. incoming.qty > 0 /\ next_id' - 1 = next_id - 1
    BY <2>1, <2>2, <2>3
  <2>9. last_trade' = [taker |-> incoming.id, maker |-> m.id, price |-> m.price, qty |-> q]
    BY <2>1, <2>3, <2>5
  <2> HIDE DEF m, q
  <2>10. Priority!Trade(m)
    BY <2>1, <2>4, <2>6, <2>7, <2>8, <2>9, Zenon DEF Priority!Trade
  <2> QED
    BY <2>4, <2>10
<1>5. ASSUME Rest PROVE Priority!Rest
  <2> DEFINE s == incoming.side
             i == PriceToIndex(incoming.price)
  <2>1. /\ phase = "match" /\ ~Crosses(incoming) /\ incoming' = NoOrder
        /\ incoming.qty > 0 /\ incoming.type = "Limit"
        /\ Joins(s, i, incoming.id, incoming.qty)
        /\ next_id' = next_id /\ last_trade' = last_trade
    BY <1>5 DEF Rest, Return, Joins, histVars
  <2>2. s \in Sides /\ i \in Idx /\ LevelPrice(i) = incoming.price
    BY <2>1, <1>1, IncomingType DEF InCall
  <2>3. Priority!Candidates = {}
    BY <2>1, NoCandidates
  <2> HIDE DEF s, i
  <2>4. RestingSet' = RestingSet \cup
          {[id |-> incoming.id, side |-> s, price |-> LevelPrice(i), qty |-> incoming.qty]}
    BY <2>1, <2>2, <1>1, JoinResting
  <2>5. RestingSet' = RestingSet \cup
          {[id |-> incoming.id, side |-> incoming.side,
            price |-> incoming.price, qty |-> incoming.qty]}
    BY <2>2, <2>4 DEF s
  <2> QED
    BY <2>1, <2>3, <2>5 DEF Priority!Rest
<1>6. ASSUME Discard PROVE Priority!Drop
  <2>1. /\ phase = "match" /\ ~Crosses(incoming) /\ incoming' = NoOrder
        /\ incoming.qty = 0 \/ incoming.type = "Market"
        /\ levels' = levels /\ next_id' = next_id /\ last_trade' = last_trade
    BY <1>6 DEF Discard, Return, bookVars, histVars
  <2>2. incoming # NoOrder /\ incoming.qty \in Nat
    BY <2>1, <1>1, IncomingType DEF InCall
  <2>3. incoming.qty = 0 \/ Priority!Candidates = {}
    BY <2>1, <2>2, NoCandidates
  <2>4. RestingSet' = RestingSet
    BY <2>1 DEF RestingSet
  <2> QED
    BY <2>1, <2>2, <2>3, <2>4 DEF Priority!Drop
<1>7. ASSUME NEW id \in Ids, CancelOrder(id)
      PROVE  \E m \in RestingSet : Priority!Withdraw(m)
  <2>1. CancelEffect(id) /\ UNCHANGED <<incoming, next_id, last_trade>>
    BY <1>7 DEF CancelOrder, callVars, histVars
  <2>2. PICK s \in Sides, i \in Idx : \E k \in DOMAIN Queue(s, i) : TakesOut(s, i, k)
    BY <2>1, <1>1, CancelTakesOut
  <2>3. PICK k \in DOMAIN Queue(s, i) : TakesOut(s, i, k)
    BY <2>2
  <2> DEFINE m == Entry(s, i, Queue(s, i)[k])
  <2>4. RestingSet' = RestingSet \ {m}
    BY <2>3, <1>1, RemoveResting
  <2>5. m \in RestingSet
    BY InRestingSet
  <2> HIDE DEF m
  <2> QED
    BY <2>1, <2>4, <2>5 DEF Priority!Withdraw
<1>8. ASSUME EnterLevel \/ ReportTaker \/ ReportMaker \/ LeaveLevel \/ UNCHANGED vars
      PROVE  Stutter
  <2>1. UNCHANGED <<levels, incoming, next_id, last_trade>>
    BY <1>8 DEF EnterLevel, ReportTaker, ReportMaker, LeaveLevel, vars,
                bookVars, callVars, histVars
  <2> QED
    BY <2>1, <1>2
<1> HIDE DEF Stutter
<1>9. Stutter \/ Priority!Next
  BY <1>3, <1>4, <1>5, <1>6, <1>7, <1>8 DEF Next, Match, Priority!Next
<1> QED
  BY <1>9 DEF Stutter

\* The arrays, caches and map implement price-time priority: every trade is
\* made with the best order of the other side, the oldest first, and only what
\* crosses nothing rests (order_book.cpp:97 to 154).
THEOREM ImplementsPriceTime == Spec => RefinesPriceTime
<1>1. Init => Priority!Init
  <2> SUFFICES ASSUME Init PROVE Priority!Init
    OBVIOUS
  <2>1. \A s \in Sides, i \in Idx : DOMAIN Queue(s, i) = {}
    BY DEF Init, Queue, EmptyLevel
  <2>2. RestingSet = {}
    BY <2>1, InRestingSet
  <2> QED
    BY <2>2 DEF Init, Priority!Init
<1>2. QueueInv /\ [Next]_vars
        => [Priority!Next]_<<RestingSet, incoming, next_id - 1, last_trade>>
  BY StepRefines
<1> QED
  BY <1>1, <1>2, QueueInductive, PTL DEF Spec, RefinesPriceTime, Priority!Spec

-----------------------------------------------------------------------------
(* The matching loops end                                                  *)

\* The steps of match() up to the next trade or the return, at most.
Ahead ==
  IF phase = "level" /\ (IsEmpty(Level) \/ incoming.qty = 0) THEN 5
  ELSE [match |-> 4, level |-> 3, taker |-> 2, maker |-> 1, idle |-> 0][phase]

\* The steps up to the return: five for each unit that is left to trade.
Remaining == 5 * incoming.qty + Ahead

\* Every step of match() brings the return nearer, and no callback puts it off.
NearerTheEnd ==
  /\ Match => Remaining' < Remaining
  /\ phase # "idle" => Remaining' <= Remaining

\* What remains is a number of steps.
LEMMA RemainingType ==
  ASSUME IndInv
  PROVE  /\ incoming.qty \in Nat /\ Ahead \in 0 .. 5 /\ Remaining \in Nat
         /\ Remaining = 0 <=> phase = "idle"
<1>1. incoming.qty \in Nat /\ (phase = "idle" => incoming.qty = 0)
  <2>1. CASE phase = "idle"
    BY <2>1 DEF IndInv, InCall, NoOrder
  <2>2. CASE phase # "idle"
    BY <2>2, IncomingType
  <2> QED
    BY <2>1, <2>2
<1>2. phase \in {"idle", "match", "level", "taker", "maker"}
  BY DEF IndInv, TypeOK
<1>3. Ahead \in 0 .. 5 /\ (Ahead = 0 <=> phase = "idle")
  BY <1>2 DEF Ahead
<1> QED
  BY <1>1, <1>3 DEF Remaining

\* The level that match() enters is not empty: the best price is exact.
LEMMA EntersOrders ==
  ASSUME IndInv, EnterLevel
  PROVE  ~IsEmpty(Level')
<1>1. /\ phase = "match" /\ best[Book] >= 0 /\ idx' = PriceToIndex(best[Book])
      /\ levels' = levels /\ incoming' = incoming
  BY DEF EnterLevel, Crosses, Book, bookVars
<1>2. Book \in Sides
  BY <1>1, IncomingType
<1>3. IsBest(Book, levels[Book], best[Book])
  BY <1>1, <1>2 DEF IndInv, BestIsExact
<1>4. PICK i \in Idx : best[Book] = LevelPrice(i) /\ ~IsEmpty(levels[Book][i])
  BY <1>1, <1>3 DEF IsBest, NoPrice
<1>5. idx' = i
  BY <1>1, <1>4, LevelPrices
<1>6. Level' = levels[Book][i]
  BY <1>1, <1>5 DEF Level, Book
<1> QED
  BY <1>4, <1>6

\* A step of match() trades, or goes on to the next step on the way to a trade.
LEMMA StepNearer == IndInv /\ [Next]_vars => NearerTheEnd
<1> SUFFICES ASSUME IndInv, [Next]_vars PROVE NearerTheEnd
  OBVIOUS
<1>1. incoming.qty \in Nat /\ Ahead \in 0 .. 5
  BY RemainingType
<1>2. ASSUME EnterLevel
      PROVE  Remaining' \in Int /\ Remaining' < Remaining
  <2>1. incoming' = incoming /\ incoming.qty # 0
    BY <1>2 DEF EnterLevel, Crosses
  <2>2. Ahead = 4 /\ Ahead' = 3
    BY <1>2, <2>1, EntersOrders DEF EnterLevel, Ahead
  <2> QED
    BY <1>1, <2>1, <2>2 DEF Remaining
<1>3. ASSUME ReportTaker
      PROVE  Remaining' \in Int /\ Remaining' < Remaining
  <2>1. incoming' = incoming /\ Ahead = 3 /\ Ahead' = 2
    BY <1>1, <1>3 DEF ReportTaker, Ahead
  <2> QED
    BY <1>1, <2>1 DEF Remaining
<1>4. ASSUME ReportMaker
      PROVE  Remaining' \in Int /\ Remaining' < Remaining
  <2>1. incoming' = incoming /\ Ahead = 2 /\ Ahead' = 1
    BY <1>4 DEF ReportMaker, Ahead
  <2> QED
    BY <1>1, <2>1 DEF Remaining
<1>5. ASSUME Settle
      PROVE  Remaining' \in Int /\ Remaining' < Remaining
  <2>1. Ahead = 1 /\ fill.qty \in 1 .. incoming.qty /\ phase # "idle"
    BY <1>5 DEF Settle, Ahead, IndInv, Callback
  <2>2. incoming'.qty = incoming.qty - fill.qty
    BY <1>5, <2>1, IncomingType DEF Settle, Order
  <2>3. Ahead' \in {3, 5}
    BY <1>5 DEF Settle, Ahead
  <2> QED
    BY <1>1, <2>1, <2>2, <2>3 DEF Remaining
<1>6. ASSUME LeaveLevel
      PROVE  Remaining' \in Int /\ Remaining' < Remaining
  <2>1. incoming' = incoming /\ Ahead = 5 /\ Ahead' = 4
    BY <1>6 DEF LeaveLevel, Ahead
  <2> QED
    BY <1>1, <2>1 DEF Remaining
<1>7. ASSUME Rest \/ Discard
      PROVE  Remaining' \in Int /\ Remaining' < Remaining
  <2>1. incoming'.qty = 0 /\ Ahead = 4 /\ Ahead' = 0
    BY <1>7 DEF Rest, Discard, Return, NoOrder, Ahead
  <2> QED
    BY <1>1, <2>1 DEF Remaining
<1>8. Match => Remaining' \in Int /\ Remaining' < Remaining
  BY <1>2, <1>3, <1>4, <1>5, <1>6, <1>7 DEF Match
<1>9. ASSUME NEW id \in Ids, CancelOrder(id), phase # "idle"
      PROVE  Remaining' = Remaining
  <2>1. phase \in {"taker", "maker"} /\ phase' = phase /\ incoming' = incoming
    BY <1>9 DEF CancelOrder, MayCancel, callVars
  <2>2. Ahead' = Ahead
    BY <2>1 DEF Ahead
  <2> QED
    BY <2>1, <2>2 DEF Remaining
<1>10. ASSUME UNCHANGED vars PROVE Remaining' = Remaining
  BY <1>10 DEF vars, bookVars, callVars, Remaining, Ahead, Level, Book
<1>11. ASSUME phase # "idle" PROVE Remaining' <= Remaining
  <2>1. \A r \in Requests : ~AddOrder(r)
    BY <1>11 DEF AddOrder
  <2>2. Match \/ Remaining' = Remaining
    BY <1>9, <1>10, <1>11, <2>1 DEF Next
  <2>3. Remaining \in Nat
    BY RemainingType
  <2> QED
    BY <1>8, <2>2, <2>3
<1> QED
  BY <1>8, <1>11 DEF NearerTheEnd

\* add_order returns: whatever the callbacks cancel, the loops of match()
\* take at most five steps for each unit of the order and four to leave
\* (order_book.cpp:97 to 154).
THEOREM MatchingEnds ==
  Spec => /\ [](Remaining \in Nat /\ (Remaining = 0 <=> phase = "idle"))
          /\ [][NearerTheEnd]_vars
<1>1. IndInv => Remaining \in Nat /\ (Remaining = 0 <=> phase = "idle")
  BY RemainingType
<1> QED
  BY <1>1, StepNearer, Inductive, PTL DEF Spec
=============================================================================
