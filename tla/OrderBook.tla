----------------------------- MODULE OrderBook -----------------------------
(***************************************************************************)
(* OrderBook of include/orderbook/order_book.h and src/orderbook/          *)
(* order_book.cpp: two arrays of price levels, a cached best price on each *)
(* side and a map from order ids to locations.                             *)
(*                                                                         *)
(* add_order is not atomic here.  match() calls the fill callback twice    *)
(* per trade, and a callback may cancel orders in the middle of the loop:  *)
(* the local variables of match() are part of the state (phase, incoming,  *)
(* idx, resting, fill) and Cancel is enabled while a callback runs.        *)
(*                                                                         *)
(* The code treats the two sides by symmetric copies of each function;     *)
(* here the side is a parameter: levels["Buy"] is bids_, best["Sell"] is   *)
(* best_ask_.                                                              *)
(***************************************************************************)
EXTENDS Integers, Sequences, SequencesExt

CONSTANTS
  MinPrice, MaxPrice, TickSize,  \* OrderBookConfig
  Requests,   \* the orders that may be added: [side, type, price, qty]
  MaxOrders   \* bound of the model: orders added in a behaviour

ASSUME ConfigAssumption ==
  /\ MinPrice \in Nat /\ MaxPrice \in Nat /\ MinPrice <= MaxPrice
  /\ TickSize \in Nat \ {0}

\* add_order() checks nothing: a limit price must lie on the grid (a price
\* off it indexes outside bids_), and quantities are positive.
ASSUME RequestAssumption ==
  \A r \in Requests :
    /\ r.side \in {"Buy", "Sell"} /\ r.type \in {"Limit", "Market"}
    /\ r.price \in Nat /\ r.qty \in Nat \ {0}
    /\ r.type = "Limit" => /\ r.price >= MinPrice /\ r.price <= MaxPrice
                           /\ (r.price - MinPrice) % TickSize = 0

ASSUME MaxOrdersAssumption == MaxOrders \in Nat

VARIABLES
  levels,     \* side -> index -> [total_quantity, orders], orders of [id, qty]
  best,       \* side -> best_bid_ / best_ask_, NoPrice for none
  order_map,  \* id -> location of the resting order, or NoLoc
  phase,      \* where match() stands
  incoming,   \* the order being added
  idx,        \* index of the level being matched
  resting,    \* id of the order that the reference `resting` is bound to
  fill,       \* [qty, price] of the trade in progress
  next_id,    \* the next fresh order id
  ordered,    \* history: id -> quantity it was added with
  reported,   \* history: id -> quantity reported as filled
  last_trade  \* history: the last trade booked

bookVars == <<levels, best, order_map>>
callVars == <<phase, incoming, idx, resting, fill>>
histVars == <<ordered, reported, last_trade>>
vars == <<bookVars, callVars, next_id, histVars>>

Sides == {"Buy", "Sell"}
Opposite(s) == IF s = "Buy" THEN "Sell" ELSE "Buy"
NoPrice == -1
NoLoc == [side |-> "none", idx |-> -1]
NoOrder == [id |-> 0, side |-> "none", type |-> "none", price |-> NoPrice, qty |-> 0]
NoTrade == [taker |-> 0, maker |-> 0, price |-> NoPrice, qty |-> 0]

NumLevels == ((MaxPrice - MinPrice) \div TickSize) + 1
Idx == 0 .. NumLevels - 1
PriceToIndex(p) == (p - MinPrice) \div TickSize
LevelPrice(i) == MinPrice + i * TickSize
Ids == 1 .. MaxOrders

Better(s, p, q) == IF s = "Buy" THEN p > q ELSE p < q

EmptyLevel == [total_quantity |-> 0, orders |-> << >>]
IsEmpty(level) == level.orders = << >>

Init ==
  /\ levels = [s \in Sides |-> [i \in Idx |-> EmptyLevel]]
  /\ best = [s \in Sides |-> NoPrice]
  /\ order_map = [id \in Ids |-> NoLoc]
  /\ phase = "idle" /\ incoming = NoOrder /\ idx = 0 /\ resting = 0
  /\ fill = [qty |-> 0, price |-> NoPrice]
  /\ next_id = 1
  /\ ordered = [id \in Ids |-> 0] /\ reported = [id \in Ids |-> 0]
  /\ last_trade = NoTrade

-----------------------------------------------------------------------------
(* PriceLevel                                                              *)

\* Fault: the new order goes to the front of the queue.
EnqueueFront(level, id, qty) ==
  [total_quantity |-> level.total_quantity + qty,
   orders |-> << [id |-> id, qty |-> qty] >> \o level.orders]

Enqueue(level, id, qty) ==
  [total_quantity |-> level.total_quantity + qty,
   orders |-> Append(level.orders, [id |-> id, qty |-> qty])]

\* erase(it) and, for k = 1, remove_front().
Erase(level, k) ==
  [total_quantity |-> level.total_quantity - level.orders[k].qty,
   orders |-> RemoveAt(level.orders, k)]

\* Fault: a partial fill is not taken off the level's total.
ReduceFrontKeepsTotal(level, filled) ==
  [level EXCEPT !.orders[1].qty = @ - filled]

ReduceFront(level, filled) ==
  [total_quantity |-> level.total_quantity - filled,
   orders |-> [level.orders EXCEPT ![1].qty = @ - filled]]

(* update_best_bid_after_empty and update_best_ask_after_empty scan away   *)
(* from the exhausted level to the first one that is not empty.            *)
Behind(s, i) == {j \in Idx : Better(s, LevelPrice(i), LevelPrice(j))}

IsNextBest(s, side_levels, i, p) ==
  \/ /\ p = NoPrice
     /\ \A j \in Behind(s, i) : IsEmpty(side_levels[j])
  \/ \E j \in Behind(s, i) :
       /\ p = LevelPrice(j)
       /\ ~IsEmpty(side_levels[j])
       /\ \A k \in Behind(s, i) : ~IsEmpty(side_levels[k]) => ~Better(s, LevelPrice(k), p)

Prices == {LevelPrice(i) : i \in Idx}

UpdateBestAfterEmpty(s, i) ==
  \E p \in Prices \cup {NoPrice} :
    /\ IsNextBest(s, levels'[s], i, p)
    /\ best' = [best EXCEPT ![s] = p]

-----------------------------------------------------------------------------
(* add_order and match                                                     *)

\* Fault: an order at the touch does not trade.
CrossesStrictly(o) ==
  LET touch == best[Opposite(o.side)] IN
  /\ o.qty > 0
  /\ touch >= 0
  /\ Better(o.side, o.price, touch)

Crosses(o) ==
  LET touch == best[Opposite(o.side)] IN
  /\ o.qty > 0
  /\ touch >= 0
  /\ ~Better(o.side, touch, o.price)

\* The level match() works on: the other side of the incoming order.
Book == Opposite(incoming.side)
Level == levels[Book][idx]

AddOrder(r) ==
  /\ phase = "idle"
  /\ next_id <= MaxOrders
  /\ incoming' = [id |-> next_id, side |-> r.side, type |-> r.type,
                  price |-> r.price, qty |-> r.qty]
  /\ phase' = "match"
  /\ next_id' = next_id + 1
  /\ ordered' = [ordered EXCEPT ![next_id] = r.qty]
  /\ UNCHANGED <<bookVars, idx, resting, fill, reported, last_trade>>

\* The outer while: the best opposite level is reached by the order.
EnterLevel ==
  /\ phase = "match"
  /\ Crosses(incoming)
  /\ idx' = PriceToIndex(best[Book])
  /\ phase' = "level"
  /\ UNCHANGED <<bookVars, incoming, resting, fill, next_id, histVars>>

Report(id) == reported' = [reported EXCEPT ![id] = @ + fill'.qty]

\* Fault: the newest order of the level is bound.
ReportTakerNewest ==
  /\ phase = "level"
  /\ ~IsEmpty(Level) /\ incoming.qty > 0
  /\ LET newest == Last(Level.orders) IN
     /\ resting' = newest.id
     /\ fill' = [qty |-> Min({incoming.qty, newest.qty}), price |-> best[Book]]
  /\ Report(incoming.id)
  /\ phase' = "taker"
  /\ UNCHANGED <<bookVars, incoming, idx, next_id, ordered, last_trade>>

\* Fault: the whole incoming quantity is announced.
ReportTakerWhole ==
  /\ phase = "level"
  /\ ~IsEmpty(Level) /\ incoming.qty > 0
  /\ resting' = Level.orders[1].id
  /\ fill' = [qty |-> incoming.qty, price |-> best[Book]]
  /\ Report(incoming.id)
  /\ phase' = "taker"
  /\ UNCHANGED <<bookVars, incoming, idx, next_id, ordered, last_trade>>

\* The inner while: bind the front order, fix fill_qty, and report to the
\* taker; the callback runs while phase is "taker".
ReportTaker ==
  /\ phase = "level"
  /\ ~IsEmpty(Level) /\ incoming.qty > 0
  /\ resting' = Level.orders[1].id
  /\ fill' = [qty |-> Min({incoming.qty, Level.orders[1].qty}), price |-> best[Book]]
  /\ Report(incoming.id)
  /\ phase' = "taker"
  /\ UNCHANGED <<bookVars, incoming, idx, next_id, ordered, last_trade>>

\* The report to the maker; the callback runs while phase is "maker".
ReportMaker ==
  /\ phase = "taker"
  /\ fill' = [fill EXCEPT !.price = best[Book]]
  /\ Report(resting)
  /\ phase' = "maker"
  /\ UNCHANGED <<bookVars, incoming, idx, resting, next_id, ordered, last_trade>>

\* Fault: a resting order filled exactly is only reduced.
SettleKeepsFilled ==
  /\ phase = "maker"
  /\ incoming' = [incoming EXCEPT !.qty = @ - fill.qty]
  /\ levels' = [levels EXCEPT ![Book][idx] = ReduceFront(@, fill.qty)]
  /\ last_trade' = [taker |-> incoming.id, maker |-> resting,
                    price |-> fill.price, qty |-> fill.qty]
  /\ phase' = "level"
  /\ UNCHANGED <<order_map, best, idx, resting, fill, next_id, ordered, reported>>

\* Fault: a filled order stays in the map.
SettleKeepsLocation ==
  /\ phase = "maker"
  /\ incoming' = [incoming EXCEPT !.qty = @ - fill.qty]
  /\ IF fill.qty >= Level.orders[1].qty
     THEN levels' = [levels EXCEPT ![Book][idx] = Erase(@, 1)]
     ELSE levels' = [levels EXCEPT ![Book][idx] = ReduceFront(@, fill.qty)]
  /\ last_trade' = [taker |-> incoming.id, maker |-> resting,
                    price |-> fill.price, qty |-> fill.qty]
  /\ phase' = "level"
  /\ UNCHANGED <<order_map, best, idx, resting, fill, next_id, ordered, reported>>

\* After both callbacks the trade is booked: on the front of the level.
Settle ==
  /\ phase = "maker"
  /\ incoming' = [incoming EXCEPT !.qty = @ - fill.qty]
  /\ IF fill.qty >= Level.orders[1].qty
     THEN /\ order_map' = [order_map EXCEPT ![resting] = NoLoc]
          /\ levels' = [levels EXCEPT ![Book][idx] = Erase(@, 1)]
     ELSE /\ levels' = [levels EXCEPT ![Book][idx] = ReduceFront(@, fill.qty)]
          /\ UNCHANGED order_map
  /\ last_trade' = [taker |-> incoming.id, maker |-> resting,
                    price |-> fill.price, qty |-> fill.qty]
  /\ phase' = "level"
  /\ UNCHANGED <<best, idx, resting, fill, next_id, ordered, reported>>

\* Fault: the best price is left at the level that was emptied.
LeaveLevelKeepsBest ==
  /\ phase = "level"
  /\ IsEmpty(Level) \/ incoming.qty = 0
  /\ phase' = "match"
  /\ UNCHANGED <<bookVars, incoming, idx, resting, fill, next_id, histVars>>

\* The end of the inner while.
LeaveLevel ==
  /\ phase = "level"
  /\ IsEmpty(Level) \/ incoming.qty = 0
  /\ IF IsEmpty(Level) THEN UNCHANGED levels /\ UpdateBestAfterEmpty(Book, idx)
                       ELSE UNCHANGED <<levels, best>>
  /\ phase' = "match"
  /\ UNCHANGED <<order_map, incoming, idx, resting, fill, next_id, histVars>>

\* add_order returns, its locals are gone.
Return ==
  /\ phase' = "idle" /\ incoming' = NoOrder /\ idx' = 0 /\ resting' = 0
  /\ fill' = [qty |-> 0, price |-> NoPrice]

\* What is left of a limit order joins its level.
Rest ==
  LET s == incoming.side
      i == PriceToIndex(incoming.price)
  IN
  /\ phase = "match"
  /\ ~Crosses(incoming)
  /\ incoming.qty > 0 /\ incoming.type = "Limit"
  /\ levels' = [levels EXCEPT ![s][i] = Enqueue(@, incoming.id, incoming.qty)]
  /\ order_map' = [order_map EXCEPT ![incoming.id] = [side |-> s, idx |-> i]]
  /\ best' = IF best[s] < 0 \/ Better(s, incoming.price, best[s])
             THEN [best EXCEPT ![s] = incoming.price] ELSE best
  /\ Return
  /\ UNCHANGED <<next_id, histVars>>

\* Nothing is left, or what is left of a market order is dropped.
Discard ==
  /\ phase = "match"
  /\ ~Crosses(incoming)
  /\ incoming.qty = 0 \/ incoming.type = "Market"
  /\ Return
  /\ UNCHANGED <<bookVars, next_id, histVars>>

-----------------------------------------------------------------------------
(* cancel_order, which add_order also calls for an order of type Cancel.   *)
(* An id that is not in the map changes nothing.                           *)

\* Fault: a cancel that empties the best level leaves the best price there.
CancelEffectKeepsBest(id) ==
  LET s == order_map[id].side
      i == order_map[id].idx
      level == levels[s][i]
  IN
  /\ order_map[id] # NoLoc
  /\ order_map' = [order_map EXCEPT ![id] = NoLoc]
  /\ \E k \in 1 .. Len(level.orders) :
       /\ level.orders[k].id = id
       /\ levels' = [levels EXCEPT ![s][i] = Erase(@, k)]
  /\ UNCHANGED best

CancelEffect(id) ==
  LET s == order_map[id].side
      i == order_map[id].idx
      level == levels[s][i]
  IN
  /\ order_map[id] # NoLoc
  /\ order_map' = [order_map EXCEPT ![id] = NoLoc]
  /\ \E k \in 1 .. Len(level.orders) :
       /\ level.orders[k].id = id
       /\ levels' = [levels EXCEPT ![s][i] = Erase(@, k)]
  /\ IF IsEmpty(levels'[s][i]) /\ LevelPrice(i) = best[s]
     THEN UpdateBestAfterEmpty(s, i) ELSE UNCHANGED best

\* A callback must leave the order being traded alone: match() holds a
\* reference to it.
MayCancel(id) ==
  \/ phase = "idle"
  \/ phase \in {"taker", "maker"} /\ id # resting

CancelOrder(id) ==
  /\ MayCancel(id)
  /\ CancelEffect(id)
  /\ UNCHANGED <<callVars, next_id, histVars>>

-----------------------------------------------------------------------------
Match == EnterLevel \/ ReportTaker \/ ReportMaker \/ Settle \/ LeaveLevel \/ Rest \/ Discard

Next ==
  \/ \E r \in Requests : AddOrder(r)
  \/ Match
  \/ \E id \in Ids : CancelOrder(id)

Spec == Init /\ [][Next]_vars

\* add_order is a function call: it runs until it returns.
FairSpec == Spec /\ WF_vars(Match)

-----------------------------------------------------------------------------
(* Properties                                                              *)

RestingOrder == [id : Ids, qty : Nat \ {0}]

Order == [id : Ids, side : Sides, type : {"Limit", "Market"}, price : Nat, qty : Nat]

PriceLevel == [total_quantity : Int, orders : Seq(RestingOrder)]

TypeOK ==
  /\ levels \in [Sides -> [Idx -> PriceLevel]]
  /\ best \in [Sides -> Prices \cup {NoPrice}]
  /\ order_map \in [Ids -> [side : Sides, idx : Idx] \cup {NoLoc}]
  /\ phase \in {"idle", "match", "level", "taker", "maker"}
  /\ incoming \in Order \cup {NoOrder}
  /\ idx \in Idx /\ resting \in Ids \cup {0}
  /\ fill \in [qty : Nat, price : Prices \cup {NoPrice}]
  /\ next_id \in 1 .. MaxOrders + 1
  /\ ordered \in [Ids -> Nat] /\ reported \in [Ids -> Nat]

\* p is the best price at which side s of the book holds an order.
IsBest(s, side_levels, p) ==
  \/ p = NoPrice /\ \A i \in Idx : IsEmpty(side_levels[i])
  \/ \E i \in Idx :
       /\ p = LevelPrice(i) /\ ~IsEmpty(side_levels[i])
       /\ \A j \in Idx : Better(s, LevelPrice(j), p) => IsEmpty(side_levels[j])

\* The cached best prices are the true ones whenever anyone can read them: in
\* callbacks too, after cancels made inside the matching loop.  The one moment
\* they lag is between the last trade at a level and the end of its inner loop.
BestIsExact ==
  \A s \in Sides :
    \/ phase = "level" /\ s = Book /\ IsEmpty(Level)
    \/ IsBest(s, levels[s], best[s])

\* No bid rests at or above an ask, not even in the middle of a match.
Uncrossed ==
  \A i, j \in Idx :
    ~IsEmpty(levels["Buy"][i]) /\ ~IsEmpty(levels["Sell"][j]) => i < j

\* quantity_at(): total_quantity is the sum of what rests at the level,
\* through partial fills, full fills and cancels from the middle of the queue.
LevelTotals ==
  \A s \in Sides, i \in Idx :
    LET orders == levels[s][i].orders IN
    levels[s][i].total_quantity = SumFunction([k \in DOMAIN orders |-> orders[k].qty])

\* order_map_ locates exactly the resting orders: a cancel finds every order
\* that rests, and never reaches for a list node that is gone.
MapIsExact ==
  \A s \in Sides, i \in Idx :
    LET orders == levels[s][i].orders IN
    /\ {orders[k].id : k \in DOMAIN orders}
         = {id \in Ids : order_map[id] = [side |-> s, idx |-> i]}
    /\ \A k, l \in DOMAIN orders : orders[k].id = orders[l].id => k = l

\* While a callback runs, the order that match() refers to is still alive and
\* is the front that the booking will take: trade price, level and quantity
\* announced are those that will be booked, whatever the callback cancels.
CallbackSeesRestingOrder ==
  phase \in {"taker", "maker"} =>
    /\ ~IsEmpty(Level)
    /\ Level.orders[1].id = resting
    /\ fill.price = LevelPrice(idx)
    /\ fill.qty \in 1 .. Min({incoming.qty, Level.orders[1].qty})

\* What of an order has been reported and not been booked yet.
Unsettled(id) ==
  IF \/ phase \in {"taker", "maker"} /\ id = incoming.id
     \/ phase = "maker" /\ id = resting
  THEN fill.qty ELSE 0

\* Every unit of an order is resting, still executing or reported as filled;
\* nobody is told of more than was ordered.
QuantityAccounted ==
  /\ \A s \in Sides, i \in Idx : \A k \in DOMAIN levels[s][i].orders :
       LET o == levels[s][i].orders[k] IN
       o.qty + reported[o.id] - Unsettled(o.id) = ordered[o.id]
  /\ incoming # NoOrder =>
       incoming.qty + reported[incoming.id] - Unsettled(incoming.id) = ordered[incoming.id]
  /\ \A id \in Ids : reported[id] <= ordered[id]

\* The resting orders as a set.
RestingSet ==
  UNION {{[id |-> o.id, side |-> s, price |-> LevelPrice(i), qty |-> o.qty] :
            o \in Range(levels[s][i].orders)} : s \in Sides, i \in Idx}

\* The arrays, caches and map implement price-time priority: every trade is
\* at the best price with the oldest order, nothing else trades, and a limit
\* order rests only when nothing crosses it.
Priority ==
  INSTANCE PriceTimePriority
    WITH book <- RestingSet, taker <- incoming, latest <- next_id - 1
RefinesPriceTime == Priority!Spec

\* The matching loops end: add_order returns even if every callback cancels.
AddOrderReturns == phase # "idle" ~> phase = "idle"
=============================================================================
