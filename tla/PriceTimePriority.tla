------------------------- MODULE PriceTimePriority -------------------------
(***************************************************************************)
(* What a limit order book promises, without arrays, queues, best-price    *)
(* caches or location maps: the resting orders are a set, and an incoming  *)
(* order trades one resting order at a time, each time with the best price *)
(* on the other side and, at that price, with the order that arrived       *)
(* first.  Ids are handed out in order of arrival.                         *)
(***************************************************************************)
EXTENDS Integers, FiniteSetsExt

CONSTANTS
  Requests,   \* the orders that may be submitted: [side, type, price, qty]
  MaxOrders,  \* bound of the model: orders submitted in a behaviour
  NoOrder, NoTrade

VARIABLES
  book,       \* resting orders: [id, side, price, qty]
  taker,      \* the order being executed, or NoOrder
  latest,     \* id of the last order submitted
  last_trade  \* [taker, maker, price, qty]

Init ==
  /\ book = {}
  /\ taker = NoOrder
  /\ latest = 0
  /\ last_trade = NoTrade

Acceptable(o, price) == IF o.side = "Buy" THEN price <= o.price ELSE price >= o.price

\* The resting orders the taker may trade with.
Candidates == {m \in book : m.side # taker.side /\ Acceptable(taker, m.price)}

\* Price priority, then time priority.
Precedes(m, n) ==
  \/ m.side = "Sell" /\ m.price < n.price
  \/ m.side = "Buy" /\ m.price > n.price
  \/ m.price = n.price /\ m.id <= n.id

Submit(r) ==
  /\ taker = NoOrder
  /\ latest < MaxOrders
  /\ latest' = latest + 1
  /\ taker' = [id |-> latest', side |-> r.side, type |-> r.type,
               price |-> r.price, qty |-> r.qty]
  /\ UNCHANGED <<book, last_trade>>

Trade(m) ==
  LET q == Min({taker.qty, m.qty}) IN
  /\ taker.qty > 0
  /\ \A n \in Candidates : Precedes(m, n)
  /\ taker' = [taker EXCEPT !.qty = @ - q]
  /\ book' = (book \ {m}) \cup {n \in {[m EXCEPT !.qty = @ - q]} : n.qty > 0}
  /\ last_trade' = [taker |-> taker.id, maker |-> m.id, price |-> m.price, qty |-> q]
  /\ UNCHANGED latest

\* The taker rests only when nobody is left to trade with.
Rest ==
  /\ taker.type = "Limit" /\ taker.qty > 0 /\ Candidates = {}
  /\ book' = book \cup {[id |-> taker.id, side |-> taker.side,
                         price |-> taker.price, qty |-> taker.qty]}
  /\ taker' = NoOrder
  /\ UNCHANGED <<latest, last_trade>>

Drop ==
  /\ taker # NoOrder
  /\ \/ taker.qty = 0
     \/ taker.type = "Market" /\ Candidates = {}
  /\ taker' = NoOrder
  /\ UNCHANGED <<book, latest, last_trade>>

Withdraw(m) ==
  /\ book' = book \ {m}
  /\ UNCHANGED <<taker, latest, last_trade>>

Next ==
  \/ \E r \in Requests : Submit(r)
  \/ \E m \in Candidates : Trade(m)
  \/ Rest
  \/ Drop
  \/ \E m \in book : Withdraw(m)

Spec == Init /\ [][Next]_<<book, taker, latest, last_trade>>
=============================================================================
