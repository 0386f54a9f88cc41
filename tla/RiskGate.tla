------------------------------ MODULE RiskGate ------------------------------
(***************************************************************************)
(* RiskGate of include/risk/risk_gate.h and src/risk/risk_gate.cpp: the    *)
(* check every order passes before it reaches the book, and the state it   *)
(* keeps for it: net position, a counter of the orders of this second, the *)
(* resting orders known to it.                                             *)
(*                                                                         *)
(* Each operator below changes the variables that its C++ method changes   *)
(* and says nothing of the others, so that TradingEngine can put several   *)
(* calls of one handler into one step; the actions at the end combine them *)
(* the way the engine's methods call them.  steady_clock is the variable   *)
(* now, Second units of which make a second.                               *)
(***************************************************************************)
EXTENDS Integers, Functions

CONSTANTS
  OrderIds,               \* ids of the orders submitted
  Offers,                 \* what may be submitted: [side, type, price, qty]
  MaxPosition,            \* RiskConfig::max_position
  MaxOrdersPerSecond,     \* RiskConfig::max_orders_per_second
  MaxCancelPercent,       \* RiskConfig::max_cancel_ratio, in percent
  CheckSelfTrade,         \* RiskConfig::check_self_trade
  Second,                 \* clock units in a second
  MaxTime,                \* bound of the model on the clock
  MaxAttempts,            \* bound of the model on the checks in one window
  PositionBound           \* bound of the model on the position

ASSUME RiskAssumption ==
  /\ OrderIds \subseteq Nat \ {0}
  /\ MaxPosition \in Nat /\ MaxOrdersPerSecond \in Nat /\ MaxCancelPercent \in Nat
  /\ CheckSelfTrade \in BOOLEAN
  /\ Second \in Nat \ {0} /\ MaxTime \in Nat
  /\ MaxAttempts \in Nat /\ PositionBound \in Nat

ASSUME OfferAssumption ==
  \A r \in Offers : /\ r.side \in {"Buy", "Sell"}
                    /\ r.type \in {"Limit", "Market", "Cancel"}
                    /\ r.price \in Nat /\ r.qty \in Nat

VARIABLES
  position,            \* net position
  orders_this_second,  \* checks made in the current window
  last_rate_reset,     \* when the current window began
  total_orders,        \* orders that passed
  total_cancels,       \* cancels counted
  active_orders,       \* id -> [side, price] of a tracked order, or Untracked
  now,                 \* the clock
  accepted             \* history: time -> orders passed then, since reset()

rateVars == <<orders_this_second, last_rate_reset>>
gateVars == <<position, rateVars, total_orders, total_cancels, active_orders, accepted>>

Untracked == [side |-> "none", price |-> -1]
Tracked == {id \in OrderIds : active_orders[id] # Untracked}
Times == 0 .. MaxTime

\* The default time_point is the clock's epoch: long before the first order.
Init ==
  /\ position = 0
  /\ orders_this_second = 0 /\ last_rate_reset = -Second
  /\ total_orders = 0 /\ total_cancels = 0
  /\ active_orders = [id \in OrderIds |-> Untracked]
  /\ now = 0
  /\ accepted = [t \in Times |-> 0]

-----------------------------------------------------------------------------
(* check                                                                   *)

\* The checks already counted in the window that a check made now belongs to.
Restarts == now - last_rate_reset >= Second
InWindow == IF Restarts THEN 0 ELSE orders_this_second

\* Fault: the window's start is not moved when its counter restarts.
CountOrderKeepsWindow ==
  /\ orders_this_second' = InWindow + 1
  /\ UNCHANGED last_rate_reset

\* Fault: the end of the window is stored instead of its start.
CountOrderStoresEnd ==
  /\ orders_this_second' = InWindow + 1
  /\ last_rate_reset' = IF Restarts THEN now + Second ELSE last_rate_reset

\* The effect of check_order_rate: every attempt counts, passed or not.
CountOrder ==
  /\ orders_this_second' = InWindow + 1
  /\ last_rate_reset' = IF Restarts THEN now ELSE last_rate_reset

RateOk == orders_this_second' <= MaxOrdersPerSecond

Signed(side, qty) == IF side = "Buy" THEN qty ELSE -qty

PositionOk(o) ==
  LET projected == position + Signed(o.side, o.qty) IN
  projected <= MaxPosition /\ -projected <= MaxPosition

CancelRateOk(o) ==
  o.type = "Cancel" /\ total_orders # 0 =>
    total_cancels * 100 <= MaxCancelPercent * total_orders

\* Fault: an order exactly at a tracked price is let through.
CrossesTrackedStrictly(o, entry) ==
  /\ entry.side # o.side
  /\ \/ o.type = "Market"
     \/ o.side = "Buy" /\ entry.price < o.price
     \/ o.side = "Sell" /\ entry.price > o.price

\* Whether order o could trade with a tracked order.
CrossesTracked(o, entry) ==
  /\ entry.side # o.side
  /\ \/ o.type = "Market"
     \/ o.side = "Buy" /\ entry.price <= o.price
     \/ o.side = "Sell" /\ entry.price >= o.price

SelfTradeOk(o) ==
  CheckSelfTrade => \A id \in Tracked : ~CrossesTracked(o, active_orders[id])

Passes(o) == RateOk /\ PositionOk(o) /\ CancelRateOk(o) /\ SelfTradeOk(o)

\* The position, the tracked orders and the cancel count are only read.
Check(o) ==
  /\ CountOrder
  /\ IF Passes(o)
     THEN /\ total_orders' = total_orders + 1
          /\ accepted' = [accepted EXCEPT ![now] = @ + 1]
     ELSE UNCHANGED <<total_orders, accepted>>
  /\ UNCHANGED total_cancels

-----------------------------------------------------------------------------
(* The other methods                                                       *)

TrackOrder(id, o) ==
  active_orders' = [active_orders EXCEPT ![id] = [side |-> o.side, price |-> o.price]]

UntrackOrders(ids) ==
  active_orders' = [id \in OrderIds |-> IF id \in ids THEN Untracked ELSE active_orders[id]]

OnFill(side, filled_quantity) == position' = position + Signed(side, filled_quantity)

Reset ==
  /\ position' = 0
  /\ orders_this_second' = 0 /\ last_rate_reset' = now
  /\ total_orders' = 0 /\ total_cancels' = 0
  /\ active_orders' = [id \in OrderIds |-> Untracked]
  /\ accepted' = [t \in Times |-> 0]
  /\ UNCHANGED now

Advance ==
  /\ now < MaxTime
  /\ now' = now + 1
  /\ UNCHANGED gateVars

-----------------------------------------------------------------------------
(* The gate as TradingEngine uses it, for any strategy and any book.       *)

\* submit_order: check, then track a limit order that passed.
Submit(id, o) ==
  /\ InWindow < MaxAttempts
  /\ id \notin Tracked
  /\ Check(o)
  /\ IF Passes(o) /\ o.type = "Limit" THEN TrackOrder(id, o) ELSE UNCHANGED active_orders
  /\ UNCHANGED <<position, now>>

\* on_fill, for a report to the maker or to the taker.
ReportFill(id, side, qty, is_maker) ==
  /\ OnFill(side, qty)
  /\ position' \in -PositionBound .. PositionBound
  /\ UntrackOrders(IF is_maker THEN {id} ELSE {})
  /\ UNCHANGED <<rateVars, total_orders, total_cancels, now, accepted>>

\* cancel_order.
Cancel(id) ==
  /\ UntrackOrders({id})
  /\ UNCHANGED <<position, rateVars, total_orders, total_cancels, now, accepted>>

Next ==
  \/ \E id \in OrderIds, o \in Offers : Submit(id, o)
  \/ \E id \in OrderIds, side \in {"Buy", "Sell"}, is_maker \in BOOLEAN :
       ReportFill(id, side, 1, is_maker)
  \/ \E id \in OrderIds : Cancel(id)
  \/ Reset
  \/ Advance

vars == <<gateVars, now>>

Spec == Init /\ [][Next]_vars

-----------------------------------------------------------------------------
(* Properties                                                              *)

TypeOK ==
  /\ position \in Int
  /\ orders_this_second \in Nat
  /\ last_rate_reset \in Times \cup {-Second}
  /\ total_orders \in Nat /\ total_cancels \in Nat
  /\ active_orders \in [OrderIds -> [side : {"Buy", "Sell"}, price : Nat] \cup {Untracked}]
  /\ now \in Times
  /\ accepted \in [Times -> Nat]

\* Orders passed in the second that begins at time t.
PassedFrom(t) == SumFunctionOnSet(accepted, {u \in Times : t <= u /\ u < t + Second})

\* check_order_rate (risk_gate.cpp:71) bounds the flow of orders: whatever the
\* instants of the attempts, no second sees more than twice the configured
\* number pass, the most that two adjacent windows can hold.  A reset() allows
\* that many anew: orders passed before the last one are not counted here.
RateBounded == \A t \in Times : PassedFrom(t) <= 2 * MaxOrdersPerSecond

\* With the check on, the tracked orders never cross one another, whatever the
\* order of submissions, fills and cancels: a book that holds only tracked
\* orders has no trade between them to make (risk_gate.cpp:84).
TrackedUncrossed ==
  CheckSelfTrade =>
    \A b, s \in Tracked :
      active_orders[b].side = "Buy" /\ active_orders[s].side = "Sell" =>
        active_orders[b].price < active_orders[s].price
=============================================================================
