--------------------------- MODULE SpreadStrategy ---------------------------
(***************************************************************************)
(* SpreadStrategy of include/strategy/spread_strategy.h and                *)
(* src/strategy/spread_strategy.cpp: it quotes a bid and an ask around the *)
(* middle of the market, withdraws the other quote when one is filled, and *)
(* quotes again.                                                           *)
(*                                                                         *)
(* on_tick calls submit_order twice, and fills come back while it does:    *)
(* pc and quote are its program counter and locals.  The operators here    *)
(* are its steps and on_fill; TradingEngine puts them together with the    *)
(* calls they make.  The moving average of the market spread only decides  *)
(* whether the quotes are widened: either width may be chosen.             *)
(***************************************************************************)
EXTENDS Integers

CONSTANTS
  HalfSpreads,   \* half_spread and the widened half_spread
  OrderSize,     \* SpreadStrategyConfig::order_size
  MaxHolding,    \* SpreadStrategyConfig::max_position
  SkewTenths     \* SpreadStrategyConfig::skew_per_lot, in tenths of a tick

ASSUME StrategyAssumption ==
  /\ HalfSpreads \subseteq Nat /\ OrderSize \in Nat \ {0}
  /\ MaxHolding \in Nat \ {0} /\ SkewTenths \in Nat

VARIABLES
  bid_order_id, ask_order_id,  \* the current quotes, 0 for none
  realized_pnl,
  pc,      \* where on_tick or cancel_resting_quotes stands
  quote    \* locals of on_tick: buy_px, sell_px and the ids handed out

strategyVars == <<bid_order_id, ask_order_id, realized_pnl, pc, quote>>

\* An id that on_tick took for an order which the risk gate then refused.
Refused == -1

NoQuote == [buy_px |-> 0, sell_px |-> 0, bid_id |-> 0, ask_id |-> 0]

StrategyInit ==
  /\ bid_order_id = 0 /\ ask_order_id = 0
  /\ realized_pnl = 0
  /\ pc = "idle" /\ quote = NoQuote

\* std::round of tenths: halves go away from zero.
RoundTenths(x) == IF x >= 0 THEN (x + 5) \div 10 ELSE -((5 - x) \div 10)

\* The early returns of on_tick before prices are computed.
MayQuote(tick, position) ==
  /\ tick.bid > 0 /\ tick.ask > 0
  /\ bid_order_id = 0 /\ ask_order_id = 0
  /\ position < MaxHolding /\ -position < MaxHolding

\* Fault: the bid is not checked to be positive.
BeginQuoteAnyPrice(tick, position) ==
  \E half \in HalfSpreads :
    LET mid == (tick.bid + tick.ask) \div 2 + RoundTenths(-position * SkewTenths) IN
    /\ pc = "idle"
    /\ MayQuote(tick, position)
    /\ quote' = [NoQuote EXCEPT !.buy_px = mid - half, !.sell_px = mid + half]
    /\ pc' = "bid"
    /\ UNCHANGED <<bid_order_id, ask_order_id, realized_pnl>>

\* on_tick up to the first submit_order.  A tick that returns early changes
\* nothing but the moving average.
BeginQuote(tick, position) ==
  \E half \in HalfSpreads :
    LET mid == (tick.bid + tick.ask) \div 2 + RoundTenths(-position * SkewTenths) IN
    /\ pc = "idle"
    /\ MayQuote(tick, position)
    /\ mid - half > 0 /\ mid + half > mid - half
    /\ quote' = [NoQuote EXCEPT !.buy_px = mid - half, !.sell_px = mid + half]
    /\ pc' = "bid"
    /\ UNCHANGED <<bid_order_id, ask_order_id, realized_pnl>>

\* The two orders on_tick submits.
QuoteOrder(side) ==
  [side |-> side, type |-> "Limit", qty |-> OrderSize,
   price |-> IF side = "Buy" THEN quote.buy_px ELSE quote.sell_px]

\* The end of on_tick: only now are the ids remembered.
StoreIds ==
  /\ pc = "store"
  /\ bid_order_id' = quote.bid_id /\ ask_order_id' = quote.ask_id
  /\ quote' = NoQuote /\ pc' = "idle"
  /\ UNCHANGED realized_pnl

\* Fault: the quote that was filled is cancelled, not the other one.
WithdrawnOnFillSame(id) == {bid_order_id, ask_order_id} \cap {id}

\* Fault: on_fill forgets to cancel the other quote.
WithdrawnOnFillNone(id) == {}

\* The quotes on_fill cancels when order id is filled: the other one.
WithdrawnOnFill(id) ==
  IF id \in {bid_order_id, ask_order_id}
  THEN {bid_order_id, ask_order_id} \ {0, id} ELSE {}

\* Fault: the id of the other quote is kept.
ForgetQuotesKeepsOther(id, price, qty) ==
  /\ bid_order_id' = IF id = bid_order_id THEN 0 ELSE bid_order_id
  /\ ask_order_id' = IF id = ask_order_id THEN 0 ELSE ask_order_id
  /\ UNCHANGED realized_pnl
  /\ UNCHANGED <<pc, quote>>

\* Fault: the fill of any order is taken for one of a quote.
ForgetQuotesAlways(id, price, qty) ==
  /\ bid_order_id' = 0 /\ ask_order_id' = 0
  /\ UNCHANGED realized_pnl
  /\ UNCHANGED <<pc, quote>>

\* The rest of on_fill: both ids are forgotten, even after a partial fill.
ForgetQuotes(id, price, qty) ==
  /\ IF id \in {bid_order_id, ask_order_id}
     THEN bid_order_id' = 0 /\ ask_order_id' = 0
     ELSE UNCHANGED <<bid_order_id, ask_order_id>>
  /\ realized_pnl' = realized_pnl + (IF id = bid_order_id THEN -price * qty
                                     ELSE IF id = ask_order_id THEN price * qty ELSE 0)
  /\ UNCHANGED <<pc, quote>>
=============================================================================
