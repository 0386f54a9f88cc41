--------------------------- MODULE MCTradingEngine ---------------------------
(* Ticks and external orders for TLC.  The quotes are 1 and 3 or 2 and 4; a *)
(* tick at 1 gives no legal bid.  External orders fill a quote in part or   *)
(* whole, or rest where the next quote meets them.                          *)
EXTENDS TradingEngine

MCTicks == {[bid |-> 1, ask |-> 3], [bid |-> 3, ask |-> 3], [bid |-> 1, ask |-> 1]}

MCExternals ==
  {[side |-> "Buy", type |-> "Limit", price |-> 3, qty |-> 1],
   [side |-> "Buy", type |-> "Limit", price |-> 4, qty |-> 3],
   [side |-> "Sell", type |-> "Limit", price |-> 1, qty |-> 1],
   [side |-> "Sell", type |-> "Limit", price |-> 2, qty |-> 2],
   [side |-> "Sell", type |-> "Market", price |-> 0, qty |-> 1]}
=============================================================================
