---------------------------- MODULE MCOrderBook ----------------------------
(* Orders for TLC.  A market order trades only as far as its price field   *)
(* lets it; MCRequests gives the buy one that reaches every ask.           *)
EXTENDS OrderBook

Limits == [side : Sides, type : {"Limit"}, price : 1 .. 3, qty : 1 .. 2]

MCRequests ==
  Limits \cup {[side |-> "Buy", type |-> "Market", price |-> 9, qty |-> 2],
               [side |-> "Sell", type |-> "Market", price |-> 0, qty |-> 3]}
=============================================================================
