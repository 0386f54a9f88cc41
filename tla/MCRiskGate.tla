---------------------------- MODULE MCRiskGate ----------------------------
(* Offers for TLC: two prices at which orders cross, one market order and  *)
(* one cancel request, whose price and quantity the gate still reads.      *)
EXTENDS RiskGate

MCOffers ==
  [side : {"Buy", "Sell"}, type : {"Limit"}, price : {1, 2}, qty : {1}]
    \cup {[side |-> "Buy", type |-> "Market", price |-> 0, qty |-> 2],
          [side |-> "Sell", type |-> "Cancel", price |-> 0, qty |-> 0]}
=============================================================================
