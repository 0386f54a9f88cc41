---------------------------- MODULE TradingEngine ----------------------------
(***************************************************************************)
(* TradingEngine of include/engine/trading_engine.h and                    *)
(* src/engine/trading_engine.cpp with the parts it joins, all on the       *)
(* consumer thread: a tick makes SpreadStrategy submit orders, RiskGate    *)
(* checks them, OrderBook matches them and calls on_fill in the middle of  *)
(* its loops, on_fill updates the gate and the strategy, and the strategy  *)
(* cancels its other quote in the book that is still matching.             *)
(*                                                                         *)
(* Clients of the engine (main.cpp's external orders, the benchmarks'      *)
(* cancel_resting_quotes) call it between two ticks.  Order ids are unique *)
(* (order.h:24); they are numbered here in the order the book sees them.   *)
(***************************************************************************)
EXTENDS Integers, FiniteSets, SpreadStrategy

CONSTANTS
  MinPrice, MaxPrice, TickSize,                       \* OrderBookConfig
  MaxPosition, MaxOrdersPerSecond, MaxCancelPercent,  \* RiskConfig
  CheckSelfTrade,
  Ticks,        \* market ticks: [bid, ask]
  Externals,    \* orders that clients submit: [side, type, price, qty]
  CancelOrders, \* whether clients also submit orders of type Cancel
  MaxOrders,    \* bound of the model: orders that reach the book
  MaxAttempts,  \* bound of the model: checks in one rate window
  Second, MaxTime  \* clock units in a second; bound of the model on the clock

ASSUME TickAssumption == \A t \in Ticks : t.bid \in Int /\ t.ask \in Int
ASSUME CancelAssumption == CancelOrders \in BOOLEAN

VARIABLES
  levels, best, order_map, phase, incoming, idx, resting, fill,  \* OrderBook
  next_id, ordered, reported, last_trade,
  position, orders_this_second, last_rate_reset, total_orders,   \* RiskGate
  total_cancels, active_orders, now, accepted,
  handled,   \* whether on_fill has run for the report being made
  partner,   \* history: id of a quote -> id of the quote submitted with it
  made       \* history: ids filled as makers

Grid == {p \in MinPrice .. MaxPrice : (p - MinPrice) % TickSize = 0}

Requests ==
  Externals \cup [side : {"Buy", "Sell"}, type : {"Limit"}, price : Grid, qty : {OrderSize}]

Book == INSTANCE OrderBook
Risk == INSTANCE RiskGate
          WITH OrderIds <- 1 .. MaxOrders, Offers <- Requests, PositionBound <- MaxPosition

\* What the book and the gate ask of their configuration and of the orders
\* that reach them: of the clients' orders, the quotes being on the grid.
ASSUME PartsAssumption ==
  /\ Book!ConfigAssumption /\ Book!RequestAssumption /\ Book!MaxOrdersAssumption
  /\ Risk!RiskAssumption

\* on_tick does not look at OrderBookConfig: that the legal quotes around every
\* tick are prices of the book is up to the configuration and the feed.  The
\* position is always 0 when a tick is handled (PositionNetsOut): no skew.
ASSUME QuotesOnGrid ==
  \A t \in Ticks, half \in HalfSpreads :
    LET mid == (t.bid + t.ask) \div 2 IN
    t.bid > 0 /\ t.ask > 0 /\ mid - half > 0 => {mid - half, mid + half} \subseteq Grid

bookVars == <<levels, best, order_map>>
callVars == <<phase, incoming, idx, resting, fill, next_id, ordered, reported, last_trade>>
rateVars == <<orders_this_second, last_rate_reset, total_orders, total_cancels, accepted>>
gateVars == <<position, active_orders, rateVars, now>>
historyVars == <<partner, made>>
vars == <<strategyVars, bookVars, callVars, gateVars, handled, historyVars>>

Init ==
  /\ StrategyInit /\ Book!Init /\ Risk!Init
  /\ handled = TRUE
  /\ partner = [id \in Book!Ids |-> 0]
  /\ made = {}

Rests(id) == id \in Book!Ids /\ order_map[id] # Book!NoLoc
Resting == {id \in Book!Ids : Rests(id)}

\* Nothing of the engine is on the call stack.
Quiet == pc = "idle" /\ phase = "idle"

\* The bounds of the model on a call that submits n orders.
RoomFor(n) == next_id + n - 1 <= MaxOrders /\ Risk!InWindow + n <= MaxAttempts

-----------------------------------------------------------------------------
(* submit_order and cancel_order                                           *)

\* A limit order is tracked before the book sees it.
Submit(o) ==
  /\ Risk!Check(o)
  /\ IF Risk!Passes(o)
     THEN /\ Book!AddOrder(o)
          /\ IF o.type = "Limit" THEN Risk!TrackOrder(next_id, o) ELSE UNCHANGED active_orders
     ELSE UNCHANGED <<active_orders, bookVars, callVars>>
  /\ UNCHANGED <<position, now, handled>>

\* OrderBook::cancel_order, which finds the id or changes nothing.
BookCancel(ids) ==
  \/ \E id \in ids : Rests(id) /\ Book!CancelEffect(id)
  \/ (\A id \in ids : ~Rests(id)) /\ UNCHANGED bookVars

Cancel(id) ==
  /\ Risk!UntrackOrders({id})
  /\ BookCancel({id})
  /\ UNCHANGED <<callVars, position, rateVars, now, handled>>

-----------------------------------------------------------------------------
(* on_tick, one step for each call it makes                                *)

OnTick(t) ==
  /\ Quiet
  /\ RoomFor(2)
  /\ BeginQuote(t, position)
  /\ UNCHANGED <<bookVars, callVars, gateVars, handled, historyVars>>

\* The id the order gets if the gate lets it pass.
IdOf(o) == IF Risk!Passes(o) THEN next_id ELSE Refused

SubmitBid ==
  LET o == QuoteOrder("Buy") IN
  /\ pc = "bid"
  /\ Submit(o)
  /\ quote' = [quote EXCEPT !.bid_id = IdOf(o)]
  /\ pc' = "ask"
  /\ UNCHANGED <<bid_order_id, ask_order_id, realized_pnl, historyVars>>

SubmitAsk ==
  LET o == QuoteOrder("Sell") IN
  /\ pc = "ask" /\ phase = "idle"
  /\ Submit(o)
  /\ quote' = [quote EXCEPT !.ask_id = IdOf(o)]
  /\ pc' = "store"
  /\ partner' = [id \in Book!Ids |-> IF id = quote.bid_id THEN quote'.ask_id
                                     ELSE IF id = quote'.ask_id THEN quote.bid_id
                                     ELSE partner[id]]
  /\ UNCHANGED <<bid_order_id, ask_order_id, realized_pnl, made>>

RememberQuotes ==
  /\ phase = "idle"
  /\ StoreIds
  /\ UNCHANGED <<bookVars, callVars, gateVars, handled, historyVars>>

-----------------------------------------------------------------------------
(* The matching loop and the callback                                      *)

\* One step of the book.  A report is handled before the loop goes on.
MatchStep ==
  /\ \/ Book!EnterLevel \/ Book!LeaveLevel \/ Book!Rest \/ Book!Discard
     \/ handled /\ Book!Settle
  /\ UNCHANGED <<strategyVars, gateVars, handled, historyVars>>

ReportStep ==
  /\ Book!ReportTaker \/ (handled /\ Book!ReportMaker)
  /\ handled' = FALSE
  /\ UNCHANGED <<strategyVars, gateVars, historyVars>>

\* The report on_fill is called with.
Report ==
  IF phase = "taker"
  THEN [order_id |-> incoming.id, side |-> incoming.side, is_maker |-> FALSE]
  ELSE [order_id |-> resting, side |-> Book!Opposite(incoming.side), is_maker |-> TRUE]

\* Fault: the is_maker test is missing.
UntrackedOnFillTaker(r) == WithdrawnOnFill(r.order_id) \cup {r.order_id}

\* The ids on_fill takes out of the tracking table.
UntrackedOnFill(r) ==
  WithdrawnOnFill(r.order_id) \cup (IF r.is_maker THEN {r.order_id} ELSE {})

\* Fault: the gate hears of takers only.
PositionOnFillTaker(r) ==
  IF r.is_maker THEN UNCHANGED position ELSE Risk!OnFill(r.side, fill.qty)

PositionOnFill(r) == Risk!OnFill(r.side, fill.qty)

\* TradingEngine::on_fill with SpreadStrategy::on_fill, which may cancel.
OnFill ==
  LET r == Report IN
  /\ phase \in {"taker", "maker"} /\ ~handled
  /\ handled' = TRUE
  /\ PositionOnFill(r)
  /\ Risk!UntrackOrders(UntrackedOnFill(r))
  /\ BookCancel(WithdrawnOnFill(r.order_id))
  /\ ForgetQuotes(r.order_id, fill.price, fill.qty)
  /\ made' = made \cup (IF r.is_maker THEN {r.order_id} ELSE {})
  /\ UNCHANGED <<callVars, rateVars, now, partner>>

-----------------------------------------------------------------------------
(* Clients                                                                 *)

SubmitExternal(o) ==
  /\ Quiet
  /\ RoomFor(1)
  /\ Submit(o)
  /\ UNCHANGED <<strategyVars, historyVars>>

\* An order of type Cancel: add_order cancels, the tracking table is not told.
SubmitCancel(id) ==
  LET o == [side |-> "Buy", type |-> "Cancel", price |-> 0, qty |-> 0] IN
  /\ CancelOrders /\ Quiet
  /\ Risk!InWindow < MaxAttempts
  /\ Risk!Check(o)
  /\ BookCancel(IF Risk!Passes(o) THEN {id} ELSE {})
  /\ UNCHANGED <<callVars, position, active_orders, now, handled, strategyVars, historyVars>>

\* cancel_resting_quotes: the bid, then the ask.
CancelBidQuote ==
  /\ Quiet
  /\ bid_order_id # 0
  /\ Cancel(bid_order_id)
  /\ bid_order_id' = 0 /\ pc' = "cancel_ask"
  /\ UNCHANGED <<ask_order_id, realized_pnl, quote, historyVars>>

CancelAskQuote ==
  /\ pc = "cancel_ask" \/ (Quiet /\ bid_order_id = 0 /\ ask_order_id # 0)
  /\ Cancel(ask_order_id)
  /\ ask_order_id' = 0 /\ pc' = "idle"
  /\ UNCHANGED <<bid_order_id, realized_pnl, quote, historyVars>>

Elapse ==
  /\ Risk!Advance
  /\ UNCHANGED <<strategyVars, bookVars, callVars, handled, historyVars>>

-----------------------------------------------------------------------------
Next ==
  \/ \E t \in Ticks : OnTick(t)
  \/ SubmitBid \/ SubmitAsk \/ RememberQuotes
  \/ MatchStep \/ ReportStep \/ OnFill
  \/ \E o \in Externals : SubmitExternal(o)
  \/ \E id \in Book!Ids : SubmitCancel(id)
  \/ CancelBidQuote \/ CancelAskQuote
  \/ Elapse

Spec == Init /\ [][Next]_vars

(* The steps of a call that has begun.  Calls run until they return, and    *)
(* nothing else is owed: neither a tick, nor an order, nor time.            *)
CallStep ==
  \/ SubmitBid \/ SubmitAsk \/ RememberQuotes
  \/ MatchStep \/ ReportStep \/ OnFill
  \/ ~Quiet /\ CancelAskQuote

FairSpec == Spec /\ WF_vars(CallStep)

-----------------------------------------------------------------------------
(* Properties                                                              *)

QuoteIds == Book!Ids \cup {0, Refused}

TypeOK ==
  /\ Book!TypeOK /\ Risk!TypeOK
  /\ bid_order_id \in QuoteIds /\ ask_order_id \in QuoteIds
  /\ realized_pnl \in Int
  /\ pc \in {"idle", "bid", "ask", "store", "cancel_ask"}
  /\ quote \in {NoQuote} \cup [buy_px : Grid, sell_px : Grid, bid_id : QuoteIds, ask_id : QuoteIds]
  /\ handled \in BOOLEAN
  /\ partner \in [Book!Ids -> QuoteIds]
  /\ made \subseteq Book!Ids

\* The callback respects the matching loop that calls it: with this strategy
\* the book sees only what OrderBook allows, so that on_fill never cancels the
\* order match() holds a reference to (order_book.cpp:104 to 117).
RefinesBook == Book!Spec

\* Both sides of every trade report to the same gate (order_book.cpp:108 and
\* 110): between the two reports of a trade the position is its quantity, at
\* any other moment it is zero, whoever traded.
PositionNetsOut ==
  \/ position = 0
  \/ /\ (phase = "taker" /\ handled) \/ (phase = "maker" /\ ~handled)
     /\ position = Risk!Signed(incoming.side, fill.qty)

\* on_fill and cancel_resting_quotes never leave one id behind: the strategy
\* does not wait for a quote whose other side it has forgotten.
QuotesComeInPairs == pc # "cancel_ask" => ((bid_order_id = 0) <=> (ask_order_id = 0))

\* on_tick and submit_order return, whatever the callbacks cancel and however
\* the clients' calls follow each other: match() (order_book.cpp:99 to 153)
\* leaves its loops only because each level it empties moves the best price on.
CallsReturn == ~Quiet ~> Quiet

\* One cancels the other: when a resting quote has been filled, even in part
\* and even in the middle of a match, the quote of the other side is gone.
OneCancelsOther ==
  \A id \in made : ~Rests(partner[id])

\* With check_self_trade on, no order that passed the gate ever trades with
\* another one that did: tracking covers the book at every moment.
NoSelfTrade == CheckSelfTrade => \A id \in Book!Ids : reported[id] = 0

\* Tracking and the book change in different places (trading_engine.cpp:104,
\* 110, 165; order_book.cpp): whatever happens in between, an order rests
\* unknown to the gate only if it has been filled as a maker before.
TrackedUntilFilled == Resting \subseteq Risk!Tracked \cup made

\* trading_engine.cpp:163: an order leaves the tracking table when it is fully
\* filled; one that still rests is tracked.
RestingIsTracked == Quiet => Resting \subseteq Risk!Tracked

\* spread_strategy.cpp:33: the strategy that does not quote has a quote in the
\* book, which can be filled or cancelled.
AQuoteIsLive ==
  Quiet /\ {bid_order_id, ask_order_id} # {0} => Rests(bid_order_id) \/ Rests(ask_order_id)

\* The strategy remembers two quotes and neither is in the book.
NoQuoteLeft ==
  /\ bid_order_id # 0 /\ ask_order_id # 0
  /\ ~Rests(bid_order_id) /\ ~Rests(ask_order_id)

\* A strategy that has come to remember two dead quotes (on_tick stores the ids
\* of orders that were refused or filled meanwhile, spread_strategy.cpp:90)
\* stays so: no fill, tick or order of a client clears the ids, only
\* cancel_resting_quotes does.
StuckUntilCancelled == [][NoQuoteLeft /\ ~CancelBidQuote => NoQuoteLeft']_vars

\* spread_strategy.cpp:33: while a quote of the strategy rests, no other pair
\* is quoted.
NoDoubleQuote == pc = "bid" => \A id \in Resting : partner[id] = 0
=============================================================================
