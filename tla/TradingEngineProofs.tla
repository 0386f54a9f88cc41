------------------------ MODULE TradingEngineProofs ------------------------
(***************************************************************************)
(* What holds of the engine for every feed, every set of client orders and *)
(* every configuration of its parts, in four layers of invariants:         *)
(*                                                                         *)
(*   EngineInv  the book's invariant survives what the callbacks do, the   *)
(*              gate's position is the half-reported trade, and the ids    *)
(*              that the strategy holds are older than the order in hand;  *)
(*   TrackInv   with check_self_trade on, the gate knows side and price of *)
(*              all that rests, so that nothing ever trades;               *)
(*   CoverInv   in every setting, what rests untracked has been a maker;   *)
(*   PairInv    of two quotes submitted together, both may rest only while *)
(*              on_tick still holds their ids or the strategy does.        *)
(*                                                                         *)
(* Last, every call returns: each of its steps leaves fewer to come.       *)
(*                                                                         *)
(* The book's part is OrderBookProofs, cited for the book of the engine:   *)
(* each step of the engine is a step of the book or leaves it.             *)
(***************************************************************************)
EXTENDS TradingEngine, Sequences, TLAPS

Q == INSTANCE OrderBookProofs

-----------------------------------------------------------------------------
(* The book of the engine is the book the theorems are about               *)

\* What the book's theorems assume is assumed of the engine's parts.
LEMMA BookAssumptions ==
  Q!ConfigAssumption /\ Q!RequestAssumption /\ Q!MaxOrdersAssumption
BY PartsAssumption
   DEF Book!ConfigAssumption, Book!RequestAssumption, Book!MaxOrdersAssumption,
       Q!ConfigAssumption, Q!RequestAssumption, Q!MaxOrdersAssumption

\* The book of the engine and the one the theorems are about have the same
\* constants and variables, hence the same definitions.
LEMMA SameBook ==
  /\ Q!vars = Book!vars
  /\ (Q!Match <=> Book!Match) /\ (Q!Next <=> Book!Next)
  /\ Q!Init <=> Book!Init
  /\ Q!TypeOK <=> Book!TypeOK
  /\ Q!Ids = Book!Ids /\ Q!NoLoc = Book!NoLoc /\ Q!Book = Book!Book
<1> USE DEF Q!vars, Book!vars, Q!bookVars, Book!bookVars, Q!callVars, Book!callVars,
            Q!histVars, Book!histVars, Q!NoLoc, Book!NoLoc, Q!NoPrice, Book!NoPrice,
            Q!NoOrder, Book!NoOrder, Q!NoTrade, Book!NoTrade,
            Q!Ids, Book!Ids, Q!Sides, Book!Sides, Q!Opposite, Book!Opposite,
            Q!Book, Book!Book, Q!Level, Book!Level, Q!IsEmpty, Book!IsEmpty,
            Q!EmptyLevel, Book!EmptyLevel, Q!Idx, Book!Idx, Q!NumLevels, Book!NumLevels,
            Q!LevelPrice, Book!LevelPrice, Q!PriceToIndex, Book!PriceToIndex,
            Q!Prices, Book!Prices, Q!Better, Book!Better
<1>1. Q!vars = Book!vars /\ Q!Ids = Book!Ids /\ Q!NoLoc = Book!NoLoc /\ Q!Book = Book!Book
  OBVIOUS
<1>2. Q!Init <=> Book!Init
  BY DEF Q!Init, Book!Init
<1>3. Q!TypeOK <=> Book!TypeOK
  BY DEF Q!TypeOK, Book!TypeOK, Q!PriceLevel, Book!PriceLevel, Q!Order, Book!Order,
         Q!RestingOrder, Book!RestingOrder
<1>4. ASSUME NEW r PROVE Book!AddOrder(r) <=> Q!AddOrder(r)
  BY DEF Q!AddOrder, Book!AddOrder
<1> USE DEF Q!Erase, Book!Erase, Q!ReduceFront, Book!ReduceFront, Q!RemoveAt, Book!RemoveAt,
            Q!UpdateBestAfterEmpty, Book!UpdateBestAfterEmpty, Q!IsNextBest, Book!IsNextBest,
            Q!Behind, Book!Behind, Q!Crosses, Book!Crosses, Q!Return, Book!Return,
            Q!Report, Book!Report, Q!Enqueue, Book!Enqueue, Q!Min, Book!Min
<1>5. ASSUME NEW id PROVE Book!CancelOrder(id) <=> Q!CancelOrder(id)
  BY DEF Q!CancelOrder, Book!CancelOrder, Q!MayCancel, Book!MayCancel,
         Q!CancelEffect, Book!CancelEffect
<1>6. Book!EnterLevel <=> Q!EnterLevel
  BY DEF Q!EnterLevel, Book!EnterLevel
<1>7. Book!ReportTaker <=> Q!ReportTaker
  BY DEF Q!ReportTaker, Book!ReportTaker
<1>8. Book!ReportMaker <=> Q!ReportMaker
  BY DEF Q!ReportMaker, Book!ReportMaker
<1>9. Book!Settle <=> Q!Settle
  BY DEF Q!Settle, Book!Settle
<1>10. Book!LeaveLevel <=> Q!LeaveLevel
  BY DEF Q!LeaveLevel, Book!LeaveLevel
<1>11. Book!Rest <=> Q!Rest
  BY DEF Q!Rest, Book!Rest
<1>12. Book!Discard <=> Q!Discard
  BY DEF Q!Discard, Book!Discard
<1> QED
  BY <1>1, <1>2, <1>3, <1>4, <1>5, <1>6, <1>7, <1>8, <1>9, <1>10, <1>11, <1>12, Zenon
     DEF Q!Next, Book!Next, Q!Match, Book!Match

\* The book's invariant, in the words of the engine.
LEMMA BookFacts ==
  ASSUME Q!QueueInv
  PROVE  /\ next_id \in 1 .. MaxOrders + 1 /\ MaxOrders \in Nat
         /\ phase \in {"idle", "match", "level", "taker", "maker"}
         /\ fill.qty \in Nat /\ fill.price \in Int
         /\ order_map \in [Book!Ids -> [side : {"Buy", "Sell"}, idx : Book!Idx] \cup {Book!NoLoc}]
         /\ phase # "idle" =>
              /\ incoming.id \in Book!Ids /\ incoming.id = next_id - 1
              /\ incoming.side \in {"Buy", "Sell"} /\ ~Rests(incoming.id)
         /\ phase \in {"taker", "maker"} =>
              /\ resting \in Book!Ids /\ resting < incoming.id /\ Rests(resting)
<1>1. Q!IndInv /\ Q!TypeOK /\ Q!Numbered /\ MaxOrders \in Nat
  BY BookAssumptions DEF Q!QueueInv, Q!IndInv, Q!MaxOrdersAssumption
<1>2. /\ next_id \in 1 .. MaxOrders + 1
      /\ phase \in {"idle", "match", "level", "taker", "maker"}
      /\ fill \in [qty : Nat, price : Q!Prices \cup {Q!NoPrice}]
      /\ order_map \in [Book!Ids -> [side : {"Buy", "Sell"}, idx : Book!Idx] \cup {Book!NoLoc}]
  BY <1>1, SameBook DEF Q!TypeOK, Q!Sides, Q!Idx, Q!NumLevels, Book!Idx, Book!NumLevels
<1>3. \A p \in Q!Prices : p \in Int
  BY BookAssumptions, Q!LevelPrices DEF Q!LevelPrices, Q!Prices
<1>4. fill.qty \in Nat /\ fill.price \in Int
  BY <1>2, <1>3 DEF Q!NoPrice
<1>5. ASSUME phase # "idle"
      PROVE  /\ incoming.id \in Book!Ids /\ incoming.id = next_id - 1
             /\ incoming.side \in {"Buy", "Sell"} /\ ~Rests(incoming.id)
  <2>1. incoming.id \in Q!Ids /\ incoming.side \in Q!Sides
    BY <1>1, <1>5, BookAssumptions, Q!IncomingType DEF Q!IncomingType
  <2>2. incoming.id = next_id - 1 /\ order_map[incoming.id] = Q!NoLoc
    BY <1>1, <1>5 DEF Q!Numbered
  <2> QED
    BY <2>1, <2>2, SameBook DEF Q!Sides, Rests
<1>6. ASSUME phase \in {"taker", "maker"}
      PROVE  resting \in Book!Ids /\ resting < incoming.id /\ Rests(resting)
  <2>1. /\ Q!Book \in Q!Sides /\ idx \in Q!Idx
        /\ 1 \in DOMAIN Q!Queue(Q!Book, idx) /\ Q!Queue(Q!Book, idx)[1].id = resting
        /\ ~Q!IsEmpty(Q!Level)
    BY <1>6, BookAssumptions, Q!BoundOrder DEF Q!BoundOrder
  <2>2. resting \in Q!Ids /\ resting < incoming.id
    BY <1>6, <2>1, BookAssumptions, Q!FrontOrder DEF Q!FrontOrder
  <2>3. order_map[resting] = [side |-> Q!Book, idx |-> idx]
    BY <2>1 DEF Q!QueueInv, Q!Queued, Q!Located
  <2>4. order_map[resting] # Q!NoLoc
    BY <2>1, <2>3, BookAssumptions, Q!LocationKnown DEF Q!LocationKnown
  <2> QED
    BY <2>2, <2>4, SameBook DEF Rests
<1> QED
  BY <1>1, <1>2, <1>4, <1>5, <1>6

-----------------------------------------------------------------------------
(* The inductive invariant                                                 *)

\* on_tick submits and cancel_resting_quotes cancels while no call of the book
\* runs, and every report is handled before the matching goes on.
Control ==
  /\ pc \in {"idle", "bid", "ask", "store", "cancel_ask"} /\ handled \in BOOLEAN
  /\ pc \in {"bid", "cancel_ask"} => phase = "idle"
  /\ phase \notin {"taker", "maker"} => handled

\* What an id variable may hold while n is the next id.
Issued(n) == {0, Refused} \cup 1 .. n - 1

\* The stored quotes are older than the order being matched.
Identified ==
  /\ {bid_order_id, ask_order_id} \subseteq
       Issued(IF phase = "idle" THEN next_id ELSE next_id - 1)
  /\ {quote.bid_id, quote.ask_id} \subseteq Issued(next_id)

\* The locals of on_tick, which only starts when nothing is quoted.
Quoting ==
  /\ quote \in {NoQuote} \cup
       [buy_px : Grid, sell_px : Grid, bid_id : QuoteIds, ask_id : QuoteIds]
  /\ pc \in {"bid", "ask", "store"} =>
       /\ quote.buy_px \in Grid /\ quote.sell_px \in Grid /\ quote.buy_px < quote.sell_px
       /\ bid_order_id = 0 /\ ask_order_id = 0
  /\ pc \in {"ask", "store"} => quote.bid_id # 0
  /\ pc = "store" => quote.ask_id # 0

\* Between the two calls of cancel_resting_quotes only the ask is left.
Paired == QuotesComeInPairs /\ (pc = "cancel_ask" => bid_order_id = 0)

\* The gate's position is what was reported to the taker of a trade and not
\* to its maker yet.
Netted ==
  position = IF (phase = "taker" /\ handled) \/ (phase = "maker" /\ ~handled)
             THEN Risk!Signed(incoming.side, fill.qty) ELSE 0

Typed ==
  /\ Risk!TypeOK
  /\ realized_pnl \in Int
  /\ partner \in [Book!Ids -> QuoteIds] /\ made \subseteq Book!Ids

EngineInv ==
  Q!QueueInv /\ Control /\ Identified /\ Quoting /\ Paired /\ Netted /\ Typed

\* The engine starts with an empty book and a gate that knows no order.
LEMMA InitEngine == Init => EngineInv
<1> SUFFICES ASSUME Init PROVE EngineInv
  OBVIOUS
<1>1. Book!Init /\ Risk!Init /\ StrategyInit
  BY DEF Init
<1>2. Q!QueueInv
  BY <1>1, SameBook, BookAssumptions, Q!InitQueue DEF Q!InitQueue
<1>3. phase = "idle" /\ next_id = 1
  BY <1>1 DEF Book!Init
<1>4. Control /\ Identified /\ Quoting /\ Paired
  BY <1>1, <1>3 DEF StrategyInit, Init, NoQuote, Control, Identified, Quoting, Paired,
                    QuotesComeInPairs, Issued
<1>5. Netted
  BY <1>1, <1>3 DEF Netted, Risk!Init
<1>6. Risk!TypeOK
  BY <1>1, PartsAssumption
     DEF Risk!Init, Risk!TypeOK, Risk!RiskAssumption, Risk!Times
<1>7. Typed
  BY <1>1, <1>6 DEF StrategyInit, Init, Typed, QuoteIds
<1> QED
  BY <1>2, <1>4, <1>5, <1>7 DEF EngineInv

\* A step of the book that the engine makes keeps the book's invariant.
LEMMA BookStep == Q!QueueInv /\ [Book!Next]_Book!vars => Q!QueueInv'
<1>1. Q!vars' = Book!vars'
  BY DEF Q!vars, Book!vars, Q!bookVars, Book!bookVars, Q!callVars, Book!callVars,
         Q!histVars, Book!histVars
<1> QED
  BY <1>1, SameBook, BookAssumptions, Q!StepQueue DEF Q!StepQueue

\* submit_order: the gate's types, and the id that the caller gets.
LEMMA SubmitFacts ==
  ASSUME EngineInv, phase = "idle", NEW o \in Requests, Submit(o)
  PROVE  /\ [Book!Next]_Book!vars /\ Risk!TypeOK'
         /\ position' = position /\ handled' = handled /\ position' = 0
         /\ phase' \in {"idle", "match"} /\ handled
         /\ next_id \in Nat /\ next_id' \in Nat /\ next_id' >= next_id
         /\ phase' = "match" => next_id' = next_id + 1
         /\ IdOf(o) \in Issued(next_id') \ {0} /\ IdOf(o) \in QuoteIds
<1>1. /\ next_id \in 1 .. MaxOrders + 1 /\ MaxOrders \in Nat
      /\ handled /\ position = 0 /\ Risk!TypeOK
  BY BookFacts DEF EngineInv, Control, Netted, Typed
<1>2. o.price \in Nat /\ o.side \in {"Buy", "Sell"}
  BY PartsAssumption DEF Book!RequestAssumption
<1>3. Risk!Check(o) /\ position' = position /\ handled' = handled /\ now' = now
  BY DEF Submit
<1>4. CASE ~Risk!Passes(o)
  <2>1. UNCHANGED <<active_orders, bookVars, callVars>>
    BY <1>4 DEF Submit
  <2>2. UNCHANGED Book!vars /\ phase' = "idle" /\ next_id' = next_id
    BY <2>1 DEF bookVars, callVars, Book!vars, Book!bookVars, Book!callVars, Book!histVars
  <2>3. IdOf(o) = Refused
    BY <1>4 DEF IdOf
  <2>4. Risk!TypeOK'
    BY <1>1, <1>3, <2>1, <1>4, PartsAssumption
       DEF Risk!Check, Risk!CountOrder, Risk!InWindow, Risk!Restarts, Risk!TypeOK,
           Risk!RiskAssumption
  <2> QED
    BY <1>1, <1>3, <2>2, <2>3, <2>4 DEF Issued, QuoteIds, Refused
<1>5. CASE Risk!Passes(o)
  <2>1. /\ Book!AddOrder(o)
        /\ IF o.type = "Limit" THEN Risk!TrackOrder(next_id, o) ELSE UNCHANGED active_orders
    BY <1>5 DEF Submit
  <2>2. phase' = "match" /\ next_id' = next_id + 1 /\ next_id <= MaxOrders
    BY <2>1 DEF Book!AddOrder
  <2>3. IdOf(o) = next_id
    BY <1>5 DEF IdOf
  <2>4. active_orders' \in
          [1 .. MaxOrders -> [side : {"Buy", "Sell"}, price : Nat] \cup {Risk!Untracked}]
    <3> DEFINE Entry == [side : {"Buy", "Sell"}, price : Nat]
    <3>1. active_orders \in [1 .. MaxOrders -> Entry \cup {Risk!Untracked}]
      BY <1>1 DEF Risk!TypeOK
    <3>2. [side |-> o.side, price |-> o.price] \in Entry
      BY <1>2
    <3> HIDE DEF Entry
    <3>3. active_orders' \in [1 .. MaxOrders -> Entry \cup {Risk!Untracked}]
      BY <2>1, <3>1, <3>2 DEF Risk!TrackOrder
    <3> QED
      BY <3>3 DEF Entry
  <2>5. Risk!TypeOK'
    BY <1>1, <1>3, <2>4, <1>5, PartsAssumption
       DEF Risk!Check, Risk!CountOrder, Risk!InWindow, Risk!Restarts, Risk!TypeOK,
           Risk!RiskAssumption
  <2> QED
    BY <1>1, <1>3, <2>1, <2>2, <2>3, <2>5 DEF Issued, QuoteIds, Refused, Book!Ids, Book!Next
<1> QED
  BY <1>4, <1>5

\* cancel_order between two calls: one cancel of the book or none.
LEMMA CancelFacts ==
  ASSUME EngineInv, phase = "idle", NEW id, BookCancel({id}),
         UNCHANGED callVars
  PROVE  [Book!Next]_Book!vars
<1>1. CASE UNCHANGED bookVars
  BY <1>1 DEF bookVars, callVars, Book!vars, Book!bookVars, Book!callVars, Book!histVars
<1>2. CASE Rests(id) /\ Book!CancelEffect(id)
  BY <1>2 DEF Rests, callVars, Book!CancelOrder, Book!MayCancel, Book!callVars,
              Book!histVars, Book!Next
<1> QED
  BY <1>1, <1>2 DEF BookCancel

-----------------------------------------------------------------------------
(* The steps                                                               *)

\* An id that has been handed out stays handed out.
LEMMA IssuedGrows ==
  ASSUME NEW m \in Nat, NEW n \in Nat, m <= n
  PROVE  Issued(m) \subseteq Issued(n)
BY DEF Issued

\* A step outside the gate and the history keeps their types.
LEMMA SameTyped ==
  ASSUME EngineInv, UNCHANGED <<gateVars, partner, made, realized_pnl>>
  PROVE  Typed'
<1>1. Risk!TypeOK /\ Typed
  BY DEF EngineInv, Typed
<1>2. Risk!TypeOK'
  BY <1>1 DEF gateVars, rateVars, Risk!TypeOK
<1> QED
  BY <1>1, <1>2 DEF Typed

\* A step outside the book keeps its invariant.
LEMMA SameCalls ==
  ASSUME EngineInv, UNCHANGED <<bookVars, callVars>>
  PROVE  Q!QueueInv' /\ UNCHANGED Book!vars
<1>1. UNCHANGED Book!vars
  BY DEF bookVars, callVars, Book!vars, Book!bookVars, Book!callVars, Book!histVars
<1> QED
  BY <1>1, BookStep DEF EngineInv

\* A tick starts a quote: the position is zero, so that it is around the mid.
LEMMA OnTickEngine ==
  ASSUME EngineInv, NEW t \in Ticks, OnTick(t)
  PROVE  EngineInv' /\ [Book!Next]_Book!vars
<1>1. /\ pc = "idle" /\ phase = "idle" /\ position = 0 /\ handled
      /\ UNCHANGED <<bookVars, callVars, gateVars, handled, historyVars>>
      /\ BeginQuote(t, position)
  BY DEF OnTick, Quiet, EngineInv, Netted, Control
<1>2. Q!QueueInv' /\ UNCHANGED Book!vars
  BY <1>1, SameCalls
<1>3. PICK half \in HalfSpreads :
        LET mid == (t.bid + t.ask) \div 2 + RoundTenths(-position * SkewTenths) IN
        /\ t.bid > 0 /\ t.ask > 0 /\ bid_order_id = 0 /\ ask_order_id = 0
        /\ mid - half > 0 /\ mid + half > mid - half
        /\ quote' = [NoQuote EXCEPT !.buy_px = mid - half, !.sell_px = mid + half]
        /\ pc' = "bid"
        /\ UNCHANGED <<bid_order_id, ask_order_id, realized_pnl>>
  BY <1>1 DEF BeginQuote, MayQuote
<1> DEFINE mid == (t.bid + t.ask) \div 2
<1>4. RoundTenths(-position * SkewTenths) = 0
  BY <1>1, StrategyAssumption DEF RoundTenths
<1>5. mid \in Int /\ half \in Nat
  BY TickAssumption, StrategyAssumption
<1>6. mid + RoundTenths(-position * SkewTenths) = mid
  BY <1>4, <1>5
<1>7. /\ t.bid > 0 /\ t.ask > 0 /\ mid - half > 0 /\ mid - half < mid + half
      /\ quote' = [NoQuote EXCEPT !.buy_px = mid - half, !.sell_px = mid + half]
  BY <1>3, <1>5, <1>6
<1>8. mid - half \in Grid /\ mid + half \in Grid
  BY <1>7, QuotesOnGrid
<1>9. /\ quote'.buy_px = mid - half /\ quote'.sell_px = mid + half
      /\ quote'.bid_id = 0 /\ quote'.ask_id = 0
      /\ quote' = [buy_px |-> mid - half, sell_px |-> mid + half, bid_id |-> 0, ask_id |-> 0]
  BY <1>7 DEF NoQuote
<1> HIDE DEF mid
<1>10. Quoting'
  BY <1>3, <1>7, <1>8, <1>9 DEF Quoting, QuoteIds
<1>11. Control' /\ Identified'
  BY <1>1, <1>3, <1>9 DEF Control, Identified, Issued, callVars
<1>12. Paired' /\ Netted'
  BY <1>1, <1>3 DEF Paired, QuotesComeInPairs, Netted, callVars, gateVars
<1>13. Typed'
  BY <1>1, <1>3, SameTyped DEF historyVars
<1> QED
  BY <1>2, <1>10, <1>11, <1>12, <1>13 DEF EngineInv

\* The two orders that on_tick submits are orders of the book's grid.
LEMMA QuoteIsRequest ==
  ASSUME EngineInv, pc \in {"bid", "ask"}, NEW side \in {"Buy", "Sell"}
  PROVE  QuoteOrder(side) \in Requests
BY DEF EngineInv, Quoting, QuoteOrder, Requests

\* on_tick submits its bid.
LEMMA SubmitBidEngine ==
  ASSUME EngineInv, SubmitBid
  PROVE  EngineInv' /\ [Book!Next]_Book!vars
<1> DEFINE o == QuoteOrder("Buy")
<1>1. /\ pc = "bid" /\ phase = "idle" /\ Submit(o) /\ pc' = "ask"
      /\ quote' = [quote EXCEPT !.bid_id = IdOf(o)]
      /\ UNCHANGED <<bid_order_id, ask_order_id, realized_pnl, historyVars>>
  BY DEF SubmitBid, EngineInv, Control
<1>2. o \in Requests
  BY <1>1, QuoteIsRequest
<1> HIDE DEF o
<1>3. /\ [Book!Next]_Book!vars /\ Risk!TypeOK'
      /\ position' = 0 /\ handled' = handled /\ handled
      /\ phase' \in {"idle", "match"}
      /\ next_id \in Nat /\ next_id' \in Nat /\ next_id' >= next_id
      /\ IdOf(o) \in Issued(next_id') \ {0} /\ IdOf(o) \in QuoteIds
  BY <1>1, <1>2, SubmitFacts
<1>4. Q!QueueInv'
  BY <1>3, BookStep DEF EngineInv
<1>5. /\ quote \in [buy_px : Grid, sell_px : Grid, bid_id : QuoteIds, ask_id : QuoteIds]
      /\ quote.buy_px < quote.sell_px /\ bid_order_id = 0 /\ ask_order_id = 0
      /\ quote.ask_id \in Issued(next_id)
  BY <1>1 DEF EngineInv, Quoting, Identified, NoQuote, QuoteIds
<1>6. Quoting'
  BY <1>1, <1>3, <1>5 DEF Quoting
<1>7. Control' /\ Paired' /\ Netted'
  BY <1>1, <1>3, <1>5 DEF Control, Paired, QuotesComeInPairs, Netted
<1>8. Identified'
  <2>1. quote'.bid_id = IdOf(o) /\ quote'.ask_id = quote.ask_id
    BY <1>1, <1>5
  <2> QED
    BY <1>1, <1>3, <1>5, <2>1, IssuedGrows DEF Identified, Issued
<1>9. Typed'
  BY <1>1, <1>3 DEF EngineInv, Typed, historyVars
<1> QED
  BY <1>3, <1>4, <1>6, <1>7, <1>8, <1>9 DEF EngineInv

\* on_tick submits its ask, when the bid has been matched.
LEMMA SubmitAskEngine ==
  ASSUME EngineInv, SubmitAsk
  PROVE  EngineInv' /\ [Book!Next]_Book!vars
<1> DEFINE o == QuoteOrder("Sell")
<1>1. /\ pc = "ask" /\ phase = "idle" /\ Submit(o) /\ pc' = "store"
      /\ quote' = [quote EXCEPT !.ask_id = IdOf(o)]
      /\ UNCHANGED <<bid_order_id, ask_order_id, realized_pnl, made>>
      /\ partner' = [id \in Book!Ids |-> IF id = quote.bid_id THEN quote'.ask_id
                                         ELSE IF id = quote'.ask_id THEN quote.bid_id
                                         ELSE partner[id]]
  BY DEF SubmitAsk
<1>2. o \in Requests
  BY <1>1, QuoteIsRequest
<1> HIDE DEF o
<1>3. /\ [Book!Next]_Book!vars /\ Risk!TypeOK'
      /\ position' = 0 /\ handled' = handled /\ handled
      /\ phase' \in {"idle", "match"}
      /\ next_id \in Nat /\ next_id' \in Nat /\ next_id' >= next_id
      /\ IdOf(o) \in Issued(next_id') \ {0} /\ IdOf(o) \in QuoteIds
  BY <1>1, <1>2, SubmitFacts
<1>4. Q!QueueInv'
  BY <1>3, BookStep DEF EngineInv
<1>5. /\ quote \in [buy_px : Grid, sell_px : Grid, bid_id : QuoteIds, ask_id : QuoteIds]
      /\ quote.buy_px < quote.sell_px /\ bid_order_id = 0 /\ ask_order_id = 0
      /\ quote.bid_id \in Issued(next_id) /\ quote.bid_id # 0
  BY <1>1 DEF EngineInv, Quoting, Identified, NoQuote, QuoteIds
<1>6. Quoting'
  BY <1>1, <1>3, <1>5 DEF Quoting
<1>7. Control' /\ Paired' /\ Netted'
  BY <1>1, <1>3, <1>5 DEF Control, Paired, QuotesComeInPairs, Netted
<1>8. quote'.ask_id = IdOf(o) /\ quote'.bid_id = quote.bid_id
  BY <1>1, <1>5
<1>9. Identified'
  BY <1>1, <1>3, <1>5, <1>8, IssuedGrows DEF Identified, Issued
<1>10. Typed'
  <2>1. quote'.ask_id \in QuoteIds /\ quote.bid_id \in QuoteIds
    BY <1>3, <1>5, <1>8
  <2>2. partner' \in [Book!Ids -> QuoteIds]
    BY <1>1, <2>1 DEF EngineInv, Typed
  <2> QED
    BY <1>1, <1>3, <2>2 DEF EngineInv, Typed
<1> QED
  BY <1>3, <1>4, <1>6, <1>7, <1>9, <1>10 DEF EngineInv

\* The end of on_tick: the ids of the pair are known or refused, never 0.
LEMMA RememberQuotesEngine ==
  ASSUME EngineInv, RememberQuotes
  PROVE  EngineInv' /\ [Book!Next]_Book!vars
<1>1. /\ phase = "idle" /\ pc = "store" /\ pc' = "idle" /\ quote' = NoQuote
      /\ bid_order_id' = quote.bid_id /\ ask_order_id' = quote.ask_id
      /\ UNCHANGED <<realized_pnl, bookVars, callVars, gateVars, handled, historyVars>>
  BY DEF RememberQuotes, StoreIds
<1>2. Q!QueueInv' /\ UNCHANGED Book!vars
  BY <1>1, SameCalls
<1>3. quote.bid_id # 0 /\ quote.ask_id # 0 /\ {quote.bid_id, quote.ask_id} \subseteq Issued(next_id)
  BY <1>1 DEF EngineInv, Quoting, Identified
<1>4. Control' /\ Quoting' /\ Paired' /\ Netted'
  BY <1>1, <1>3
     DEF EngineInv, Control, Quoting, Paired, QuotesComeInPairs, Netted, callVars, gateVars
<1>5. Identified'
  BY <1>1, <1>3 DEF Identified, NoQuote, Issued, callVars
<1>6. Typed'
  BY <1>1, SameTyped DEF historyVars
<1> QED
  BY <1>2, <1>4, <1>5, <1>6 DEF EngineInv

\* The steps of the loop that report nothing leave strategy and gate alone.
LEMMA MatchStepEngine ==
  ASSUME EngineInv, MatchStep
  PROVE  EngineInv' /\ [Book!Next]_Book!vars
<1>1. /\ Book!EnterLevel \/ Book!LeaveLevel \/ Book!Rest \/ Book!Discard \/ Book!Settle
      /\ UNCHANGED <<strategyVars, gateVars, handled, historyVars>>
      /\ next_id' = next_id
      /\ phase' \in {"match", "level", "idle"} /\ phase # "idle"
      /\ handled
  <2>1. CASE handled /\ Book!Settle
    BY <2>1 DEF MatchStep, Book!Settle
  <2>2. CASE Book!EnterLevel \/ Book!LeaveLevel \/ Book!Rest \/ Book!Discard
    <3>1. phase \in {"match", "level"} /\ phase' \in {"match", "level", "idle"} /\ next_id' = next_id
      BY <2>2 DEF Book!EnterLevel, Book!LeaveLevel, Book!Rest, Book!Discard, Book!Return
    <3> QED
      BY <2>2, <3>1 DEF MatchStep, EngineInv, Control
  <2> QED
    BY <2>1, <2>2 DEF MatchStep
<1>2. Book!Next /\ Q!QueueInv'
  BY <1>1, BookStep DEF Book!Next, Book!Match, EngineInv
<1>3. position = 0
  <2>1. phase \in {"match", "level", "maker"}
    BY <1>1 DEF Book!EnterLevel, Book!LeaveLevel, Book!Rest, Book!Discard, Book!Settle
  <2> QED
    BY <1>1, <2>1 DEF EngineInv, Netted
<1>4. Control' /\ Quoting' /\ Paired' /\ Netted'
  BY <1>1, <1>3
     DEF EngineInv, Control, Quoting, Paired, QuotesComeInPairs, Netted,
         strategyVars, gateVars
<1>5. Identified'
  <2>1. next_id \in Nat \ {0}
    BY BookFacts DEF EngineInv
  <2> QED
    BY <1>1, <2>1 DEF EngineInv, Identified, Issued, strategyVars
<1>6. Typed'
  BY <1>1, SameTyped DEF strategyVars, historyVars
<1> QED
  BY <1>2, <1>4, <1>5, <1>6 DEF EngineInv

\* A report begins: nobody has been told yet.
LEMMA ReportStepEngine ==
  ASSUME EngineInv, ReportStep
  PROVE  EngineInv' /\ [Book!Next]_Book!vars
<1>1. /\ Book!ReportTaker \/ (handled /\ Book!ReportMaker)
      /\ handled' = FALSE /\ UNCHANGED <<strategyVars, gateVars, historyVars>>
      /\ next_id' = next_id /\ incoming' = incoming
      /\ phase # "idle" /\ phase' \in {"taker", "maker"}
  BY DEF ReportStep, Book!ReportTaker, Book!ReportMaker
<1>2. Book!Next /\ Q!QueueInv'
  BY <1>1, BookStep DEF Book!Next, Book!Match, EngineInv
<1>3. Netted'
  <2>1. CASE Book!ReportTaker
    BY <1>1, <2>1 DEF Book!ReportTaker, EngineInv, Netted, gateVars
  <2>2. CASE handled /\ Book!ReportMaker
    <3>1. phase = "taker" /\ phase' = "maker" /\ fill' = [fill EXCEPT !.price = best[Book!Book]]
      BY <2>2 DEF Book!ReportMaker
    <3>2. fill'.qty = fill.qty
      <4>1. fill \in [qty : Nat, price : Book!Prices \cup {Book!NoPrice}]
        BY SameBook DEF EngineInv, Q!QueueInv, Q!IndInv, Book!TypeOK
      <4> QED
        BY <3>1, <4>1
    <3>3. position' = position
      BY <1>1 DEF gateVars
    <3> QED
      BY <1>1, <2>2, <3>1, <3>2, <3>3 DEF EngineInv, Netted
  <2> QED
    BY <1>1, <2>1, <2>2
<1>4. Control' /\ Quoting' /\ Paired'
  BY <1>1 DEF EngineInv, Control, Quoting, Paired, QuotesComeInPairs, strategyVars
<1>5. Identified'
  BY <1>1 DEF EngineInv, Identified, strategyVars
<1>6. Typed'
  BY <1>1, SameTyped DEF strategyVars, historyVars
<1> QED
  BY <1>2, <1>3, <1>4, <1>5, <1>6 DEF EngineInv

\* on_fill is told of the order in hand, which is no stored quote, or of the
\* resting one; what it cancels is another order.
LEMMA ReportFacts ==
  ASSUME EngineInv, phase \in {"taker", "maker"}
  PROVE  /\ Report.order_id = (IF phase = "taker" THEN incoming.id ELSE resting)
         /\ Report.side = (IF phase = "taker" THEN incoming.side ELSE Book!Book)
         /\ Report.is_maker = (phase = "maker")
         /\ Report.order_id \in Book!Ids
         /\ Report.side \in {"Buy", "Sell"} /\ incoming.side \in {"Buy", "Sell"}
         /\ phase = "taker" => /\ Report.order_id \notin {bid_order_id, ask_order_id}
                               /\ WithdrawnOnFill(Report.order_id) = {}
         /\ phase = "maker" => resting \notin WithdrawnOnFill(Report.order_id)
<1>1. /\ Report.order_id = (IF phase = "taker" THEN incoming.id ELSE resting)
      /\ Report.side = (IF phase = "taker" THEN incoming.side ELSE Book!Book)
      /\ Report.is_maker = (phase = "maker")
  BY DEF Report, Book!Book
<1>2. /\ incoming.id \in Book!Ids /\ incoming.id = next_id - 1
      /\ incoming.side \in {"Buy", "Sell"}
      /\ phase = "maker" => resting \in Book!Ids
      /\ next_id \in 1 .. MaxOrders + 1 /\ MaxOrders \in Nat
  BY BookFacts DEF EngineInv
<1>3. Book!Book \in {"Buy", "Sell"}
  BY DEF Book!Book, Book!Opposite
<1>4. {bid_order_id, ask_order_id} \subseteq Issued(next_id - 1)
  BY DEF EngineInv, Identified
<1>5. phase = "taker" => Report.order_id \notin {bid_order_id, ask_order_id}
  BY <1>1, <1>2, <1>4 DEF Issued, Refused, Book!Ids
<1> QED
  BY <1>1, <1>2, <1>3, <1>5 DEF WithdrawnOnFill

\* TradingEngine::on_fill and the strategy's, in the middle of a match: the cancel
\* meets an order other than the one that match() refers to.
LEMMA OnFillEngine ==
  ASSUME EngineInv, OnFill
  PROVE  EngineInv' /\ [Book!Next]_Book!vars
<1> DEFINE r == Report
           W == WithdrawnOnFill(r.order_id)
<1>1. /\ phase \in {"taker", "maker"} /\ handled = FALSE /\ handled' = TRUE
      /\ position' = position + Risk!Signed(r.side, fill.qty)
      /\ Risk!UntrackOrders(UntrackedOnFill(r))
      /\ BookCancel(W)
      /\ ForgetQuotes(r.order_id, fill.price, fill.qty)
      /\ made' = made \cup (IF r.is_maker THEN {r.order_id} ELSE {})
      /\ UNCHANGED <<callVars, rateVars, now, partner>>
  BY DEF OnFill, PositionOnFill, Risk!OnFill, EngineInv, Control
<1>2. /\ r.order_id = (IF phase = "taker" THEN incoming.id ELSE resting)
      /\ r.side = (IF phase = "taker" THEN incoming.side ELSE Book!Book)
      /\ r.order_id \in Book!Ids /\ r.is_maker \in BOOLEAN
      /\ r.side \in {"Buy", "Sell"} /\ incoming.side \in {"Buy", "Sell"}
      /\ phase = "taker" => W = {}
      /\ phase = "maker" => resting \notin W
  BY <1>1, ReportFacts
<1> HIDE DEF r
<1>3. fill.qty \in Nat /\ fill.price \in Int
  BY BookFacts DEF EngineInv
<1>4. /\ phase' = phase /\ next_id' = next_id /\ incoming' = incoming /\ fill' = fill
      /\ UNCHANGED <<Book!callVars, next_id, Book!histVars>>
  BY <1>1 DEF callVars, Book!callVars, Book!histVars
<1>5. [Book!Next]_Book!vars
  <2>1. CASE UNCHANGED bookVars
    BY <2>1, <1>4 DEF bookVars, Book!vars, Book!bookVars
  <2>2. CASE \E id \in W : Rests(id) /\ Book!CancelEffect(id)
    <3>1. PICK id \in W : Rests(id) /\ Book!CancelEffect(id)
      BY <2>2
    <3>2. Book!MayCancel(id)
      BY <1>1, <1>2, <3>1 DEF Book!MayCancel
    <3> QED
      BY <1>4, <3>1, <3>2 DEF Book!CancelOrder, Book!Next, Rests
  <2> QED
    BY <1>1, <2>1, <2>2 DEF BookCancel
<1>6. Q!QueueInv'
  BY <1>5, BookStep DEF EngineInv
<1>7. /\ bid_order_id' \in {0, bid_order_id} /\ ask_order_id' \in {0, ask_order_id}
      /\ (bid_order_id' = bid_order_id /\ ask_order_id' = ask_order_id)
           \/ (bid_order_id' = 0 /\ ask_order_id' = 0)
      /\ pc' = pc /\ quote' = quote
  BY <1>1 DEF ForgetQuotes
<1>8. Control' /\ Quoting' /\ Paired'
  <2>1. Control'
    BY <1>1, <1>4, <1>7 DEF EngineInv, Control
  <2>2. Quoting'
    BY <1>7 DEF EngineInv, Quoting
  <2>3. Paired'
    BY <1>7 DEF EngineInv, Paired, QuotesComeInPairs
  <2> QED
    BY <2>1, <2>2, <2>3
<1>9. Identified'
  BY <1>4, <1>7 DEF EngineInv, Identified, Issued
<1>10. Netted'
  <2>1. CASE phase = "taker"
    BY <1>1, <1>2, <1>3, <1>4, <2>1 DEF EngineInv, Netted, Risk!Signed
  <2>2. CASE phase = "maker"
    <3>1. position = Risk!Signed(incoming.side, fill.qty)
      BY <1>1, <2>2 DEF EngineInv, Netted
    <3>2. r.side = Book!Opposite(incoming.side)
      BY <1>2, <2>2 DEF Book!Book
    <3>3. position' = 0
      BY <1>1, <1>2, <1>3, <3>1, <3>2 DEF Risk!Signed, Book!Opposite
    <3> QED
      BY <1>1, <1>4, <2>2, <3>3 DEF Netted
  <2> QED
    BY <1>1, <2>1, <2>2
<1>11. Typed'
  <2>1. /\ Risk!TypeOK /\ realized_pnl \in Int /\ made \subseteq Book!Ids
        /\ partner \in [Book!Ids -> QuoteIds]
    BY DEF EngineInv, Typed
  <2>2. Risk!Signed(r.side, fill.qty) \in Int
    BY <1>3 DEF Risk!Signed
  <2>3. position' \in Int
    BY <1>1, <2>1, <2>2 DEF Risk!TypeOK
  <2>4. realized_pnl' \in Int
    BY <1>1, <1>3, <2>1 DEF ForgetQuotes
  <2>5. made' \subseteq Book!Ids
    BY <1>1, <1>2, <2>1
  <2>6. active_orders' \in
          [1 .. MaxOrders -> [side : {"Buy", "Sell"}, price : Nat] \cup {Risk!Untracked}]
    BY <1>1, <2>1 DEF Risk!UntrackOrders, Risk!TypeOK
  <2>7. Risk!TypeOK'
    BY <1>1, <2>1, <2>3, <2>6 DEF rateVars, Risk!TypeOK
  <2> QED
    BY <1>1, <2>1, <2>3, <2>4, <2>5, <2>7 DEF Typed
<1> QED
  BY <1>5, <1>6, <1>8, <1>9, <1>10, <1>11 DEF EngineInv

\* A client submits an order between two ticks.
LEMMA SubmitExternalEngine ==
  ASSUME EngineInv, NEW o \in Externals, SubmitExternal(o)
  PROVE  EngineInv' /\ [Book!Next]_Book!vars
<1>1. /\ pc = "idle" /\ phase = "idle" /\ Submit(o) /\ o \in Requests
      /\ UNCHANGED <<strategyVars, historyVars>>
  BY DEF SubmitExternal, Quiet, Requests
<1>2. /\ [Book!Next]_Book!vars /\ Risk!TypeOK'
      /\ position' = 0 /\ handled' = handled /\ handled
      /\ phase' \in {"idle", "match"}
      /\ next_id \in Nat /\ next_id' \in Nat /\ next_id' >= next_id
      /\ phase' = "match" => next_id' = next_id + 1
  BY <1>1, SubmitFacts
<1>3. Q!QueueInv'
  BY <1>2, BookStep DEF EngineInv
<1>4. Control' /\ Quoting' /\ Paired' /\ Netted'
  BY <1>1, <1>2
     DEF EngineInv, Control, Quoting, Paired, QuotesComeInPairs, Netted, strategyVars
<1>5. Identified'
  <2>1. /\ {bid_order_id, ask_order_id} \subseteq Issued(next_id)
        /\ {quote.bid_id, quote.ask_id} \subseteq Issued(next_id)
    BY <1>1 DEF EngineInv, Identified
  <2>2. Issued(next_id) \subseteq Issued(next_id')
    BY <1>2, IssuedGrows
  <2>3. phase' = "match" => next_id' - 1 = next_id
    BY <1>2
  <2>4. Issued(next_id) \subseteq Issued(IF phase' = "idle" THEN next_id' ELSE next_id' - 1)
    BY <1>2, <2>2, <2>3
  <2>5. /\ bid_order_id' = bid_order_id /\ ask_order_id' = ask_order_id /\ quote' = quote
    BY <1>1 DEF strategyVars
  <2> QED
    BY <2>1, <2>2, <2>4, <2>5 DEF Identified
<1>6. Typed'
  BY <1>1, <1>2 DEF EngineInv, Typed, strategyVars, historyVars
<1> QED
  BY <1>2, <1>3, <1>4, <1>5, <1>6 DEF EngineInv

\* An order of type Cancel: the gate counts it, the book cancels.
LEMMA SubmitCancelEngine ==
  ASSUME EngineInv, NEW id \in Book!Ids, SubmitCancel(id)
  PROVE  EngineInv' /\ [Book!Next]_Book!vars
<1> DEFINE o == [side |-> "Buy", type |-> "Cancel", price |-> 0, qty |-> 0]
<1>1. /\ pc = "idle" /\ phase = "idle" /\ Risk!Check(o)
      /\ BookCancel(IF Risk!Passes(o) THEN {id} ELSE {})
      /\ UNCHANGED <<callVars, position, active_orders, now, handled, strategyVars, historyVars>>
  BY DEF SubmitCancel, Quiet
<1> HIDE DEF o
<1>2. [Book!Next]_Book!vars
  <2>1. CASE Risk!Passes(o)
    BY <1>1, <2>1, CancelFacts
  <2>2. CASE ~Risk!Passes(o)
    <3>1. UNCHANGED bookVars
      BY <1>1, <2>2 DEF BookCancel
    <3> QED
      BY <1>1, <3>1, SameCalls
  <2> QED
    BY <2>1, <2>2
<1>3. Q!QueueInv'
  BY <1>2, BookStep DEF EngineInv
<1>4. phase' = phase /\ next_id' = next_id /\ incoming' = incoming /\ fill' = fill
  BY <1>1 DEF callVars
<1>5. Control' /\ Identified' /\ Quoting' /\ Paired' /\ Netted'
  BY <1>1, <1>4
     DEF EngineInv, Control, Identified, Quoting, Paired, QuotesComeInPairs, Netted, strategyVars
<1>6. Risk!TypeOK'
  <2>1. Risk!TypeOK
    BY DEF EngineInv, Typed
  <2>2. /\ orders_this_second' \in Nat /\ last_rate_reset' \in Risk!Times \cup {-Second}
        /\ total_orders' \in Nat /\ total_cancels' \in Nat
        /\ accepted' \in [Risk!Times -> Nat]
    BY <1>1, <2>1, PartsAssumption
       DEF Risk!Check, Risk!CountOrder, Risk!InWindow, Risk!Restarts, Risk!TypeOK,
           Risk!RiskAssumption
  <2> QED
    BY <1>1, <2>1, <2>2 DEF Risk!TypeOK
<1>7. Typed'
  BY <1>1, <1>6 DEF EngineInv, Typed, strategyVars, historyVars
<1> QED
  BY <1>2, <1>3, <1>5, <1>7 DEF EngineInv

\* TradingEngine::cancel_order on one of the stored quotes.
LEMMA CancelFrame ==
  ASSUME EngineInv, phase = "idle", NEW id, Cancel(id)
  PROVE  /\ [Book!Next]_Book!vars /\ Q!QueueInv' /\ Risk!TypeOK'
         /\ handled' /\ position' = 0
         /\ phase' = "idle" /\ next_id' = next_id
<1>1. /\ Risk!UntrackOrders({id}) /\ BookCancel({id})
      /\ UNCHANGED <<callVars, position, rateVars, now, handled>>
  BY DEF Cancel
<1>2. [Book!Next]_Book!vars
  BY <1>1, CancelFacts
<1>3. Q!QueueInv'
  BY <1>2, BookStep DEF EngineInv
<1>4. Risk!TypeOK /\ handled /\ position = 0
  BY DEF EngineInv, Typed, Control, Netted
<1>5. active_orders' \in
        [1 .. MaxOrders -> [side : {"Buy", "Sell"}, price : Nat] \cup {Risk!Untracked}]
  BY <1>1, <1>4 DEF Risk!UntrackOrders, Risk!TypeOK
<1>6. Risk!TypeOK'
  BY <1>1, <1>4, <1>5 DEF rateVars, Risk!TypeOK
<1> QED
  BY <1>1, <1>2, <1>3, <1>4, <1>6 DEF callVars

\* cancel_resting_quotes, the bid first.
LEMMA CancelQuotesEngine ==
  ASSUME EngineInv, CancelBidQuote \/ CancelAskQuote
  PROVE  EngineInv' /\ [Book!Next]_Book!vars
<1>1. phase = "idle"
  BY DEF CancelBidQuote, CancelAskQuote, Quiet, EngineInv, Control
<1>2. PICK id : Cancel(id)
  BY DEF CancelBidQuote, CancelAskQuote
<1>3. /\ [Book!Next]_Book!vars /\ Q!QueueInv' /\ Risk!TypeOK'
      /\ handled' /\ position' = 0 /\ phase' = "idle" /\ next_id' = next_id
  BY <1>1, <1>2, CancelFrame
<1>4. handled' \in BOOLEAN /\ UNCHANGED <<realized_pnl, quote, historyVars>>
  BY <1>2 DEF CancelBidQuote, CancelAskQuote, Cancel, EngineInv, Control
<1>5. /\ bid_order_id' \in {0, bid_order_id} /\ ask_order_id' \in {0, ask_order_id}
      /\ pc' \in {"idle", "cancel_ask"}
  BY DEF CancelBidQuote, CancelAskQuote
<1>6. Paired'
  BY DEF CancelBidQuote, CancelAskQuote, Quiet, EngineInv, Paired, QuotesComeInPairs
<1>7. Control' /\ Quoting' /\ Netted'
  BY <1>3, <1>4, <1>5 DEF EngineInv, Control, Quoting, Netted
<1>8. Identified'
  BY <1>1, <1>3, <1>4, <1>5 DEF EngineInv, Identified, Issued
<1>9. Typed'
  BY <1>3, <1>4 DEF EngineInv, Typed, historyVars
<1> QED
  BY <1>3, <1>6, <1>7, <1>8, <1>9 DEF EngineInv

\* Time passes: the gate's clock alone.
LEMMA ElapseEngine ==
  ASSUME EngineInv, Elapse \/ UNCHANGED vars
  PROVE  EngineInv' /\ [Book!Next]_Book!vars
<1>1. /\ UNCHANGED <<strategyVars, bookVars, callVars, handled, historyVars>>
      /\ UNCHANGED <<position, active_orders, rateVars>>
      /\ now' = now \/ (now < MaxTime /\ now' = now + 1)
  BY DEF Elapse, Risk!Advance, Risk!gateVars, Risk!rateVars, rateVars, vars, gateVars
<1>2. Q!QueueInv' /\ UNCHANGED Book!vars
  BY <1>1, SameCalls
<1>3. Control' /\ Identified' /\ Quoting' /\ Paired' /\ Netted'
  BY <1>1 DEF EngineInv, Control, Identified, Quoting, Paired, QuotesComeInPairs, Netted,
              strategyVars, callVars
<1>4. Risk!TypeOK'
  BY <1>1, PartsAssumption
     DEF EngineInv, Typed, Risk!TypeOK, Risk!Times, Risk!RiskAssumption, rateVars
<1>5. Typed'
  BY <1>1, <1>4 DEF EngineInv, Typed, strategyVars, historyVars
<1> QED
  BY <1>2, <1>3, <1>5 DEF EngineInv

\* Every step keeps the invariant and is one of the book or leaves it.
LEMMA StepEngine ==
  ASSUME EngineInv, [Next]_vars
  PROVE  EngineInv' /\ [Book!Next]_Book!vars
BY OnTickEngine, SubmitBidEngine, SubmitAskEngine, RememberQuotesEngine, MatchStepEngine,
   ReportStepEngine, OnFillEngine, SubmitExternalEngine, SubmitCancelEngine,
   CancelQuotesEngine, ElapseEngine
   DEF Next

-----------------------------------------------------------------------------
(* The theorems                                                            *)

\* The book, the gate and the strategy stay consistent at every step of the
\* engine, in the middle of a match and between the two calls of a tick, too.
THEOREM EngineInductive == Spec => []EngineInv
<1>1. EngineInv /\ [Next]_vars => EngineInv'
  BY StepEngine
<1> QED
  BY <1>1, InitEngine, PTL DEF Spec

\* The callbacks of TradingEngine and SpreadStrategy respect the matching loop
\* that calls them: what the book sees is a behaviour of OrderBook, so that
\* on_fill never cancels the order match() refers to (order_book.cpp:104 to 117).
THEOREM CallbacksRespectBook == Spec => RefinesBook
<1>1. Init => Book!Init
  BY DEF Init
<1>2. EngineInv /\ [Next]_vars => [Book!Next]_Book!vars
  BY StepEngine
<1> QED
  BY <1>1, <1>2, EngineInductive, PTL DEF Spec, RefinesBook, Book!Spec

\* The behaviour of the book inside the engine is one of OrderBook.
LEMMA SpecOfBook == Spec => Q!Spec
<1>1. Init => Q!Init
  BY SameBook DEF Init
<1>2. EngineInv /\ [Next]_vars => [Q!Next]_Q!vars
  <2> SUFFICES ASSUME EngineInv, [Next]_vars PROVE [Q!Next]_Q!vars
    OBVIOUS
  <2>1. [Book!Next]_Book!vars
    BY StepEngine
  <2>2. Book!vars' = Book!vars => Q!vars' = Q!vars
    BY DEF Q!vars, Book!vars, Q!bookVars, Book!bookVars, Q!callVars, Book!callVars,
         Q!histVars, Book!histVars
  <2> QED
    BY <2>1, <2>2, SameBook
<1> QED
  BY <1>1, <1>2, EngineInductive, PTL DEF Spec, Q!Spec

\* All that is proved of the book holds of the book inside the engine, with
\* the callbacks of TradingEngine and SpreadStrategy in the loop of match():
\* the caches are exact whenever the strategy reads them, and its orders trade
\* by price and time.
THEOREM BookOfEngine ==
  Spec => /\ [](Q!BestIsExact /\ Q!Uncrossed /\ Q!LevelTotals /\ Q!MapIsExact)
          /\ [](Q!CallbackSeesRestingOrder /\ Q!QuantityAccounted)
          /\ Q!RefinesPriceTime
<1>1. Q!Spec => [](Q!BestIsExact /\ Q!Uncrossed)
  BY BookAssumptions, Q!BestPricesExact, Q!NeverCrossed, PTL
     DEF Q!BestPricesExact, Q!NeverCrossed
<1>2. Q!Spec => [](Q!LevelTotals /\ Q!MapIsExact)
  BY BookAssumptions, Q!TotalsExact, Q!LocationsExact, PTL
     DEF Q!TotalsExact, Q!LocationsExact
<1>3. Q!Spec => [](Q!CallbackSeesRestingOrder /\ Q!QuantityAccounted)
  BY BookAssumptions, Q!ReferenceStaysGood, Q!QuantitiesAccounted, PTL
     DEF Q!ReferenceStaysGood, Q!QuantitiesAccounted
<1>4. Q!Spec => Q!RefinesPriceTime
  BY BookAssumptions, Q!ImplementsPriceTime, PTL DEF Q!ImplementsPriceTime
<1> QED
  BY SpecOfBook, <1>1, <1>2, <1>3, <1>4, PTL

\* Types: the ids that the strategy holds were handed out or refused, and every
\* quote lies on the book's grid (order_book.h:67 indexes with it unchecked),
\* given that the quotes around a tick do (QuotesOnGrid).
THEOREM EngineTypes == Spec => []TypeOK
<1>1. EngineInv => TypeOK
  <2> SUFFICES ASSUME EngineInv PROVE TypeOK
    OBVIOUS
  <2>1. Book!TypeOK
    BY SameBook DEF EngineInv, Q!QueueInv, Q!IndInv
  <2>2. next_id \in 1 .. MaxOrders + 1 /\ MaxOrders \in Nat
    BY BookFacts DEF EngineInv
  <2>3. bid_order_id \in QuoteIds /\ ask_order_id \in QuoteIds
    BY <2>2 DEF EngineInv, Identified, Issued, QuoteIds, Book!Ids
  <2> QED
    BY <2>1, <2>3 DEF EngineInv, TypeOK, Control, Quoting, Typed
<1> QED
  BY <1>1, EngineInductive, PTL

\* Whoever trades, the two reports of a trade cancel out in the gate's position
\* (trading_engine.cpp:162, risk_gate.cpp:22).
THEOREM PositionNets == Spec => []PositionNetsOut
<1>1. EngineInv => PositionNetsOut
  BY DEF EngineInv, Netted, PositionNetsOut
<1> QED
  BY <1>1, EngineInductive, PTL

\* The strategy never waits for one quote whose other side it has forgotten
\* (spread_strategy.cpp:33).
THEOREM QuotesPaired == Spec => []QuotesComeInPairs
<1>1. EngineInv => QuotesComeInPairs
  BY DEF EngineInv, Paired
<1> QED
  BY <1>1, EngineInductive, PTL

-----------------------------------------------------------------------------
(* No self trade                                                           *)

\* With check_self_trade on the gate knows the side and the price of whatever
\* rests, and an order that it let pass reaches nothing.
KnownToGate ==
  /\ \A id \in Resting :
       /\ active_orders[id].side = order_map[id].side
       /\ active_orders[id].price = Book!LevelPrice(order_map[id].idx)
  /\ phase \in {"idle", "match"}
  /\ phase = "match" => ~Book!Crosses(incoming)
  /\ phase = "match" /\ incoming.type = "Limit" =>
       active_orders[incoming.id] = [side |-> incoming.side, price |-> incoming.price]
  /\ \A id \in Book!Ids : reported[id] = 0

TrackInv == EngineInv /\ (CheckSelfTrade => KnownToGate)

\* Where the best price of a side is, an order rests.
LEMMA BestRests ==
  ASSUME Q!QueueInv, phase = "idle", NEW s \in {"Buy", "Sell"}, best[s] >= 0
  PROVE  \E k \in Resting : /\ order_map[k].side = s
                            /\ Book!LevelPrice(order_map[k].idx) = best[s]
<1>1. Q!IndInv /\ s \in Q!Sides
  BY DEF Q!QueueInv, Q!Sides
<1>2. Q!IsBest(s, levels[s], best[s])
  BY <1>1 DEF Q!IndInv, Q!BestIsExact
<1>3. PICK i \in Q!Idx : best[s] = Q!LevelPrice(i) /\ ~Q!IsEmpty(levels[s][i])
  BY <1>2 DEF Q!IsBest, Q!NoPrice
<1>4. /\ Q!Queue(s, i) # << >> /\ Q!Queue(s, i) \in Seq(Q!RestingOrder)
      /\ \A k \in DOMAIN Q!Queue(s, i) : Q!Queue(s, i)[k].id \in Q!Ids
  BY <1>1, <1>3, BookAssumptions, Q!QueueType DEF Q!QueueType, Q!IsEmpty, Q!Queue
<1>5. 1 \in DOMAIN Q!Queue(s, i) /\ Q!Queue(s, i)[1].id \in Q!Ids
  <2>1. 1 \in DOMAIN Q!Queue(s, i)
    BY <1>4
  <2> QED
    BY <1>4, <2>1
<1> DEFINE k == Q!Queue(s, i)[1].id
<1>6. order_map[k] = [side |-> s, idx |-> i]
  BY <1>1, <1>5 DEF Q!QueueInv, Q!Queued, Q!Located
<1>7. order_map[k] # Q!NoLoc
  BY <1>1, <1>6, BookAssumptions, Q!LocationKnown DEF Q!LocationKnown
<1>8. k \in Resting
  BY <1>5, <1>7, SameBook DEF Resting, Rests
<1> HIDE DEF k
<1> QED
  BY <1>3, <1>6, <1>8 DEF Q!LevelPrice, Book!LevelPrice

\* A cancel takes its order out and moves no other.
LEMMA CancelShrinks ==
  ASSUME EngineInv, NEW ids, NEW c, ids \subseteq {c}, BookCancel(ids)
  PROVE  /\ \A id \in Book!Ids : order_map'[id] \in {order_map[id], Book!NoLoc}
         /\ \A id \in Book!Ids : id \in ids => order_map'[id] = Book!NoLoc
<1>1. order_map \in [Book!Ids -> [side : {"Buy", "Sell"}, idx : Book!Idx] \cup {Book!NoLoc}]
  BY BookFacts DEF EngineInv
<1>2. CASE \E id \in ids : Rests(id) /\ Book!CancelEffect(id)
  BY <1>1, <1>2 DEF Book!CancelEffect
<1>3. CASE (\A id \in ids : ~Rests(id)) /\ UNCHANGED bookVars
  BY <1>3 DEF bookVars, Rests
<1> QED
  BY <1>2, <1>3 DEF BookCancel

\* An order that passes the self-trade check reaches no order that rests.
LEMMA CheckedMeetsNothing ==
  ASSUME TrackInv, CheckSelfTrade, phase = "idle", NEW o \in Requests,
         Risk!SelfTradeOk(o), Book!AddOrder(o)
  PROVE  ~Book!Crosses(incoming)'
<1>1. /\ incoming' = [id |-> next_id, side |-> o.side, type |-> o.type,
                      price |-> o.price, qty |-> o.qty]
      /\ best' = best
  BY DEF Book!AddOrder, Book!bookVars
<1>2. o.side \in {"Buy", "Sell"} /\ o.price \in Nat
  BY PartsAssumption DEF Book!RequestAssumption
<1> DEFINE s == Book!Opposite(o.side)
<1>3. s \in {"Buy", "Sell"} /\ s # o.side /\ best[s] \in Int
  <2>1. s \in {"Buy", "Sell"} /\ s # o.side
    BY <1>2 DEF Book!Opposite
  <2>2. \A z \in Q!Sides : best[z] \in Int
    BY BookAssumptions, Q!BookType DEF Q!BookType, TrackInv, EngineInv, Q!QueueInv
  <2> QED
    BY <2>1, <2>2 DEF Q!Sides
<1>4. SUFFICES ASSUME best[s] >= 0, ~Book!Better(o.side, best[s], o.price) PROVE FALSE
  BY <1>1 DEF Book!Crosses
<1> HIDE DEF s
<1>5. PICK k \in Resting : /\ order_map[k].side = s
                           /\ Book!LevelPrice(order_map[k].idx) = best[s]
  BY <1>3, <1>4, BestRests DEF TrackInv, EngineInv
<1>6. active_orders[k].side = s /\ active_orders[k].price = best[s]
  BY <1>5 DEF TrackInv, KnownToGate
<1>7. k \in Risk!Tracked
  BY <1>3, <1>6 DEF Resting, Book!Ids, Risk!Tracked, Risk!Untracked
<1>8. ~Risk!CrossesTracked(o, active_orders[k])
  BY <1>7 DEF Risk!SelfTradeOk
<1> QED
  BY <1>2, <1>3, <1>4, <1>6, <1>8 DEF Risk!CrossesTracked, Book!Better

\* submit_order: a limit order that passes is known before it can rest.
LEMMA SubmitKnown ==
  ASSUME TrackInv, CheckSelfTrade, phase = "idle", NEW o \in Requests, Submit(o)
  PROVE  KnownToGate'
<1>1. KnownToGate /\ EngineInv
  BY DEF TrackInv
<1>2. CASE ~Risk!Passes(o)
  <2>1. UNCHANGED <<active_orders, bookVars, callVars>>
    BY <1>2 DEF Submit
  <2> QED
    BY <1>1, <2>1 DEF KnownToGate, bookVars, callVars, Resting, Rests, Book!Crosses
<1>3. CASE Risk!Passes(o)
  <2>1. /\ Book!AddOrder(o) /\ Risk!SelfTradeOk(o)
        /\ IF o.type = "Limit" THEN Risk!TrackOrder(next_id, o) ELSE UNCHANGED active_orders
    BY <1>3 DEF Submit, Risk!Passes
  <2>2. /\ order_map' = order_map /\ reported' = reported /\ phase' = "match"
        /\ next_id \in Book!Ids
        /\ incoming' = [id |-> next_id, side |-> o.side, type |-> o.type,
                        price |-> o.price, qty |-> o.qty]
    <3>1. next_id <= MaxOrders /\ next_id \in 1 .. MaxOrders + 1 /\ MaxOrders \in Nat
      BY <1>1, <2>1, BookFacts DEF EngineInv, Book!AddOrder
    <3> QED
      BY <2>1, <3>1 DEF Book!AddOrder, Book!bookVars, Book!Ids
  <2>3. ~Book!Crosses(incoming)'
    BY <2>1, CheckedMeetsNothing
  <2>4. next_id \notin Resting
    <3>1. Q!Numbered /\ next_id \in Q!Ids
      BY <1>1, <2>2, SameBook DEF EngineInv, Q!QueueInv
    <3>2. next_id \in Nat /\ next_id >= next_id
      BY <2>2 DEF Book!Ids
    <3>3. order_map[next_id] = Q!NoLoc
      BY <3>1, <3>2 DEF Q!Numbered
    <3> QED
      BY <3>3, SameBook DEF Resting, Rests
  <2>5. active_orders \in
          [1 .. MaxOrders -> [side : {"Buy", "Sell"}, price : Nat] \cup {Risk!Untracked}]
    BY <1>1 DEF EngineInv, Typed, Risk!TypeOK
  <2>6. /\ \A id \in Book!Ids : id # next_id => active_orders'[id] = active_orders[id]
        /\ o.type = "Limit" =>
             active_orders'[next_id] = [side |-> o.side, price |-> o.price]
    BY <2>1, <2>2, <2>5 DEF Risk!TrackOrder, Book!Ids
  <2>7. Resting' = Resting
    BY <2>2 DEF Resting, Rests
  <2>8. \A id \in Resting : id \in Book!Ids /\ id # next_id
    BY <2>4 DEF Resting
  <2> QED
    BY <1>1, <2>2, <2>3, <2>6, <2>7, <2>8 DEF KnownToGate
<1> QED
  BY <1>2, <1>3

\* What the gate forgets is what the book has taken out.
LEMMA CancelKnown ==
  ASSUME TrackInv, CheckSelfTrade, phase = "idle", NEW ids, NEW c, ids \subseteq {c},
         BookCancel(ids), UNCHANGED callVars,
         Risk!UntrackOrders(ids) \/ UNCHANGED active_orders
  PROVE  KnownToGate'
<1>1. KnownToGate /\ EngineInv
  BY DEF TrackInv
<1>2. /\ phase' = "idle" /\ reported' = reported
  BY DEF callVars
<1>3. /\ \A id \in Book!Ids : order_map'[id] \in {order_map[id], Book!NoLoc}
      /\ \A id \in Book!Ids : id \in ids => order_map'[id] = Book!NoLoc
  BY <1>1, CancelShrinks
<1>4. \A id \in Resting' : id \in Resting /\ id \notin ids /\ order_map'[id] = order_map[id]
  BY <1>3 DEF Resting, Rests
<1>5. \A id \in Resting' : active_orders'[id] = active_orders[id]
  BY <1>4 DEF Risk!UntrackOrders, Resting, Book!Ids
<1> QED
  BY <1>1, <1>2, <1>4, <1>5 DEF KnownToGate

\* With the check on the loop trades nothing: the order rests or is dropped.
LEMMA MatchKnown ==
  ASSUME TrackInv, CheckSelfTrade, MatchStep
  PROVE  KnownToGate'
<1>1. KnownToGate /\ EngineInv
  BY DEF TrackInv
<1>2. /\ Book!Rest \/ Book!Discard
      /\ active_orders' = active_orders
      /\ phase = "match"
  <2>1. phase \in {"idle", "match"} /\ (phase = "match" => ~Book!Crosses(incoming))
    BY <1>1 DEF KnownToGate
  <2> QED
    BY <2>1 DEF MatchStep, gateVars, Book!EnterLevel, Book!LeaveLevel, Book!Settle,
                Book!Rest, Book!Discard
<1>3. phase' = "idle" /\ reported' = reported
  BY <1>2 DEF Book!Rest, Book!Discard, Book!Return, Book!histVars
<1>4. CASE Book!Discard
  BY <1>1, <1>2, <1>3, <1>4 DEF KnownToGate, Book!Discard, Book!bookVars, Resting, Rests
<1>5. CASE Book!Rest
  <2>1. /\ incoming.type = "Limit"
        /\ order_map' = [order_map EXCEPT ![incoming.id] =
                           [side |-> incoming.side, idx |-> Book!PriceToIndex(incoming.price)]]
    BY <1>5 DEF Book!Rest
  <2>2. /\ order_map \in [Book!Ids -> [side : {"Buy", "Sell"}, idx : Book!Idx] \cup {Book!NoLoc}]
        /\ incoming.id \in Book!Ids
    BY <1>1, <1>2, BookFacts DEF EngineInv
  <2>3. Book!LevelPrice(Book!PriceToIndex(incoming.price)) = incoming.price
    BY <1>1, <2>1 DEF EngineInv, Q!QueueInv, Q!IndInv, Q!InCall,
                      Q!LevelPrice, Book!LevelPrice, Q!PriceToIndex, Book!PriceToIndex
  <2>4. active_orders[incoming.id] = [side |-> incoming.side, price |-> incoming.price]
    BY <1>1, <1>2, <2>1 DEF KnownToGate
  <2>5. /\ order_map'[incoming.id].side = incoming.side
        /\ order_map'[incoming.id].idx = Book!PriceToIndex(incoming.price)
    BY <2>1, <2>2
  <2>6. \A id \in Resting' : id # incoming.id =>
          id \in Resting /\ order_map'[id] = order_map[id]
    BY <2>1, <2>2 DEF Resting, Rests
  <2> QED
    BY <1>1, <1>2, <1>3, <2>3, <2>4, <2>5, <2>6 DEF KnownToGate
<1> QED
  BY <1>2, <1>4, <1>5

\* What rests stays known, and nothing crosses it.
LEMMA StepKnown ==
  ASSUME TrackInv, CheckSelfTrade, [Next]_vars
  PROVE  KnownToGate'
<1>1. KnownToGate /\ EngineInv
  BY DEF TrackInv
<1>2. ASSUME UNCHANGED <<order_map, best, phase, incoming, active_orders, reported>>
      PROVE  KnownToGate'
  BY <1>1, <1>2 DEF KnownToGate, Resting, Rests, Book!Crosses
<1>3. CASE Elapse \/ RememberQuotes \/ UNCHANGED vars \/ \E t \in Ticks : OnTick(t)
  BY <1>2, <1>3 DEF Elapse, RememberQuotes, OnTick, vars, bookVars, callVars, gateVars,
                    Risk!Advance, Risk!gateVars
<1>4. CASE SubmitBid \/ SubmitAsk \/ \E o \in Externals : SubmitExternal(o)
  <2>1. CASE \E o \in Externals : SubmitExternal(o)
    BY <2>1, SubmitKnown DEF SubmitExternal, Quiet, Requests
  <2>2. CASE SubmitBid
    BY <1>1, <2>2, SubmitKnown, QuoteIsRequest DEF SubmitBid, EngineInv, Control
  <2>3. CASE SubmitAsk
    BY <1>1, <2>3, SubmitKnown, QuoteIsRequest DEF SubmitAsk
  <2> QED
    BY <1>4, <2>1, <2>2, <2>3
<1>5. CASE CancelBidQuote \/ CancelAskQuote
  <2>1. phase = "idle"
    BY <1>1, <1>5 DEF CancelBidQuote, CancelAskQuote, Quiet, EngineInv, Control
  <2>2. PICK id : Cancel(id)
    BY <1>5 DEF CancelBidQuote, CancelAskQuote
  <2> QED
    BY <2>1, <2>2, CancelKnown DEF Cancel
<1>6. CASE \E id \in Book!Ids : SubmitCancel(id)
  <2>1. PICK id \in Book!Ids : SubmitCancel(id)
    BY <1>6
  <2>2. PICK ids \in SUBSET {id} : BookCancel(ids)
    BY <2>1 DEF SubmitCancel
  <2>3. phase = "idle" /\ UNCHANGED <<callVars, active_orders>>
    BY <2>1 DEF SubmitCancel, Quiet
  <2> QED
    BY <2>2, <2>3, CancelKnown
<1>7. CASE MatchStep
  BY <1>7, MatchKnown
<1>8. ~ReportStep /\ ~OnFill
  BY <1>1 DEF KnownToGate, ReportStep, OnFill, Book!ReportTaker, Book!ReportMaker
<1> QED
  BY <1>3, <1>4, <1>5, <1>6, <1>7, <1>8 DEF Next

\* The two invariants together are inductive.
LEMMA StepTrack == TrackInv /\ [Next]_vars => TrackInv'
BY StepEngine, StepKnown DEF TrackInv

\* Nothing rests at the start.
LEMMA InitTrack == Init => TrackInv
<1> SUFFICES ASSUME Init PROVE TrackInv
  OBVIOUS
<1>1. Book!Init
  BY DEF Init
<1>2. KnownToGate
  BY <1>1 DEF Book!Init, KnownToGate, Resting, Rests
<1> QED
  BY <1>2, InitEngine DEF TrackInv

\* With check_self_trade on, no two orders that passed the gate ever trade with
\* each other (risk_gate.cpp:84, trading_engine.cpp:103).
THEOREM NobodyTradesWithHimself == Spec => []NoSelfTrade
<1>1. TrackInv => NoSelfTrade
  BY DEF TrackInv, KnownToGate, NoSelfTrade
<1> QED
  BY <1>1, InitTrack, StepTrack, PTL DEF Spec

-----------------------------------------------------------------------------
(* Orders that are gone                                                    *)

\* Orders leave the book and none joins it.
Shrinks == \A id \in Book!Ids : order_map'[id] \in {order_map[id], Book!NoLoc}

\* When no order joins the book, what rests after a step rested before it.
LEMMA GoneStaysGone ==
  ASSUME Shrinks, NEW id
  PROVE  Rests(id)' => Rests(id) /\ order_map'[id] = order_map[id]
BY DEF Shrinks, Rests, Book!Ids, Book!NoLoc

\* Ids as numbers: those that the book knows are neither 0 nor Refused.
LEMMA IdFacts ==
  ASSUME EngineInv
  PROVE  /\ next_id \in Nat /\ next_id >= 1 /\ MaxOrders \in Nat
         /\ 0 \notin Book!Ids /\ Refused \notin Book!Ids
         /\ ~Rests(0) /\ ~Rests(Refused) /\ ~Rests(next_id)
         /\ made \subseteq Book!Ids
         /\ phase # "idle" => incoming.id = next_id - 1 /\ incoming.id \in Book!Ids
<1>1. next_id \in 1 .. MaxOrders + 1 /\ MaxOrders \in Nat
  BY BookFacts DEF EngineInv
<1>2. 0 \notin Book!Ids /\ Refused \notin Book!Ids
  BY DEF Book!Ids, Refused
<1>3. next_id \in Book!Ids => order_map[next_id] = Book!NoLoc
  <2>1. Q!Numbered /\ next_id >= next_id
    BY <1>1 DEF EngineInv, Q!QueueInv
  <2> QED
    BY <2>1, SameBook DEF Q!Numbered
<1>4. phase # "idle" => incoming.id = next_id - 1 /\ incoming.id \in Book!Ids
  BY BookFacts DEF EngineInv
<1> QED
  BY <1>1, <1>2, <1>3, <1>4 DEF Rests, EngineInv, Typed

-----------------------------------------------------------------------------
(* What rests untracked has been filled                                    *)

\* A limit order is tracked from before its match until it is filled as a maker
\* or cancelled, in every setting of the gate.
CoverInv ==
  /\ EngineInv
  /\ TrackedUntilFilled
  /\ phase # "idle" /\ incoming.type = "Limit" => incoming.id \in Risk!Tracked

\* The gate goes on to track what it is not told to forget.
LEMMA StillTracked ==
  ASSUME NEW ids, Risk!UntrackOrders(ids)
  PROVE  \A id \in Risk!Tracked : id \notin ids => id \in Risk!Tracked'
BY DEF Risk!UntrackOrders, Risk!Tracked

\* When no order joins the book and those that the gate forgets leave it or
\* have been filled, the rest is covered as before.
LEMMA KeepCover ==
  ASSUME TrackedUntilFilled, Shrinks, made \subseteq made', NEW ids,
         Risk!UntrackOrders(ids) \/ (ids = {} /\ UNCHANGED active_orders),
         \A id \in Book!Ids : id \in ids => ~Rests(id)' \/ id \in made'
  PROVE  TrackedUntilFilled'
<1> SUFFICES ASSUME NEW id \in Resting' PROVE id \in Risk!Tracked' \cup made'
  BY DEF TrackedUntilFilled
<1>1. id \in Book!Ids /\ Rests(id)' /\ id \in Resting
  <2>1. id \in Book!Ids /\ Rests(id)'
    BY DEF Resting
  <2> QED
    BY <2>1, GoneStaysGone DEF Resting
<1>2. id \in Risk!Tracked \cup made
  BY <1>1 DEF TrackedUntilFilled
<1>3. CASE id \in ids
  BY <1>1, <1>3
<1>4. CASE id \notin ids
  BY <1>2, <1>4, StillTracked DEF Risk!Tracked
<1> QED
  BY <1>3, <1>4

\* submit_order tracks a limit order before the book sees it.
LEMMA SubmitCover ==
  ASSUME CoverInv, phase = "idle", NEW o \in Requests, Submit(o), made' = made
  PROVE  /\ TrackedUntilFilled'
         /\ phase' # "idle" /\ incoming'.type = "Limit" => incoming'.id \in Risk!Tracked'
<1>1. EngineInv /\ TrackedUntilFilled
  BY DEF CoverInv
<1>2. CASE ~Risk!Passes(o)
  <2>1. UNCHANGED <<active_orders, bookVars, callVars>>
    BY <1>2 DEF Submit
  <2> QED
    BY <1>1, <2>1 DEF bookVars, callVars, TrackedUntilFilled, Resting, Rests, Risk!Tracked
<1>3. CASE Risk!Passes(o)
  <2>1. /\ Book!AddOrder(o)
        /\ IF o.type = "Limit" THEN Risk!TrackOrder(next_id, o) ELSE UNCHANGED active_orders
    BY <1>3 DEF Submit
  <2>2. /\ order_map' = order_map /\ next_id \in 1 .. MaxOrders
        /\ incoming' = [id |-> next_id, side |-> o.side, type |-> o.type,
                        price |-> o.price, qty |-> o.qty]
    <3>1. next_id <= MaxOrders /\ next_id \in 1 .. MaxOrders + 1 /\ MaxOrders \in Nat
      BY <1>1, <2>1, BookFacts DEF EngineInv, Book!AddOrder
    <3> QED
      BY <2>1, <3>1 DEF Book!AddOrder, Book!bookVars
  <2>3. Resting' = Resting
    BY <2>2 DEF Resting, Rests
  <2>4. active_orders \in
          [1 .. MaxOrders -> [side : {"Buy", "Sell"}, price : Nat] \cup {Risk!Untracked}]
    BY <1>1 DEF EngineInv, Typed, Risk!TypeOK
  <2>5. o.side \in {"Buy", "Sell"}
    BY PartsAssumption DEF Book!RequestAssumption
  <2>6. o.type = "Limit" => next_id \in Risk!Tracked' /\ Risk!Tracked \subseteq Risk!Tracked'
    <3> SUFFICES ASSUME o.type = "Limit"
                 PROVE  next_id \in Risk!Tracked' /\ Risk!Tracked \subseteq Risk!Tracked'
      OBVIOUS
    <3>1. [side |-> o.side, price |-> o.price] # Risk!Untracked
      BY <2>5 DEF Risk!Untracked
    <3>2. active_orders' = [active_orders EXCEPT ![next_id] = [side |-> o.side, price |-> o.price]]
      BY <2>1 DEF Risk!TrackOrder
    <3> QED
      BY <2>2, <2>4, <3>1, <3>2 DEF Risk!Tracked
  <2>7. o.type # "Limit" => Risk!Tracked' = Risk!Tracked
    BY <2>1 DEF Risk!Tracked
  <2> QED
    BY <1>1, <2>2, <2>3, <2>6, <2>7 DEF TrackedUntilFilled
<1> QED
  BY <1>2, <1>3

\* A step of the matching loop: the order in hand rests as one that is tracked.
LEMMA MatchCover ==
  ASSUME CoverInv, MatchStep
  PROVE  /\ TrackedUntilFilled'
         /\ phase' # "idle" /\ incoming'.type = "Limit" => incoming'.id \in Risk!Tracked'
<1>1. EngineInv /\ TrackedUntilFilled
  BY DEF CoverInv
<1>2. Risk!Tracked' = Risk!Tracked /\ made' = made /\ active_orders' = active_orders
  BY DEF MatchStep, gateVars, historyVars, Risk!Tracked
<1>3. order_map \in [Book!Ids -> [side : {"Buy", "Sell"}, idx : Book!Idx] \cup {Book!NoLoc}]
  BY <1>1, BookFacts DEF EngineInv
<1>4. CASE Book!Rest
  <2>1. /\ phase = "match" /\ incoming.type = "Limit" /\ phase' = "idle"
        /\ order_map' = [order_map EXCEPT ![incoming.id] =
                           [side |-> incoming.side, idx |-> Book!PriceToIndex(incoming.price)]]
    BY <1>4 DEF Book!Rest, Book!Return
  <2>2. incoming.id \in Risk!Tracked
    BY <2>1 DEF CoverInv
  <2>3. \A id \in Resting' : id = incoming.id \/ id \in Resting
    BY <1>3, <2>1 DEF Resting, Rests
  <2> QED
    BY <1>1, <1>2, <2>1, <2>2, <2>3 DEF TrackedUntilFilled
<1>5. CASE Book!EnterLevel \/ Book!LeaveLevel \/ Book!Settle \/ Book!Discard
  <2>1. /\ phase' # "idle" => phase # "idle" /\ incoming'.id = incoming.id
                              /\ incoming'.type = incoming.type
        /\ \A id \in Book!Ids : order_map'[id] \in {order_map[id], Book!NoLoc}
    <3>1. CASE Book!EnterLevel \/ Book!LeaveLevel \/ Book!Discard
      BY <3>1 DEF Book!EnterLevel, Book!LeaveLevel, Book!Discard, Book!Return, Book!bookVars
    <3>2. CASE Book!Settle
      <4>1. phase = "maker" /\ incoming' = [incoming EXCEPT !.qty = @ - fill.qty]
        BY <3>2 DEF Book!Settle
      <4>2. incoming'.id = incoming.id /\ incoming'.type = incoming.type
        <5>1. incoming \in Q!Order
          BY <1>1, <4>1, BookAssumptions, Q!IncomingType DEF Q!IncomingType, EngineInv, Q!QueueInv
        <5> QED
          BY <4>1, <5>1 DEF Q!Order
      <4>3. \A id \in Book!Ids : order_map'[id] \in {order_map[id], Book!NoLoc}
        BY <1>3, <3>2 DEF Book!Settle
      <4> QED
        BY <4>1, <4>2, <4>3
    <3> QED
      BY <1>5, <3>1, <3>2
  <2>2. Resting' \subseteq Resting
    BY <2>1, GoneStaysGone DEF Resting, Shrinks
  <2> QED
    BY <1>1, <1>2, <2>1, <2>2 DEF TrackedUntilFilled, CoverInv
<1> QED
  BY <1>4, <1>5 DEF MatchStep

\* on_fill forgets the maker, which has been filled then, and the quote that
\* it cancels in the book; the order in hand is neither.
LEMMA OnFillCover ==
  ASSUME CoverInv, OnFill
  PROVE  /\ TrackedUntilFilled'
         /\ phase' # "idle" /\ incoming'.type = "Limit" => incoming'.id \in Risk!Tracked'
<1> DEFINE r == Report.order_id
           W == WithdrawnOnFill(r)
           M == IF phase = "maker" THEN {resting} ELSE {}
<1>1. EngineInv /\ TrackedUntilFilled
  BY DEF CoverInv
<1>2. /\ phase \in {"taker", "maker"} /\ phase' = phase /\ incoming' = incoming
      /\ BookCancel(W) /\ made' = made \cup M
      /\ Risk!UntrackOrders(W \cup M)
      /\ W = IF r \in {bid_order_id, ask_order_id}
             THEN {bid_order_id, ask_order_id} \ {0, r} ELSE {}
  <2>1. phase \in {"taker", "maker"}
    BY DEF OnFill
  <2>2. /\ r = (IF phase = "taker" THEN incoming.id ELSE resting)
        /\ Report.is_maker = (phase = "maker")
    BY <1>1, <2>1, ReportFacts
  <2>3. UntrackedOnFill(Report) = W \cup M /\ made' = made \cup M
    BY <2>1, <2>2 DEF OnFill, UntrackedOnFill
  <2> QED
    BY <2>1, <2>3 DEF OnFill, callVars, WithdrawnOnFill
<1>3. PICK c : W \subseteq {c}
  BY <1>2
<1>4. incoming.id \notin W \cup M
  <2>1. /\ incoming.id \in Book!Ids /\ incoming.id = next_id - 1
        /\ next_id \in 1 .. MaxOrders + 1 /\ MaxOrders \in Nat
        /\ phase = "maker" => resting \in Book!Ids /\ resting < incoming.id
    BY <1>1, <1>2, BookFacts DEF EngineInv
  <2>2. {bid_order_id, ask_order_id} \subseteq Issued(next_id - 1)
    BY <1>1, <1>2 DEF EngineInv, Identified
  <2>3. incoming.id \notin {bid_order_id, ask_order_id}
    BY <2>1, <2>2 DEF Issued, Refused, Book!Ids
  <2> QED
    BY <1>2, <2>1, <2>3 DEF Book!Ids
<1> HIDE DEF r, W, M
<1>5. /\ Shrinks
      /\ \A id \in Book!Ids : id \in W => order_map'[id] = Book!NoLoc
  BY <1>1, <1>2, <1>3, CancelShrinks DEF Shrinks
<1>6. \A id \in Book!Ids : id \in W \cup M => ~Rests(id)' \/ id \in made'
  BY <1>2, <1>5 DEF Rests
<1>7. TrackedUntilFilled'
  BY <1>1, <1>2, <1>5, <1>6, KeepCover
<1> QED
  BY <1>2, <1>4, <1>7, StillTracked DEF CoverInv

\* Every step keeps the cover.
LEMMA StepCover == CoverInv /\ [Next]_vars => CoverInv'
<1> SUFFICES ASSUME CoverInv, [Next]_vars PROVE CoverInv'
  OBVIOUS
<1>1. EngineInv /\ EngineInv'
  BY StepEngine DEF CoverInv
<1> SUFFICES /\ TrackedUntilFilled'
             /\ phase' # "idle" /\ incoming'.type = "Limit" => incoming'.id \in Risk!Tracked'
  BY <1>1 DEF CoverInv
<1>2. CASE Elapse \/ RememberQuotes \/ ReportStep \/ UNCHANGED vars \/ \E t \in Ticks : OnTick(t)
  <2>1. /\ UNCHANGED <<order_map, made, active_orders>>
        /\ phase' # "idle" => phase # "idle" /\ incoming' = incoming
    BY <1>2 DEF Elapse, RememberQuotes, ReportStep, OnTick, vars, bookVars, callVars, gateVars,
                historyVars, Risk!Advance, Risk!gateVars, Book!ReportTaker, Book!ReportMaker,
                Book!bookVars
  <2> QED
    BY <2>1 DEF CoverInv, TrackedUntilFilled, Resting, Rests, Risk!Tracked
<1>3. CASE SubmitBid \/ SubmitAsk \/ \E o \in Externals : SubmitExternal(o)
  <2>1. CASE \E o \in Externals : SubmitExternal(o)
    BY <2>1, SubmitCover DEF SubmitExternal, Quiet, Requests, historyVars
  <2>2. CASE SubmitBid
    BY <1>1, <2>2, SubmitCover, QuoteIsRequest DEF SubmitBid, EngineInv, Control, historyVars
  <2>3. CASE SubmitAsk
    BY <1>1, <2>3, SubmitCover, QuoteIsRequest DEF SubmitAsk
  <2> QED
    BY <1>3, <2>1, <2>2, <2>3
<1>4. CASE CancelBidQuote \/ CancelAskQuote
  <2>1. phase = "idle" /\ phase' = "idle" /\ made' = made
    BY <1>1, <1>4 DEF CancelBidQuote, CancelAskQuote, Quiet, EngineInv, Control, Cancel,
                      callVars, historyVars
  <2>2. PICK id : Risk!UntrackOrders({id}) /\ BookCancel({id})
    BY <1>4 DEF CancelBidQuote, CancelAskQuote, Cancel
  <2>3. /\ Shrinks
        /\ \A x \in Book!Ids : x \in {id} => order_map'[x] = Book!NoLoc
    BY <1>1, <2>2, CancelShrinks DEF Shrinks
  <2>4. \A x \in Book!Ids : x \in {id} => ~Rests(x)' \/ x \in made'
    BY <2>3 DEF Rests
  <2>5. TrackedUntilFilled'
    BY <2>1, <2>2, <2>3, <2>4, KeepCover DEF CoverInv
  <2> QED
    BY <2>1, <2>5
<1>5. CASE \E id \in Book!Ids : SubmitCancel(id)
  <2>1. PICK id \in Book!Ids : SubmitCancel(id)
    BY <1>5
  <2>2. PICK ids \in SUBSET {id} : BookCancel(ids)
    BY <2>1 DEF SubmitCancel
  <2>3. phase' = "idle" /\ made' = made /\ active_orders' = active_orders
    BY <2>1 DEF SubmitCancel, Quiet, callVars, historyVars
  <2>4. Shrinks
    BY <1>1, <2>2, CancelShrinks DEF Shrinks
  <2>5. TrackedUntilFilled'
    <3>1. PICK none : none = {}
      OBVIOUS
    <3>2. \A x \in Book!Ids : x \in none => ~Rests(x)' \/ x \in made'
      BY <3>1
    <3>3. TrackedUntilFilled /\ made \subseteq made' /\ UNCHANGED active_orders
      BY <2>3 DEF CoverInv
    <3> QED
      BY <2>4, <3>1, <3>2, <3>3, KeepCover
  <2> QED
    BY <2>3, <2>5
<1> QED
  BY <1>2, <1>3, <1>4, <1>5, MatchCover, OnFillCover DEF Next

\* In every setting of the gate, an order rests unknown to it only if it has
\* been filled as a maker before (trading_engine.cpp:104, 110, 165).
THEOREM TrackingCoversBook == Spec => []TrackedUntilFilled
<1>1. Init => CoverInv
  <2> SUFFICES ASSUME Init PROVE CoverInv
    OBVIOUS
  <2>1. Book!Init
    BY DEF Init
  <2> QED
    BY <2>1, InitEngine
       DEF CoverInv, Book!Init, TrackedUntilFilled, Resting, Rests
<1>2. CoverInv => TrackedUntilFilled
  BY DEF CoverInv
<1> QED
  BY <1>1, <1>2, StepCover, PTL DEF Spec

-----------------------------------------------------------------------------
(* Two dead quotes                                                         *)

\* submit_order rests nothing yet.
LEMMA SubmitKeepsBook ==
  ASSUME NEW o, Submit(o)
  PROVE  order_map' = order_map
BY DEF Submit, Book!AddOrder, Book!bookVars, bookVars

\* An order joins the book only at the end of its own match.
LEMMA OnlyRestAdds ==
  ASSUME EngineInv, Next
  PROVE  Shrinks \/ Book!Rest
<1>1. order_map \in [Book!Ids -> [side : {"Buy", "Sell"}, idx : Book!Idx] \cup {Book!NoLoc}]
  BY BookFacts DEF EngineInv
<1>2. CASE order_map' = order_map
  BY <1>2 DEF Shrinks
<1>3. CASE \E ids : BookCancel(ids) /\ \E c : ids \subseteq {c}
  BY <1>3, CancelShrinks DEF Shrinks
<1>4. CASE MatchStep
  <2>1. CASE Book!EnterLevel \/ Book!LeaveLevel \/ Book!Discard
    BY <1>2, <2>1 DEF Book!EnterLevel, Book!LeaveLevel, Book!Discard, Book!Return, Book!bookVars
  <2>2. CASE Book!Settle
    BY <1>1, <2>2 DEF Book!Settle, Shrinks
  <2> QED
    BY <1>4, <2>1, <2>2 DEF MatchStep
<1>5. CASE SubmitBid \/ SubmitAsk \/ \E o \in Externals : SubmitExternal(o)
  <2>1. phase = "idle" /\ \E o : Submit(o)
    BY <1>5 DEF SubmitBid, SubmitAsk, SubmitExternal, Quiet, EngineInv, Control
  <2> QED
    BY <1>2, <2>1, SubmitKeepsBook
<1>6. CASE OnFill
  <2>1. BookCancel(WithdrawnOnFill(Report.order_id))
    BY <1>6 DEF OnFill
  <2>2. \E c : WithdrawnOnFill(Report.order_id) \subseteq {c}
    BY DEF WithdrawnOnFill
  <2> QED
    BY <1>3, <2>1, <2>2
<1>7. CASE CancelBidQuote \/ CancelAskQuote
  BY <1>3, <1>7 DEF CancelBidQuote, CancelAskQuote, Cancel
<1>8. CASE \E id \in Book!Ids : SubmitCancel(id)
  <2>1. PICK id \in Book!Ids : SubmitCancel(id)
    BY <1>8
  <2>2. PICK ids \in SUBSET {id} : BookCancel(ids)
    BY <2>1 DEF SubmitCancel
  <2> QED
    BY <1>3, <2>2
<1>9. CASE Elapse \/ RememberQuotes \/ ReportStep \/ \E t \in Ticks : OnTick(t)
  BY <1>2, <1>9 DEF Elapse, RememberQuotes, ReportStep, OnTick, bookVars,
                    Book!ReportTaker, Book!ReportMaker, Book!bookVars
<1> QED
  BY <1>4, <1>5, <1>6, <1>7, <1>8, <1>9 DEF Next

\* What is gone stays gone, and on_fill is told of orders that rest or of the
\* order in hand: neither is a quote that the strategy remembers and that is
\* not in the book.
LEMMA DeadStays ==
  ASSUME EngineInv, EngineInv', Next, NoQuoteLeft, ~CancelBidQuote
  PROVE  NoQuoteLeft'
<1>1. pc = "idle" /\ bid_order_id # 0 /\ ask_order_id # 0
  BY DEF NoQuoteLeft, EngineInv, Quoting, Paired, Control
<1>2. /\ {bid_order_id, ask_order_id} \subseteq
           Issued(IF phase = "idle" THEN next_id ELSE next_id - 1)
      /\ next_id \in Nat
  BY IdFacts DEF EngineInv, Identified
<1>3. UNCHANGED <<bid_order_id, ask_order_id>>
  <2>1. CASE OnFill
    <3>1. /\ phase \in {"taker", "maker"}
          /\ ForgetQuotes(Report.order_id, fill.price, fill.qty)
      BY <2>1 DEF OnFill
    <3>2. Report.order_id \notin {bid_order_id, ask_order_id}
      <4>1. CASE phase = "taker"
        BY <4>1, ReportFacts
      <4>2. CASE phase = "maker"
        <5>1. Report.order_id = resting /\ Rests(resting)
          BY <4>2, ReportFacts, BookFacts DEF EngineInv
        <5> QED
          BY <5>1 DEF NoQuoteLeft
      <4> QED
        BY <3>1, <4>1, <4>2
    <3> QED
      BY <3>1, <3>2 DEF ForgetQuotes
  <2>2. ~SubmitBid /\ ~SubmitAsk /\ ~RememberQuotes /\ ~CancelAskQuote
    BY <1>1 DEF SubmitBid, SubmitAsk, RememberQuotes, StoreIds, CancelAskQuote
  <2>3. ~\E t \in Ticks : OnTick(t)
    BY <1>1 DEF OnTick, BeginQuote, MayQuote
  <2> QED
    BY <2>1, <2>2, <2>3
       DEF Next, MatchStep, ReportStep, SubmitExternal, SubmitCancel, Elapse, strategyVars
<1>4. ASSUME NEW id \in {bid_order_id, ask_order_id} PROVE ~Rests(id)'
  <2>1. ~Rests(id)
    BY DEF NoQuoteLeft
  <2>2. CASE Shrinks
    BY <2>1, <2>2, GoneStaysGone
  <2>3. CASE Book!Rest
    <3>1. /\ phase = "match"
          /\ order_map' = [order_map EXCEPT ![incoming.id] =
                             [side |-> incoming.side, idx |-> Book!PriceToIndex(incoming.price)]]
      BY <2>3 DEF Book!Rest
    <3>2. incoming.id = next_id - 1 /\ incoming.id \in Book!Ids
      BY <3>1, IdFacts
    <3>3. id # incoming.id
      BY <1>2, <3>1, <3>2 DEF Issued, Refused, Book!Ids
    <3>4. order_map \in [Book!Ids -> [side : {"Buy", "Sell"}, idx : Book!Idx] \cup {Book!NoLoc}]
      BY BookFacts DEF EngineInv
    <3> QED
      BY <2>1, <3>1, <3>3, <3>4 DEF Rests
  <2> QED
    BY <2>2, <2>3, OnlyRestAdds
<1> QED
  BY <1>1, <1>3, <1>4 DEF NoQuoteLeft

\* Once the strategy remembers two quotes that are both dead, nothing but
\* cancel_resting_quotes makes it forget them (spread_strategy.cpp:33, 90).
THEOREM DeadQuotesBlock == Spec => StuckUntilCancelled
<1>1. EngineInv /\ EngineInv' /\ [Next]_vars =>
        [NoQuoteLeft /\ ~CancelBidQuote => NoQuoteLeft']_vars
  BY DeadStays
<1> QED
  BY <1>1, EngineInductive, PTL DEF Spec, StuckUntilCancelled

-----------------------------------------------------------------------------
(* One cancels the other                                                   *)

\* The orders that on_tick has submitted and not remembered yet: the order in
\* hand is the last of them, and neither has been a maker.
InFlight ==
  /\ pc = "ask" /\ phase # "idle" =>
       /\ incoming.id = quote.bid_id /\ incoming.price = quote.buy_px
       /\ incoming.side = "Buy" /\ incoming.type = "Limit"
  /\ pc = "store" /\ phase # "idle" =>
       /\ incoming.id = quote.ask_id /\ incoming.price = quote.sell_px
       /\ incoming.side = "Sell" /\ incoming.id # quote.bid_id
  /\ pc \in {"ask", "store"} =>
       /\ quote.bid_id \notin made
       /\ Rests(quote.bid_id) =>
            Book!LevelPrice(order_map[quote.bid_id].idx) = quote.buy_px
  /\ pc = "store" => quote.ask_id \notin made

\* A pair of quotes is in the locals of on_tick, or the strategy holds it, or
\* one of the two is gone.
Local(id) == pc = "store" /\ {id, partner[id]} = {quote.bid_id, quote.ask_id}
Held(id) == {id, partner[id]} = {bid_order_id, ask_order_id}
Apart(id) == ~Rests(id) \/ ~Rests(partner[id])

Unpaired == \A id \in Book!Ids : id >= next_id => partner[id] = 0 /\ id \notin made

PairsKnown ==
  \A id \in Book!Ids : partner[id] # 0 =>
    /\ partner[id] \in Issued(next_id) /\ partner[id] # id
    /\ Local(id) \/ Held(id) \/ Apart(id)
    /\ phase # "idle" /\ incoming.id \in {id, partner[id]} => Local(id)

PairInv == EngineInv /\ InFlight /\ Unpaired /\ PairsKnown /\ OneCancelsOther

\* A step that pairs and fills nothing keeps the pairs if it keeps the place
\* of each of them or takes one of the two out.
LEMMA KeepPairs ==
  ASSUME PairInv, Shrinks, partner' = partner, made' = made,
         next_id \in Nat, next_id' \in Nat, next_id <= next_id',
         \A id \in Book!Ids : partner[id] # 0 /\ (Local(id) \/ Held(id)) =>
           (Local(id) \/ Held(id) \/ Apart(id))',
         \A id \in Book!Ids : partner[id] # 0 =>
           (phase # "idle" /\ incoming.id \in {id, partner[id]} => Local(id))'
  PROVE  Unpaired' /\ PairsKnown' /\ OneCancelsOther'
<1>1. Unpaired'
  BY DEF PairInv, Unpaired, Book!Ids
<1>2. PairsKnown'
  <2> SUFFICES ASSUME NEW id \in Book!Ids, partner[id] # 0
               PROVE  /\ partner[id] \in Issued(next_id') /\ partner[id] # id
                      /\ (Local(id) \/ Held(id) \/ Apart(id))'
                      /\ (phase # "idle" /\ incoming.id \in {id, partner[id]} => Local(id))'
    BY DEF PairsKnown
  <2>1. /\ partner[id] \in Issued(next_id) /\ partner[id] # id
        /\ Local(id) \/ Held(id) \/ Apart(id)
    BY DEF PairInv, PairsKnown
  <2>2. Apart(id) => Apart(id)'
    BY GoneStaysGone DEF Apart
  <2> QED
    BY <2>1, <2>2, IssuedGrows
<1>3. OneCancelsOther'
  BY GoneStaysGone DEF PairInv, OneCancelsOther
<1> QED
  BY <1>1, <1>2, <1>3

\* submit_order: the order is in hand, or refused and nothing has changed.
LEMMA SubmitCases ==
  ASSUME EngineInv, phase = "idle", NEW o, Submit(o)
  PROVE  /\ order_map' = order_map
         /\ \/ /\ IdOf(o) = next_id /\ next_id \in Book!Ids /\ next_id' = next_id + 1
               /\ phase' = "match"
               /\ incoming' = [id |-> next_id, side |-> o.side, type |-> o.type,
                               price |-> o.price, qty |-> o.qty]
            \/ IdOf(o) = Refused /\ next_id' = next_id /\ phase' = "idle"
<1>1. CASE ~Risk!Passes(o)
  BY <1>1 DEF Submit, IdOf, bookVars, callVars
<1>2. CASE Risk!Passes(o)
  <2>1. Book!AddOrder(o)
    BY <1>2 DEF Submit
  <2> QED
    BY <1>2, <2>1, IdFacts DEF IdOf, Book!AddOrder, Book!bookVars, Book!Ids
<1> QED
  BY <1>1, <1>2

\* A step that leaves the book, the pairs and the locals of on_tick alone.
LEMMA SamePairs ==
  ASSUME PairInv,
         UNCHANGED <<order_map, partner, made, next_id, pc, quote, bid_order_id, ask_order_id>>,
         phase' # "idle" => phase # "idle" /\ incoming' = incoming
  PROVE  InFlight' /\ Unpaired' /\ PairsKnown' /\ OneCancelsOther'
<1>1. next_id \in Nat /\ next_id' \in Nat /\ next_id <= next_id' /\ Shrinks
  BY IdFacts DEF PairInv, Shrinks
<1>2. \A id \in Book!Ids : Local(id)' = Local(id) /\ Held(id)' = Held(id)
  BY DEF Local, Held
<1>3. \A id \in Book!Ids : partner[id] # 0 =>
        (phase # "idle" /\ incoming.id \in {id, partner[id]} => Local(id))'
  BY <1>2 DEF PairInv, PairsKnown
<1>4. Unpaired' /\ PairsKnown' /\ OneCancelsOther'
  BY <1>1, <1>2, <1>3, KeepPairs
<1>5. InFlight'
  BY DEF PairInv, InFlight, Rests
<1> QED
  BY <1>4, <1>5

\* The end of on_tick: the pair in its locals is the one the strategy holds.
LEMMA RememberPairs ==
  ASSUME PairInv, RememberQuotes
  PROVE  InFlight' /\ Unpaired' /\ PairsKnown' /\ OneCancelsOther'
<1>1. /\ phase = "idle" /\ phase' = "idle" /\ pc = "store" /\ pc' = "idle"
      /\ bid_order_id' = quote.bid_id /\ ask_order_id' = quote.ask_id
      /\ bid_order_id = 0 /\ ask_order_id = 0
      /\ UNCHANGED <<order_map, partner, made, next_id>>
  BY DEF RememberQuotes, StoreIds, bookVars, callVars, historyVars,
         PairInv, EngineInv, Quoting
<1>2. next_id \in Nat /\ next_id' \in Nat /\ next_id <= next_id' /\ Shrinks
  BY <1>1, IdFacts DEF PairInv, Shrinks
<1>3. \A id \in Book!Ids : /\ Local(id) => Held(id)'
                           /\ ~Held(id)
  BY <1>1, IdFacts DEF Local, Held, PairInv
<1>4. Unpaired' /\ PairsKnown' /\ OneCancelsOther'
  BY <1>1, <1>2, <1>3, KeepPairs
<1> QED
  BY <1>1, <1>4 DEF InFlight

\* A tick that begins a quote finds none in the locals.
LEMMA OnTickPairs ==
  ASSUME PairInv, NEW t \in Ticks, OnTick(t)
  PROVE  InFlight' /\ Unpaired' /\ PairsKnown' /\ OneCancelsOther'
<1>1. /\ phase = "idle" /\ phase' = "idle" /\ pc = "idle" /\ pc' = "bid"
      /\ UNCHANGED <<order_map, partner, made, next_id, bid_order_id, ask_order_id>>
  BY DEF OnTick, Quiet, BeginQuote, bookVars, callVars, historyVars
<1>2. next_id \in Nat /\ next_id' \in Nat /\ next_id <= next_id' /\ Shrinks
  BY <1>1, IdFacts DEF PairInv, Shrinks
<1>3. \A id \in Book!Ids : ~Local(id) /\ Held(id)' = Held(id)
  BY <1>1 DEF Local, Held
<1>4. Unpaired' /\ PairsKnown' /\ OneCancelsOther'
  BY <1>1, <1>2, <1>3, KeepPairs
<1> QED
  BY <1>1, <1>4 DEF InFlight

\* A fresh order has no partner yet.
LEMMA FreshOrder ==
  ASSUME PairInv, NEW id \in Book!Ids, partner[id] # 0
  PROVE  id # next_id /\ partner[id] # next_id
BY IdFacts DEF PairInv, Unpaired, PairsKnown, Issued, Refused

\* A client's order has no partner.
LEMMA SubmitExternalPairs ==
  ASSUME PairInv, NEW o, SubmitExternal(o)
  PROVE  InFlight' /\ Unpaired' /\ PairsKnown' /\ OneCancelsOther'
<1>1. /\ phase = "idle" /\ pc = "idle" /\ pc' = "idle" /\ Submit(o)
      /\ UNCHANGED <<partner, made, quote, bid_order_id, ask_order_id>>
  BY DEF SubmitExternal, Quiet, strategyVars, historyVars
<1>2. /\ order_map' = order_map /\ next_id' \in {next_id, next_id + 1}
      /\ phase' # "idle" => incoming'.id = next_id
  BY <1>1, SubmitCases DEF PairInv
<1>3. next_id \in Nat /\ next_id' \in Nat /\ next_id <= next_id' /\ Shrinks
  BY <1>2, IdFacts DEF PairInv, Shrinks
<1>4. \A id \in Book!Ids : ~Local(id) /\ Held(id)' = Held(id)
  BY <1>1 DEF Local, Held
<1>5. \A id \in Book!Ids : partner[id] # 0 /\ phase' # "idle" =>
        incoming'.id \notin {id, partner[id]}
  BY <1>2, FreshOrder
<1>6. Unpaired' /\ PairsKnown' /\ OneCancelsOther'
  BY <1>1, <1>3, <1>4, <1>5, KeepPairs
<1> QED
  BY <1>1, <1>6 DEF InFlight

\* The bid is new: nothing is its partner yet.
LEMMA SubmitBidPairs ==
  ASSUME PairInv, SubmitBid
  PROVE  InFlight' /\ Unpaired' /\ PairsKnown' /\ OneCancelsOther'
<1> DEFINE o == QuoteOrder("Buy")
<1>1. /\ phase = "idle" /\ pc = "bid" /\ pc' = "ask" /\ Submit(o)
      /\ quote' = [quote EXCEPT !.bid_id = IdOf(o)]
      /\ UNCHANGED <<partner, made, bid_order_id, ask_order_id>>
  BY DEF SubmitBid, PairInv, EngineInv, Control, historyVars
<1>2. o.side = "Buy" /\ o.type = "Limit" /\ o.price = quote.buy_px
  BY DEF QuoteOrder
<1> HIDE DEF o
<1>3. /\ order_map' = order_map /\ next_id' \in {next_id, next_id + 1}
      /\ phase' # "idle" =>
           /\ incoming'.id = next_id /\ IdOf(o) = next_id /\ next_id \in Book!Ids
           /\ incoming'.price = o.price /\ incoming'.side = o.side /\ incoming'.type = o.type
      /\ IdOf(o) \in {next_id, Refused}
  BY <1>1, SubmitCases DEF PairInv
<1>4. next_id \in Nat /\ next_id' \in Nat /\ next_id <= next_id' /\ Shrinks
  BY <1>3, IdFacts DEF PairInv, Shrinks
<1>5. \A id \in Book!Ids : ~Local(id) /\ Held(id)' = Held(id)
  BY <1>1 DEF Local, Held
<1>6. \A id \in Book!Ids : partner[id] # 0 /\ phase' # "idle" =>
        incoming'.id \notin {id, partner[id]}
  BY <1>3, FreshOrder
<1>7. Unpaired' /\ PairsKnown' /\ OneCancelsOther'
  BY <1>1, <1>4, <1>5, <1>6, KeepPairs
<1>8. quote'.bid_id = IdOf(o) /\ quote'.buy_px = quote.buy_px
  <2>1. quote \in [buy_px : Grid, sell_px : Grid, bid_id : QuoteIds, ask_id : QuoteIds]
    BY <1>1 DEF PairInv, EngineInv, Quoting, NoQuote, QuoteIds
  <2> QED
    BY <1>1, <2>1
<1>9. quote'.bid_id \notin made' /\ ~Rests(quote'.bid_id)
  BY <1>1, <1>3, <1>4, <1>8, IdFacts DEF PairInv, Unpaired
<1>10. InFlight'
  BY <1>1, <1>2, <1>3, <1>8, <1>9 DEF InFlight, Rests
<1> QED
  BY <1>7, <1>10

\* The bid and the ask become partners, both in the locals of on_tick.
LEMMA SubmitAskPairs ==
  ASSUME PairInv, SubmitAsk
  PROVE  InFlight' /\ Unpaired' /\ PairsKnown' /\ OneCancelsOther'
<1> DEFINE o == QuoteOrder("Sell")
<1>1. /\ phase = "idle" /\ pc = "ask" /\ pc' = "store" /\ Submit(o)
      /\ quote' = [quote EXCEPT !.ask_id = IdOf(o)]
      /\ UNCHANGED <<made, bid_order_id, ask_order_id>>
      /\ partner' = [id \in Book!Ids |-> IF id = quote.bid_id THEN quote'.ask_id
                                         ELSE IF id = quote'.ask_id THEN quote.bid_id
                                         ELSE partner[id]]
  BY DEF SubmitAsk
<1>2. o.side = "Sell" /\ o.price = quote.sell_px
  BY DEF QuoteOrder
<1> HIDE DEF o
<1>3. /\ order_map' = order_map /\ next_id' \in {next_id, next_id + 1}
      /\ phase' # "idle" =>
           /\ incoming'.id = next_id /\ IdOf(o) = next_id /\ next_id \in Book!Ids
           /\ incoming'.price = o.price /\ incoming'.side = o.side
      /\ IdOf(o) = Refused \/ (IdOf(o) = next_id /\ next_id' = next_id + 1)
  BY <1>1, SubmitCases DEF PairInv
<1>4. /\ next_id \in Nat /\ next_id' \in Nat /\ next_id <= next_id' /\ Shrinks
      /\ next_id >= 1 /\ Refused \notin Book!Ids
  BY <1>3, IdFacts DEF PairInv, Shrinks
<1>5. /\ quote'.ask_id = IdOf(o) /\ quote'.bid_id = quote.bid_id
      /\ quote'.sell_px = quote.sell_px /\ quote'.buy_px = quote.buy_px
      /\ quote.bid_id # 0 /\ quote.bid_id \in Issued(next_id) /\ quote.bid_id # next_id
      /\ bid_order_id = 0 /\ ask_order_id = 0
  <2>1. /\ quote \in [buy_px : Grid, sell_px : Grid, bid_id : QuoteIds, ask_id : QuoteIds]
        /\ quote.bid_id # 0 /\ quote.bid_id \in Issued(next_id)
        /\ bid_order_id = 0 /\ ask_order_id = 0
    BY <1>1 DEF PairInv, EngineInv, Quoting, Identified, NoQuote, QuoteIds
  <2>2. quote.bid_id # next_id
    BY <1>4, <2>1 DEF Issued, Refused
  <2> QED
    BY <1>1, <2>1, <2>2
<1>6. IdOf(o) \in Issued(next_id') \ {0} /\ Issued(next_id) \subseteq Issued(next_id')
  <2>1. Issued(next_id) \subseteq Issued(next_id')
    BY <1>4, IssuedGrows
  <2>2. Refused \in Issued(next_id') \ {0}
    BY DEF Issued, Refused
  <2>3. next_id' = next_id + 1 => next_id \in Issued(next_id') \ {0}
    BY <1>4 DEF Issued
  <2> QED
    BY <1>3, <2>1, <2>2, <2>3
<1>7. quote.bid_id \notin made /\ quote'.ask_id \notin made
  <2>1. quote.bid_id \notin made
    BY <1>1 DEF PairInv, InFlight
  <2>2. next_id \notin made /\ Refused \notin made
    BY <1>4, IdFacts DEF PairInv, Unpaired
  <2> QED
    BY <1>3, <1>5, <2>1, <2>2
<1>8. InFlight'
  BY <1>1, <1>2, <1>3, <1>5, <1>7 DEF PairInv, InFlight, Rests
<1>9. Unpaired'
  BY <1>1, <1>3, <1>4, <1>5 DEF PairInv, Unpaired, Issued, Refused, Book!Ids
<1>10. PairsKnown'
  <2> SUFFICES ASSUME NEW id \in Book!Ids, partner'[id] # 0
               PROVE  /\ partner'[id] \in Issued(next_id') /\ partner'[id] # id
                      /\ (Local(id) \/ Held(id) \/ Apart(id))'
                      /\ (phase # "idle" /\ incoming.id \in {id, partner[id]} => Local(id))'
    BY DEF PairsKnown
  <2>1. CASE id \in {quote.bid_id, quote'.ask_id}
    <3>1. {id, partner'[id]} = {quote.bid_id, quote'.ask_id} /\ quote.bid_id # quote'.ask_id
      BY <1>1, <1>3, <1>4, <1>5, <2>1
    <3>2. Local(id)'
      BY <1>1, <1>5, <3>1 DEF Local
    <3> QED
      BY <1>5, <1>6, <3>1, <3>2
  <2>2. CASE id \notin {quote.bid_id, quote'.ask_id}
    <3>1. partner'[id] = partner[id] /\ partner[id] # 0
      BY <1>1, <2>2
    <3>2. /\ partner[id] \in Issued(next_id) /\ partner[id] # id
          /\ Local(id) \/ Held(id) \/ Apart(id)
      BY <3>1 DEF PairInv, PairsKnown
    <3>3. ~Local(id) /\ ~Held(id)
      BY <1>1, <1>5, IdFacts DEF Local, Held, PairInv
    <3>4. Apart(id)'
      BY <1>3, <3>1, <3>2, <3>3 DEF Apart, Rests
    <3>5. phase' # "idle" => incoming'.id \notin {id, partner'[id]}
      BY <1>3, <3>1, FreshOrder
    <3> QED
      BY <1>6, <3>1, <3>2, <3>4, <3>5
  <2> QED
    BY <2>1, <2>2
<1>11. OneCancelsOther'
  <2> SUFFICES ASSUME NEW id \in made PROVE ~Rests(partner[id])'
    BY <1>1 DEF OneCancelsOther
  <2>1. id \in Book!Ids /\ partner'[id] = partner[id]
    BY <1>1, <1>7, IdFacts DEF PairInv
  <2> QED
    BY <1>3, <2>1 DEF PairInv, OneCancelsOther, Rests
<1> QED
  BY <1>8, <1>9, <1>10, <1>11

\* What rests of the order in hand joins the book: its partner, if it has one,
\* is in the locals of on_tick and has not been a maker.
LEMMA RestPairs ==
  ASSUME PairInv, Book!Rest, UNCHANGED <<strategyVars, historyVars>>
  PROVE  InFlight' /\ Unpaired' /\ PairsKnown' /\ OneCancelsOther'
<1>1. /\ phase = "match" /\ phase' = "idle" /\ next_id' = next_id
      /\ incoming.type = "Limit"
      /\ order_map' = [order_map EXCEPT ![incoming.id] =
                         [side |-> incoming.side, idx |-> Book!PriceToIndex(incoming.price)]]
  BY DEF Book!Rest, Book!Return
<1>2. UNCHANGED <<partner, made, pc, quote, bid_order_id, ask_order_id>>
  BY DEF strategyVars, historyVars
<1>3. /\ order_map \in [Book!Ids -> [side : {"Buy", "Sell"}, idx : Book!Idx] \cup {Book!NoLoc}]
      /\ incoming.id \in Book!Ids
  BY <1>1, BookFacts DEF PairInv, EngineInv
<1>4. \A id \in Book!Ids : id # incoming.id => order_map'[id] = order_map[id]
  BY <1>1, <1>3
<1>5. order_map'[incoming.id].idx = Book!PriceToIndex(incoming.price)
  BY <1>1, <1>3
<1>6. Book!LevelPrice(Book!PriceToIndex(incoming.price)) = incoming.price
  BY <1>1 DEF PairInv, EngineInv, Q!QueueInv, Q!IndInv, Q!InCall,
              Q!LevelPrice, Book!LevelPrice, Q!PriceToIndex, Book!PriceToIndex
<1>7. \A id \in Book!Ids : Local(id)' = Local(id) /\ Held(id)' = Held(id)
  BY <1>2 DEF Local, Held
<1>8. InFlight'
  <2>1. ASSUME pc = "ask", Rests(quote.bid_id)'
        PROVE  Book!LevelPrice(order_map'[quote.bid_id].idx) = quote.buy_px
    BY <1>1, <1>5, <1>6, <2>1 DEF PairInv, InFlight
  <2>2. ASSUME pc = "store", Rests(quote.bid_id)'
        PROVE  Book!LevelPrice(order_map'[quote.bid_id].idx) = quote.buy_px
    <3>1. quote.bid_id # incoming.id
      BY <1>1, <2>2 DEF PairInv, InFlight
    <3>2. Rests(quote.bid_id) /\ order_map'[quote.bid_id] = order_map[quote.bid_id]
      BY <1>2, <1>4, <2>2, <3>1 DEF Rests
    <3> QED
      BY <2>2, <3>2 DEF PairInv, InFlight
  <2>3. /\ pc \in {"ask", "store"} => quote.bid_id \notin made
        /\ pc = "store" => quote.ask_id \notin made
    BY DEF PairInv, InFlight
  <2> QED
    BY <1>1, <1>2, <2>1, <2>2, <2>3 DEF InFlight
<1>9. Unpaired'
  BY <1>1, <1>2 DEF PairInv, Unpaired
<1>10. PairsKnown'
  <2> SUFFICES ASSUME NEW id \in Book!Ids, partner[id] # 0
               PROVE  /\ partner[id] \in Issued(next_id) /\ partner[id] # id
                      /\ Local(id) \/ Held(id) \/ Apart(id)'
    BY <1>1, <1>2, <1>7 DEF PairsKnown
  <2>1. /\ partner[id] \in Issued(next_id) /\ partner[id] # id
        /\ Local(id) \/ Held(id) \/ Apart(id)
        /\ incoming.id \in {id, partner[id]} => Local(id)
    BY <1>1 DEF PairInv, PairsKnown
  <2>2. incoming.id \notin {id, partner[id]} /\ Apart(id) => Apart(id)'
    BY <1>2, <1>4 DEF Apart, Rests
  <2> QED
    BY <2>1, <2>2
<1>11. OneCancelsOther'
  <2> SUFFICES ASSUME NEW id \in made PROVE ~Rests(partner[id])'
    BY <1>2 DEF OneCancelsOther
  <2>1. id \in Book!Ids /\ ~Rests(partner[id]) /\ ~Rests(0)'
    BY IdFacts DEF PairInv, OneCancelsOther, Rests
  <2>2. partner[id] # 0 => partner[id] # incoming.id
    <3> SUFFICES ASSUME partner[id] # 0, partner[id] = incoming.id PROVE FALSE
      OBVIOUS
    <3>1. Local(id)
      BY <1>1, <2>1 DEF PairInv, PairsKnown
    <3>2. id \in {quote.bid_id, quote.ask_id} /\ pc = "store"
      BY <3>1 DEF Local
    <3> QED
      BY <3>2 DEF PairInv, InFlight
  <2> QED
    BY <1>2, <1>4, <2>1, <2>2 DEF Rests
<1> QED
  BY <1>8, <1>9, <1>10, <1>11

\* The matching loop takes orders out; only the one in hand may join.
LEMMA MatchStepPairs ==
  ASSUME PairInv, MatchStep
  PROVE  InFlight' /\ Unpaired' /\ PairsKnown' /\ OneCancelsOther'
<1>1. UNCHANGED <<strategyVars, historyVars>>
  BY DEF MatchStep
<1>2. CASE Book!Rest
  BY <1>1, <1>2, RestPairs
<1>3. CASE Book!EnterLevel \/ Book!LeaveLevel \/ Book!Discard
  <2>1. UNCHANGED <<order_map, partner, made, next_id, pc, quote, bid_order_id, ask_order_id>>
    BY <1>1, <1>3 DEF strategyVars, historyVars, Book!EnterLevel, Book!LeaveLevel,
                      Book!Discard, Book!bookVars
  <2>2. phase' # "idle" => phase # "idle" /\ incoming' = incoming
    BY <1>3 DEF Book!EnterLevel, Book!LeaveLevel, Book!Discard, Book!Return
  <2> QED
    BY <2>1, <2>2, SamePairs
<1>4. CASE Book!Settle
  <2>1. /\ phase = "maker" /\ phase' = "level" /\ next_id' = next_id
        /\ incoming' = [incoming EXCEPT !.qty = @ - fill.qty]
        /\ order_map' \in {order_map, [order_map EXCEPT ![resting] = Book!NoLoc]}
    BY <1>4 DEF Book!Settle
  <2>2. UNCHANGED <<partner, made, pc, quote, bid_order_id, ask_order_id>>
    BY <1>1 DEF strategyVars, historyVars
  <2>3. /\ order_map \in [Book!Ids -> [side : {"Buy", "Sell"}, idx : Book!Idx] \cup {Book!NoLoc}]
        /\ next_id \in Nat
    BY BookFacts, IdFacts DEF PairInv, EngineInv
  <2>4. Shrinks
    BY <2>1, <2>3 DEF Shrinks
  <2>5. /\ incoming'.id = incoming.id /\ incoming'.side = incoming.side
        /\ incoming'.type = incoming.type /\ incoming'.price = incoming.price
    <3>1. incoming \in Q!Order
      BY <2>1, BookAssumptions, Q!IncomingType
         DEF Q!IncomingType, PairInv, EngineInv, Q!QueueInv
    <3> QED
      BY <2>1, <3>1 DEF Q!Order
  <2>6. \A id \in Book!Ids : Local(id)' = Local(id) /\ Held(id)' = Held(id)
    BY <2>2 DEF Local, Held
  <2>7. \A id \in Book!Ids : partner[id] # 0 =>
          (phase # "idle" /\ incoming.id \in {id, partner[id]} => Local(id))'
    BY <2>1, <2>2, <2>5, <2>6 DEF PairInv, PairsKnown
  <2>8. Unpaired' /\ PairsKnown' /\ OneCancelsOther'
    BY <2>1, <2>2, <2>3, <2>4, <2>6, <2>7, KeepPairs
  <2>9. InFlight'
    BY <2>1, <2>2, <2>4, <2>5, GoneStaysGone DEF PairInv, InFlight
  <2> QED
    BY <2>8, <2>9
<1> QED
  BY <1>2, <1>3, <1>4 DEF MatchStep

\* An order of type Cancel takes an order out of the book.
LEMMA SubmitCancelPairs ==
  ASSUME PairInv, NEW id \in Book!Ids, SubmitCancel(id)
  PROVE  InFlight' /\ Unpaired' /\ PairsKnown' /\ OneCancelsOther'
<1>1. /\ phase = "idle" /\ phase' = "idle" /\ pc = "idle" /\ next_id' = next_id
      /\ UNCHANGED <<partner, made, pc, quote, bid_order_id, ask_order_id>>
  BY DEF SubmitCancel, Quiet, callVars, strategyVars, historyVars
<1>2. PICK ids \in SUBSET {id} : BookCancel(ids)
  BY DEF SubmitCancel
<1>3. Shrinks
  BY <1>2, CancelShrinks DEF Shrinks, PairInv
<1>4. next_id \in Nat
  BY IdFacts DEF PairInv
<1>5. \A x \in Book!Ids : Local(x)' = Local(x) /\ Held(x)' = Held(x)
  BY <1>1 DEF Local, Held
<1>6. Unpaired' /\ PairsKnown' /\ OneCancelsOther'
  BY <1>1, <1>3, <1>4, <1>5, KeepPairs
<1> QED
  BY <1>1, <1>6 DEF InFlight

\* cancel_resting_quotes: the bid leaves the book with its id.
LEMMA CancelQuotesPairs ==
  ASSUME PairInv, CancelBidQuote \/ CancelAskQuote
  PROVE  InFlight' /\ Unpaired' /\ PairsKnown' /\ OneCancelsOther'
<1>1. /\ phase = "idle" /\ phase' = "idle" /\ next_id' = next_id
      /\ pc \in {"idle", "cancel_ask"} /\ pc' \in {"idle", "cancel_ask"}
      /\ UNCHANGED <<partner, made>>
  BY DEF CancelBidQuote, CancelAskQuote, Cancel, Quiet, callVars, historyVars,
         PairInv, EngineInv, Control
<1>2. next_id \in Nat /\ next_id' \in Nat /\ next_id <= next_id'
  BY <1>1, IdFacts DEF PairInv
<1>3. CASE CancelBidQuote
  <2>1. BookCancel({bid_order_id})
    BY <1>3 DEF CancelBidQuote, Cancel
  <2>2. /\ Shrinks
        /\ \A id \in Book!Ids : id = bid_order_id => order_map'[id] = Book!NoLoc
    BY <2>1, CancelShrinks DEF Shrinks, PairInv
  <2>3. \A id \in Book!Ids : Held(id) => Apart(id)'
    BY <1>1, <2>2 DEF Held, Apart, Rests
  <2>4. \A id \in Book!Ids : ~Local(id)
    BY <1>1 DEF Local
  <2>5. Unpaired' /\ PairsKnown' /\ OneCancelsOther'
    BY <1>1, <1>2, <2>2, <2>3, <2>4, KeepPairs
  <2> QED
    BY <1>1, <2>5 DEF InFlight
<1>4. CASE CancelAskQuote
  <2>1. BookCancel({ask_order_id}) /\ bid_order_id = 0 /\ bid_order_id' = 0
    BY <1>4 DEF CancelAskQuote, Cancel, PairInv, EngineInv, Paired
  <2>2. Shrinks
    BY <2>1, CancelShrinks DEF Shrinks, PairInv
  <2>3. \A id \in Book!Ids : partner[id] # 0 => ~Held(id)
    BY <2>1, IdFacts DEF Held, PairInv
  <2>4. \A id \in Book!Ids : ~Local(id)
    BY <1>1 DEF Local
  <2>5. Unpaired' /\ PairsKnown' /\ OneCancelsOther'
    BY <1>1, <1>2, <2>2, <2>3, <2>4, KeepPairs
  <2> QED
    BY <1>1, <2>5 DEF InFlight
<1> QED
  BY <1>3, <1>4

\* The ask that on_tick submits does not reach the bid submitted before it.
LEMMA MakerIsOlder ==
  ASSUME PairInv, phase = "maker"
  PROVE  /\ pc = "ask" => resting # quote.bid_id
         /\ pc = "store" => resting \notin {quote.bid_id, quote.ask_id}
<1>1. resting < incoming.id /\ incoming.id \in Nat /\ resting \in Nat /\ Rests(resting)
  BY BookFacts DEF PairInv, EngineInv, Book!Ids
<1>2. pc = "ask" => resting # quote.bid_id
  BY <1>1 DEF PairInv, InFlight
<1>3. pc = "store" => resting # quote.ask_id
  BY <1>1 DEF PairInv, InFlight
<1>4. ASSUME pc = "store", resting = quote.bid_id PROVE FALSE
  <2>1. /\ Q!Book \in Q!Sides /\ idx \in Q!Idx
        /\ 1 \in DOMAIN Q!Queue(Q!Book, idx) /\ Q!Queue(Q!Book, idx)[1].id = resting
    BY BookAssumptions, Q!BoundOrder DEF Q!BoundOrder, PairInv, EngineInv
  <2>2. order_map[resting] = [side |-> Q!Book, idx |-> idx]
    BY <2>1 DEF PairInv, EngineInv, Q!QueueInv, Q!Queued, Q!Located
  <2>3. Book!LevelPrice(idx) = quote.buy_px
    BY <1>1, <1>4, <2>2 DEF PairInv, InFlight
  <2>4. ~Q!Better(incoming.side, Q!LevelPrice(idx), incoming.price)
    BY DEF PairInv, EngineInv, Q!QueueInv, Q!Trading
  <2>5. incoming.side = "Sell" /\ incoming.price = quote.sell_px
    BY <1>4 DEF PairInv, InFlight
  <2>6. quote.buy_px < quote.sell_px
    BY <1>4 DEF PairInv, EngineInv, Quoting
  <2> QED
    BY <2>3, <2>4, <2>5, <2>6 DEF Q!Better, Q!LevelPrice, Book!LevelPrice
<1> QED
  BY <1>2, <1>3, <1>4

\* A maker that the strategy holds takes its partner out; one that it does not
\* hold has lost its partner already.
LEMMA OnFillPairs ==
  ASSUME PairInv, OnFill
  PROVE  InFlight' /\ Unpaired' /\ PairsKnown' /\ OneCancelsOther'
<1> DEFINE r == Report.order_id
           W == WithdrawnOnFill(r)
<1>1. /\ phase \in {"taker", "maker"} /\ phase' = phase /\ incoming' = incoming
      /\ next_id' = next_id /\ partner' = partner /\ resting' = resting
      /\ pc' = pc /\ quote' = quote
      /\ BookCancel(W)
      /\ made' = made \cup (IF phase = "maker" THEN {resting} ELSE {})
      /\ r = (IF phase = "taker" THEN incoming.id ELSE resting)
      /\ IF r \in {bid_order_id, ask_order_id}
         THEN bid_order_id' = 0 /\ ask_order_id' = 0
         ELSE UNCHANGED <<bid_order_id, ask_order_id>>
  BY ReportFacts DEF PairInv, OnFill, ForgetQuotes, callVars
<1>2. /\ r \in Book!Ids
      /\ phase = "taker" => r \notin {bid_order_id, ask_order_id}
      /\ W = IF r \in {bid_order_id, ask_order_id}
             THEN {bid_order_id, ask_order_id} \ {0, r} ELSE {}
  BY <1>1, ReportFacts DEF PairInv, WithdrawnOnFill
<1> HIDE DEF r, W
<1>3. PICK c : W \subseteq {c}
  BY <1>2
<1>4. /\ Shrinks
      /\ \A id \in Book!Ids : id \in W => order_map'[id] = Book!NoLoc
  BY <1>1, <1>3, CancelShrinks DEF Shrinks, PairInv
<1>5. \A id \in Book!Ids : Local(id)' = Local(id)
  BY <1>1 DEF Local
<1>6. \A id \in Book!Ids : partner[id] # 0 /\ Held(id) => Held(id)' \/ Apart(id)'
  <2> SUFFICES ASSUME NEW id \in Book!Ids, partner[id] # 0, Held(id)
               PROVE  Held(id)' \/ Apart(id)'
    OBVIOUS
  <2>1. partner[id] # id /\ id # 0
    BY IdFacts DEF PairInv, PairsKnown
  <2>2. CASE r \in {bid_order_id, ask_order_id}
    <3>1. id \in W \/ partner[id] \in W
      BY <1>2, <2>1, <2>2 DEF Held
    <3> QED
      BY <1>1, <1>4, <3>1 DEF Apart, Rests
  <2>3. CASE r \notin {bid_order_id, ask_order_id}
    BY <1>1, <2>3 DEF Held
  <2> QED
    BY <2>2, <2>3
<1>7. PairsKnown'
  <2> SUFFICES ASSUME NEW id \in Book!Ids, partner[id] # 0
               PROVE  /\ partner[id] \in Issued(next_id) /\ partner[id] # id
                      /\ (Local(id) \/ Held(id) \/ Apart(id))'
                      /\ phase # "idle" /\ incoming.id \in {id, partner[id]} => Local(id)
    BY <1>1, <1>5 DEF PairsKnown
  <2>1. /\ partner[id] \in Issued(next_id) /\ partner[id] # id
        /\ Local(id) \/ Held(id) \/ Apart(id)
        /\ phase # "idle" /\ incoming.id \in {id, partner[id]} => Local(id)
    BY DEF PairInv, PairsKnown
  <2>2. Apart(id) => Apart(id)'
    BY <1>1, <1>4, GoneStaysGone DEF Apart
  <2> QED
    BY <1>5, <1>6, <2>1, <2>2
<1>8. phase = "maker" => /\ r = resting /\ Rests(resting) /\ resting < next_id
                         /\ resting \in Nat /\ next_id \in Nat
  <2>1. phase = "maker" => /\ Rests(resting) /\ resting < incoming.id /\ resting \in Book!Ids
                           /\ incoming.id = next_id - 1 /\ next_id \in 1 .. MaxOrders + 1
                           /\ MaxOrders \in Nat
    BY BookFacts DEF PairInv, EngineInv
  <2> QED
    BY <1>1, <2>1 DEF Book!Ids
<1>9. Unpaired'
  BY <1>1, <1>8 DEF PairInv, Unpaired, Book!Ids
<1>10. OneCancelsOther'
  <2>1. ASSUME NEW id \in made PROVE ~Rests(partner[id])'
    BY <1>1, <1>4, GoneStaysGone DEF PairInv, OneCancelsOther
  <2>2. ASSUME phase = "maker" PROVE ~Rests(partner[resting])'
    <3>1. resting \in Book!Ids /\ ~Rests(0)' /\ resting = r
      BY <1>2, <1>8, <2>2, IdFacts DEF PairInv, Rests
    <3>2. CASE partner[resting] = 0
      BY <1>1, <3>1, <3>2
    <3>3. CASE partner[resting] # 0 /\ Held(resting)
      <4>1. partner[resting] \in W
        <5>1. partner[resting] # resting
          BY <3>1, <3>3 DEF PairInv, PairsKnown
        <5> QED
          BY <1>2, <3>1, <3>3, <5>1 DEF Held
      <4> QED
        BY <1>1, <1>4, <4>1 DEF Rests
    <3>4. CASE partner[resting] # 0 /\ ~Held(resting)
      <4>1. ~Local(resting)
        BY <2>2, MakerIsOlder DEF Local
      <4>2. Apart(resting)
        BY <3>1, <3>4, <4>1 DEF PairInv, PairsKnown
      <4>3. ~Rests(partner[resting])
        BY <1>8, <2>2, <4>2 DEF Apart
      <4> QED
        BY <1>1, <1>4, <4>3, GoneStaysGone
    <3> QED
      BY <3>2, <3>3, <3>4
  <2> QED
    BY <1>1, <2>1, <2>2 DEF OneCancelsOther
<1>11. InFlight'
  <2>1. /\ pc \in {"ask", "store"} => quote.bid_id \notin made'
        /\ pc = "store" => quote.ask_id \notin made'
    BY <1>1, MakerIsOlder DEF PairInv, InFlight
  <2>2. Rests(quote.bid_id)' =>
          Rests(quote.bid_id) /\ order_map'[quote.bid_id] = order_map[quote.bid_id]
    BY <1>1, <1>4, GoneStaysGone
  <2> QED
    BY <1>1, <2>1, <2>2 DEF PairInv, InFlight
<1> QED
  BY <1>7, <1>9, <1>10, <1>11

\* The invariant of pairs is inductive.
LEMMA StepPairs == PairInv /\ [Next]_vars => PairInv'
<1> SUFFICES ASSUME PairInv, [Next]_vars PROVE PairInv'
  OBVIOUS
<1>1. EngineInv'
  BY StepEngine DEF PairInv
<1>2. CASE Elapse \/ ReportStep \/ UNCHANGED vars
  <2>1. /\ UNCHANGED <<order_map, partner, made, next_id, pc, quote,
                       bid_order_id, ask_order_id>>
        /\ phase' # "idle" => phase # "idle" /\ incoming' = incoming
    BY <1>2 DEF Elapse, ReportStep, Book!ReportTaker, Book!ReportMaker, Book!bookVars, vars,
                strategyVars, bookVars, callVars, historyVars
  <2> QED
    BY <1>1, <2>1, SamePairs DEF PairInv
<1>3. CASE ~(Elapse \/ ReportStep \/ UNCHANGED vars)
  <2>1. InFlight' /\ Unpaired' /\ PairsKnown' /\ OneCancelsOther'
    BY <1>3, OnTickPairs, SubmitBidPairs, SubmitAskPairs, RememberPairs, MatchStepPairs,
       OnFillPairs, SubmitExternalPairs, SubmitCancelPairs, CancelQuotesPairs DEF Next
  <2> QED
    BY <1>1, <2>1 DEF PairInv
<1> QED
  BY <1>2, <1>3

\* Nothing is paired at the start.
LEMMA InitPairs == Init => PairInv
<1> SUFFICES ASSUME Init PROVE PairInv
  OBVIOUS
<1>1. /\ pc = "idle" /\ phase = "idle" /\ made = {} /\ partner = [id \in Book!Ids |-> 0]
  BY DEF Init, StrategyInit, Book!Init
<1> QED
  BY <1>1, InitEngine DEF PairInv, InFlight, Unpaired, PairsKnown, OneCancelsOther

\* When a resting quote has been filled, even in part and in the middle of a
\* match, the quote of the other side is out of the book and stays out
\* (spread_strategy.cpp:111 to 125).
THEOREM OtherIsCancelled == Spec => []OneCancelsOther
<1>1. PairInv => OneCancelsOther
  BY DEF PairInv
<1> QED
  BY <1>1, InitPairs, StepPairs, PTL DEF Spec

-----------------------------------------------------------------------------
(* Calls return                                                            *)

\* An order of the strategy takes at most this many steps: its submission and,
\* of match(), two for each step of the book, which may be a report to handle.
PerOrder == 2 * (5 * OrderSize + 4) + 1

\* What on_tick and cancel_resting_quotes still have to call.
Pending ==
  [bid |-> 2 * PerOrder + 1, ask |-> PerOrder + 1, store |-> 1, cancel_ask |-> 1, idle |-> 0][pc]

\* What the book still has to do.
Booked == Q!Remaining

Unhandled == IF handled THEN 0 ELSE 1

StepsLeft == Pending + 2 * Booked + Unhandled

\* Every step of a call brings its return nearer, and nothing puts it off.
CallNearsItsEnd ==
  /\ CallStep => StepsLeft' < StepsLeft
  /\ ~Quiet => StepsLeft' <= StepsLeft

\* What is left to do is a number of steps, and 0 when nothing is.
LEMMA StepsLeftType ==
  ASSUME EngineInv
  PROVE  /\ PerOrder \in Nat \ {0} /\ Pending \in Nat /\ Booked \in Nat
         /\ Unhandled \in 0 .. 1 /\ (handled <=> Unhandled = 0)
         /\ StepsLeft \in Nat /\ (StepsLeft = 0 <=> Quiet)
<1>1. OrderSize \in Nat
  BY StrategyAssumption
<1>2. PerOrder \in Nat \ {0}
  BY <1>1 DEF PerOrder
<1>3. pc \in {"idle", "bid", "ask", "store", "cancel_ask"} /\ handled \in BOOLEAN
  BY DEF EngineInv, Control
<1>4. Pending \in Nat /\ (Pending = 0 <=> pc = "idle")
  BY <1>2, <1>3 DEF Pending
<1>5. Booked \in Nat /\ (Booked = 0 <=> phase = "idle")
  BY BookAssumptions, Q!RemainingType DEF Q!RemainingType, Booked, EngineInv, Q!QueueInv
<1>6. /\ phase = "idle" => handled
      /\ Unhandled \in 0 .. 1 /\ (handled <=> Unhandled = 0)
  BY <1>3 DEF EngineInv, Control, Unhandled
<1> QED
  BY <1>2, <1>3, <1>4, <1>5, <1>6 DEF StepsLeft, Quiet

\* So it is after a step.
LEMMA LeftPrimed == EngineInv' => (Booked \in Nat /\ Unhandled \in 0 .. 1)'
<1>1. EngineInv => Booked \in Nat /\ Unhandled \in 0 .. 1
  BY StepsLeftType
<1> QED
  BY <1>1, PTL

\* When the book is called, what remains of its call goes down.
LEMMA BookNearer ==
  ASSUME EngineInv, [Book!Next]_Book!vars
  PROVE  /\ Book!Match => Booked' < Booked
         /\ phase # "idle" => Booked' <= Booked
<1>1. Book!vars' = Book!vars => Q!vars' = Q!vars
  BY DEF Q!vars, Book!vars, Q!bookVars, Book!bookVars, Q!callVars, Book!callVars,
         Q!histVars, Book!histVars
<1>2. Q!IndInv /\ [Q!Next]_Q!vars
  BY <1>1, SameBook DEF EngineInv, Q!QueueInv
<1>3. Q!NearerTheEnd
  BY <1>2, BookAssumptions, Q!StepNearer DEF Q!StepNearer
<1> QED
  BY <1>3, SameBook DEF Q!NearerTheEnd, Booked

\* A call of submit_order adds at most the steps of one order.
LEMMA SubmitSteps ==
  ASSUME EngineInv, phase = "idle", NEW o, o.qty = OrderSize, Submit(o)
  PROVE  Booked' \in Nat /\ 2 * Booked' < PerOrder /\ Unhandled' = 0
<1>1. OrderSize \in Nat /\ Unhandled' = 0
  BY StrategyAssumption DEF EngineInv, Control, Submit, Unhandled
<1>2. CASE Book!AddOrder(o)
  <2>1. phase' = "match" /\ incoming'.qty = OrderSize
    BY <1>2 DEF Book!AddOrder
  <2>2. Booked' = 5 * OrderSize + 4
    BY <2>1 DEF Booked, Q!Remaining, Q!Ahead
  <2> QED
    BY <1>1, <2>2 DEF PerOrder
<1>3. CASE UNCHANGED callVars
  <2>1. phase' = "idle" /\ incoming' = incoming /\ incoming = Q!NoOrder
    BY <1>3 DEF callVars, EngineInv, Q!QueueInv, Q!IndInv, Q!InCall
  <2>2. Booked' = 0
    BY <2>1 DEF Booked, Q!Remaining, Q!Ahead, Q!NoOrder
  <2> QED
    BY <1>1, <2>2 DEF PerOrder
<1> QED
  BY <1>2, <1>3 DEF Submit

\* A step that leaves the call of the book alone leaves what remains of it.
LEMMA SameRemaining ==
  ASSUME EngineInv, phase = "idle", UNCHANGED callVars
  PROVE  Booked = 0 /\ Booked' = 0
<1>1. phase' = "idle" /\ incoming' = incoming /\ incoming = Q!NoOrder
  BY DEF callVars, EngineInv, Q!QueueInv, Q!IndInv, Q!InCall
<1> QED
  BY <1>1 DEF Booked, Q!Remaining, Q!Ahead, Q!NoOrder

\* An order is begun: the steps that were set aside for it are enough.
LEMMA OrderBegun ==
  ASSUME Pending' \in Nat, Booked \in Nat, Booked' \in Nat,
         Unhandled \in 0 .. 1, Unhandled' = 0,
         NEW n \in Nat, Pending = Pending' + n, 2 * Booked' < n
  PROVE  StepsLeft' \in Int /\ StepsLeft' < StepsLeft
<1>1. PICK q \in Nat, r \in Nat, s \in Nat, u \in 0 .. 1 :
        q = Pending' /\ r = Booked /\ s = Booked' /\ u = Unhandled
  OBVIOUS
<1>2. 2 * s < n /\ StepsLeft = q + n + 2 * r + u /\ StepsLeft' = q + 2 * s + 0
  BY <1>1 DEF StepsLeft
<1>3. q + 2 * s + 0 < q + n + 2 * r + u
  BY <1>2
<1> QED
  BY <1>2, <1>3

\* The book goes a step on, or a report has been handled.
LEMMA BookMoved ==
  ASSUME Pending \in Nat, Pending' = Pending, Booked \in Nat, Booked' \in Nat,
         Unhandled \in 0 .. 1, Unhandled' \in 0 .. 1,
         \/ Booked' < Booked
         \/ Booked' <= Booked /\ Unhandled = 1 /\ Unhandled' = 0
  PROVE  StepsLeft' \in Int /\ StepsLeft' < StepsLeft
<1>1. PICK q \in Nat, r \in Nat, s \in Nat, u \in 0 .. 1, v \in 0 .. 1 :
        q = Pending /\ r = Booked /\ s = Booked' /\ u = Unhandled /\ v = Unhandled'
  OBVIOUS
<1>2. StepsLeft = q + 2 * r + u /\ StepsLeft' = q + 2 * s + v
  BY <1>1 DEF StepsLeft
<1>3. s < r \/ (s <= r /\ u = 1 /\ v = 0)
  BY <1>1
<1>4. q + 2 * s + v < q + 2 * r + u
  BY <1>3
<1> QED
  BY <1>2, <1>4

\* Each step of a call comes nearer to its return.
LEMMA StepEnds == EngineInv /\ [Next]_vars => CallNearsItsEnd
<1> SUFFICES ASSUME EngineInv, [Next]_vars PROVE CallNearsItsEnd
  OBVIOUS
<1>1. /\ PerOrder \in Nat \ {0} /\ Pending \in Nat /\ Booked \in Nat
      /\ Unhandled \in 0 .. 1 /\ (handled <=> Unhandled = 0)
      /\ StepsLeft \in Nat /\ (StepsLeft = 0 <=> Quiet)
  BY StepsLeftType
<1>2. [Book!Next]_Book!vars
  BY StepEngine
<1>3. /\ Book!Match => Booked' < Booked
      /\ phase # "idle" => Booked' <= Booked
  BY <1>2, BookNearer
<1>4. ASSUME SubmitBid PROVE StepsLeft' \in Int /\ StepsLeft' < StepsLeft
  <2>1. phase = "idle" /\ pc = "bid" /\ pc' = "ask"
    BY <1>4 DEF SubmitBid, EngineInv, Control
  <2>2. Booked' \in Nat /\ 2 * Booked' < PerOrder /\ Unhandled' = 0
    BY <1>4, <2>1, SubmitSteps DEF SubmitBid, QuoteOrder
  <2>3. Pending' = PerOrder + 1 /\ Pending = Pending' + PerOrder
    <3>1. Pending = 2 * PerOrder + 1 /\ Pending' = PerOrder + 1
      BY <2>1 DEF Pending, PerOrder
    <3> QED
      BY <1>1, <3>1
  <2>4. Pending' \in Nat /\ PerOrder \in Nat
    BY <1>1, <2>3
  <2> QED
    BY <1>1, <2>2, <2>3, <2>4, OrderBegun
<1>5. ASSUME SubmitAsk PROVE StepsLeft' \in Int /\ StepsLeft' < StepsLeft
  <2>1. phase = "idle" /\ pc = "ask" /\ pc' = "store"
    BY <1>5 DEF SubmitAsk
  <2>2. Booked' \in Nat /\ 2 * Booked' < PerOrder /\ Unhandled' = 0
    BY <1>5, <2>1, SubmitSteps DEF SubmitAsk, QuoteOrder
  <2>3. Pending' = 1 /\ Pending = Pending' + PerOrder
    BY <1>1, <2>1 DEF Pending
  <2> QED
    BY <1>1, <2>2, <2>3, OrderBegun
<1>6. ASSUME RememberQuotes PROVE StepsLeft' \in Int /\ StepsLeft' < StepsLeft
  <2>1. Pending = 1 /\ Pending' = 0 /\ Unhandled = 0 /\ Unhandled' = 0
    BY <1>6 DEF RememberQuotes, StoreIds, Pending, Unhandled, EngineInv, Control
  <2>2. Booked = 0 /\ Booked' = 0
    BY <1>6, SameRemaining DEF RememberQuotes
  <2> QED
    BY <2>1, <2>2 DEF StepsLeft
<1>7. ASSUME ~Quiet, CancelAskQuote PROVE StepsLeft' \in Int /\ StepsLeft' < StepsLeft
  <2>1. pc = "cancel_ask" /\ pc' = "idle" /\ phase = "idle" /\ UNCHANGED callVars
    BY <1>7 DEF CancelAskQuote, Cancel, EngineInv, Control
  <2>2. Unhandled = 0 /\ Unhandled' = 0
    BY <1>7, <2>1 DEF CancelAskQuote, Cancel, EngineInv, Control, Unhandled
  <2>3. Booked = 0 /\ Booked' = 0
    BY <2>1, SameRemaining
  <2> QED
    BY <2>1, <2>2, <2>3 DEF StepsLeft, Pending
<1>8. Booked' \in Nat /\ Unhandled' \in 0 .. 1
  BY StepEngine, LeftPrimed
<1>9. ASSUME MatchStep \/ ReportStep PROVE StepsLeft' \in Int /\ StepsLeft' < StepsLeft
  <2>1. Book!Match
    BY <1>9 DEF MatchStep, ReportStep, Book!Match
  <2>2. pc' = pc
    BY <1>9 DEF MatchStep, ReportStep, strategyVars
  <2>3. Pending' = Pending
    BY <2>2 DEF Pending
  <2> QED
    BY <1>1, <1>3, <1>8, <2>1, <2>3, BookMoved
<1>10. ASSUME OnFill PROVE StepsLeft' \in Int /\ StepsLeft' < StepsLeft
  <2>1. ~handled /\ handled' /\ pc' = pc /\ phase # "idle"
    BY <1>10 DEF OnFill, ForgetQuotes
  <2>2. Pending' = Pending /\ Unhandled = 1 /\ Unhandled' = 0
    BY <2>1 DEF Pending, Unhandled
  <2> QED
    BY <1>1, <1>3, <1>8, <2>1, <2>2, BookMoved
<1>11. CallStep => StepsLeft' \in Int /\ StepsLeft' < StepsLeft
  BY <1>4, <1>5, <1>6, <1>7, <1>9, <1>10 DEF CallStep
<1>12. ASSUME ~Quiet PROVE CallStep \/ StepsLeft' = StepsLeft
  <2>1. ASSUME Elapse \/ UNCHANGED vars PROVE StepsLeft' = StepsLeft
    BY <2>1 DEF Elapse, vars, strategyVars, bookVars, callVars, StepsLeft, Pending,
       Unhandled, Booked, Q!Remaining, Q!Ahead, Q!Level, Q!Book
  <2> QED
    BY <1>12, <2>1 DEF Next, CallStep, OnTick, SubmitExternal, SubmitCancel, CancelBidQuote
<1> QED
  BY <1>1, <1>11, <1>12 DEF CallNearsItsEnd

\* on_tick, submit_order and cancel_resting_quotes return: whatever fills and
\* cancels come in between, no more than the steps that were left at the
\* beginning (trading_engine.cpp:93 to 116, spread_strategy.cpp:14 to 69).
THEOREM CallsEnd ==
  Spec => /\ [](StepsLeft \in Nat /\ (StepsLeft = 0 <=> Quiet))
          /\ [][CallNearsItsEnd]_vars
<1>1. EngineInv => StepsLeft \in Nat /\ (StepsLeft = 0 <=> Quiet)
  BY StepsLeftType
<1> QED
  BY <1>1, StepEnds, EngineInductive, PTL DEF Spec
=============================================================================
