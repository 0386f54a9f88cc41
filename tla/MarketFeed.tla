----------------------------- MODULE MarketFeed -----------------------------
(***************************************************************************)
(* A receiver that feeds an engine: the callback of MarketReceiver is      *)
(* push_tick (trading_engine.h:29, 38), each run() has a thread of its     *)
(* own, may be called again after it has returned, and stop() of either is *)
(* called at any time.  Only the callback is a step of both.               *)
(***************************************************************************)
EXTENDS Integers, Sequences

CONSTANTS File, SocketCap, MaxArrivals, MaxRuns, Capacity

ASSUME FileAssumption == File \in Seq(BOOLEAN)
ASSUME CapAssumption == SocketCap \in Nat \ {0} /\ Capacity \in Nat \ {0}
ASSUME BoundsAssumption == MaxArrivals \in Nat /\ MaxRuns \in Nat

VARIABLES
  platform, receiver_running, receiver_pc, receiver_runs,
  socket, edge, arrived, cut, line,
  engine_running, engine_pc, engine_runs,
  sent, delivered, seen_head, seen_tail, ticks_dropped_

receiverVars ==
  <<platform, receiver_running, receiver_pc, receiver_runs, socket, edge, arrived, cut, line>>
engineVars ==
  <<engine_running, engine_pc, engine_runs, sent, delivered, seen_head, seen_tail, ticks_dropped_>>
vars == <<receiverVars, engineVars>>

Receiver == INSTANCE MarketReceiver WITH
  running_ <- receiver_running, pc <- receiver_pc, runs <- receiver_runs

Engine == INSTANCE EngineLifecycle WITH
  Ticks <- 1 .. Len(File),
  running_ <- engine_running, pc <- engine_pc, runs <- engine_runs

Init == Receiver!Init /\ Engine!Init

\* callback_(tick)
Deliver(tick) == Receiver!CallBack(tick) /\ Engine!PushTick(tick)

ReceiverRuns == Receiver!RunStep /\ UNCHANGED engineVars

EngineRuns == Engine!RunStep /\ UNCHANGED receiverVars

\* Calls of run() and stop(), and datagrams from the network.
Environment ==
  \/ (Receiver!Run \/ Receiver!Stop \/ Receiver!Kernel) /\ UNCHANGED engineVars
  \/ (Engine!Run \/ Engine!Stop) /\ UNCHANGED receiverVars

Next ==
  \/ ReceiverRuns
  \/ \E tick \in 1 .. Len(File) : Deliver(tick)
  \/ EngineRuns
  \/ Environment

Spec == Init /\ [][Next]_vars

(***************************************************************************)
(* Both threads run, and a store becomes visible in finite time: neither   *)
(* the FALSE of a stop() nor the newest tail_ is missed for ever.  Nobody  *)
(* has to call run() or stop().                                            *)
(***************************************************************************)
Fairness ==
  /\ WF_vars(ReceiverRuns \/ \E tick \in 1 .. Len(File) : Deliver(tick))
  /\ WF_vars(EngineRuns)
  /\ SF_vars(Receiver!Leave /\ UNCHANGED engineVars)
  /\ SF_vars(Engine!Leave /\ UNCHANGED receiverVars)
  /\ SF_vars(Engine!Pop(Len(sent)) /\ UNCHANGED receiverVars)

FairSpec == Spec /\ Fairness

-----------------------------------------------------------------------------
(* Properties                                                              *)

TypeOK == Receiver!TypeOK /\ Engine!TypeOK

\* See MarketReceiver: the receiver sleeps only on a socket it has emptied,
\* or at a datagram of length zero (market_receiver.cpp:189).
NothingLeftBehind == Receiver!NothingLeftBehind

\* See MarketReceiver: what epoll has not reported is read while run() lasts.
ArrivalsAreRead == Receiver!ArrivalsAreRead

\* See MarketReceiver: stop() ends a run() that has stored running_.
ReceiverStopIsHeeded == Receiver!StopIsHeeded

\* See EngineLifecycle: stop() ends a run() that has stored running_.
EngineStopIsHeeded == Engine!StopIsHeeded

\* See EngineLifecycle: accepted ticks are handled by this run() or a later one.
QueuedIsHandled == Engine!QueuedIsHandled
=============================================================================
