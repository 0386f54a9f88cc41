-------------------------- MODULE MarketFeedProofs --------------------------
(***************************************************************************)
(* The receiver never sleeps on datagrams it was told of, except behind    *)
(* one of length zero: for every file, every size of the socket's buffer   *)
(* and of the queue, and any number of arrivals and calls.  The types say  *)
(* that the buffer keeps its bound and the counts of the queue their order.*)
(***************************************************************************)
EXTENDS MarketFeed, TLAPS

-----------------------------------------------------------------------------
(* Types and bounds                                                        *)

\* The file and the constants of the two parts.
LEMMA PartsFacts ==
  /\ Len(File) \in Nat /\ SocketCap \in Nat \ {0} /\ MaxArrivals \in Nat /\ MaxRuns \in Nat
  /\ << >> \in Seq({0, 1}) /\ << >> \in Seq(1 .. Len(File))
BY FileAssumption, CapAssumption, BoundsAssumption

\* The receive buffer never holds more datagrams than the kernel gives it room.
LEMMA ReceiverTypes ==
  ASSUME Receiver!TypeOK,
         Receiver!Run \/ Receiver!Stop \/ Receiver!Kernel \/ Receiver!RunStep
           \/ (\E tick \in 1 .. Len(File) : Receiver!CallBack(tick))
           \/ UNCHANGED receiverVars
  PROVE  Receiver!TypeOK'
<1> USE PartsFacts DEF Receiver!TypeOK, Receiver!kernelVars
<1>1. CASE Receiver!Run \/ Receiver!Stop \/ Receiver!Start \/ Receiver!Continue \/ Receiver!Leave
  <2>1. CASE Receiver!Run
    <3>1. receiver_runs' \in 0 .. MaxRuns
      BY <2>1 DEF Receiver!Run
    <3>2. line' \in 0 .. Len(File)
      BY <2>1 DEF Receiver!Run
    <3> QED
      BY <2>1, <3>1, <3>2 DEF Receiver!Run
  <2>2. CASE Receiver!Stop
    BY <2>2 DEF Receiver!Stop
  <2>3. CASE Receiver!Start
    BY <2>3 DEF Receiver!Start
  <2>4. CASE Receiver!Continue
    BY <2>4 DEF Receiver!Continue
  <2>5. CASE Receiver!Leave
    BY <2>5 DEF Receiver!Leave
  <2> QED
    BY <1>1, <2>1, <2>2, <2>3, <2>4, <2>5
<1>2. CASE Receiver!Kernel
  <2>1. PICK len \in {0, 1} : Receiver!Arrive(len)
    BY <1>2 DEF Receiver!Kernel
  <2>2. arrived' \in 0 .. MaxArrivals
    BY <2>1 DEF Receiver!Arrive
  <2>3. socket' \in Seq({0, 1}) /\ Len(socket') <= SocketCap /\ edge' \in BOOLEAN
    <3>1. socket \in Seq({0, 1}) /\ Len(socket) <= SocketCap /\ edge \in BOOLEAN
      OBVIOUS
    <3>2. CASE Len(socket) < SocketCap
      <4>1. socket' = Append(socket, len) /\ edge' = TRUE
        BY <2>1, <3>2 DEF Receiver!Arrive
      <4>2. Append(socket, len) \in Seq({0, 1}) /\ Len(Append(socket, len)) = Len(socket) + 1
        BY <3>1
      <4> QED
        BY <3>1, <3>2, <4>1, <4>2
    <3>3. CASE ~(Len(socket) < SocketCap)
      BY <2>1, <3>1, <3>3 DEF Receiver!Arrive
    <3> QED
      BY <3>2, <3>3
  <2> QED
    BY <2>1, <2>2, <2>3 DEF Receiver!Arrive
<1>3. CASE Receiver!Event \/ Receiver!Timeout
  <2>1. CASE Receiver!Event
    BY <2>1 DEF Receiver!Event
  <2>2. CASE Receiver!Timeout
    BY <2>2 DEF Receiver!Timeout
  <2> QED
    BY <1>3, <2>1, <2>2
<1>4. CASE Receiver!Recv \/ Receiver!RecvEnds
  <2>1. socket' \in Seq({0, 1}) /\ Len(socket') <= SocketCap
    BY <1>4 DEF Receiver!Recv, Receiver!RecvEnds
  <2>2. CASE Receiver!Recv
    BY <2>1, <2>2 DEF Receiver!Recv
  <2>3. CASE Receiver!RecvEnds
    BY <2>1, <2>3 DEF Receiver!RecvEnds
  <2> QED
    BY <1>4, <2>2, <2>3
<1>5. CASE Receiver!Skip \/ Receiver!Parse \/ Receiver!EndOfFile
           \/ \E tick \in 1 .. Len(File) : Receiver!CallBack(tick)
  <2>1. CASE Receiver!Skip
    BY <2>1 DEF Receiver!Skip
  <2>2. CASE Receiver!Parse
    BY <2>2 DEF Receiver!Parse
  <2>3. CASE Receiver!EndOfFile
    BY <2>3 DEF Receiver!EndOfFile
  <2>4. CASE \E tick \in 1 .. Len(File) : Receiver!CallBack(tick)
    BY <2>4 DEF Receiver!CallBack
  <2> QED
    BY <1>5, <2>1, <2>2, <2>3, <2>4
<1>6. CASE UNCHANGED receiverVars
  BY <1>6 DEF receiverVars
<1> QED
  BY <1>1, <1>2, <1>3, <1>4, <1>5, <1>6 DEF Receiver!RunStep

\* What either thread knows of the other's index lags behind and never leads:
\* no tick is popped that was not pushed.
LEMMA EngineTypes ==
  ASSUME Engine!TypeOK,
         Engine!Run \/ Engine!Stop \/ Engine!RunStep
           \/ (\E tick \in 1 .. Len(File) : Engine!PushTick(tick))
           \/ UNCHANGED engineVars
  PROVE  Engine!TypeOK'
<1> USE PartsFacts DEF Engine!TypeOK, Engine!queueVars
<1>1. CASE Engine!Run \/ Engine!Stop \/ Engine!Start \/ Engine!Continue \/ Engine!Leave
           \/ Engine!Handle
  <2>1. CASE Engine!Run
    BY <2>1 DEF Engine!Run
  <2>2. CASE Engine!Stop
    BY <2>2 DEF Engine!Stop
  <2>3. CASE Engine!Start
    BY <2>3 DEF Engine!Start
  <2>4. CASE Engine!Continue
    BY <2>4 DEF Engine!Continue
  <2>5. CASE Engine!Leave
    BY <2>5 DEF Engine!Leave
  <2>6. CASE Engine!Handle
    BY <2>6 DEF Engine!Handle
  <2> QED
    BY <1>1, <2>1, <2>2, <2>3, <2>4, <2>5, <2>6
<1>2. ASSUME NEW n \in 0 .. Len(sent), Engine!Pop(n)
      PROVE  Engine!TypeOK'
  <2>1. /\ n \in Nat /\ n <= Len(sent) /\ n > Len(delivered)
        /\ seen_tail' = n /\ delivered' = Append(delivered, sent[Len(delivered) + 1])
        /\ sent' = sent /\ Len(sent) \in Nat /\ Len(delivered) \in Nat
    BY <1>2 DEF Engine!Pop
  <2>2. sent[Len(delivered) + 1] \in 1 .. Len(File)
    BY <2>1
  <2>3. delivered' \in Seq(1 .. Len(File)) /\ Len(delivered') = Len(delivered) + 1
    BY <2>1, <2>2
  <2> QED
    BY <1>2, <2>1, <2>3 DEF Engine!Pop
<1>3. ASSUME NEW n \in 0 .. Len(sent), Engine!PopEmpty(n)
      PROVE  Engine!TypeOK'
  BY <1>3 DEF Engine!PopEmpty
<1>4. ASSUME NEW tick \in 1 .. Len(File), NEW n \in 0 .. Len(delivered), Engine!Accept(tick, n)
      PROVE  Engine!TypeOK'
  <2>1. sent' \in Seq(1 .. Len(File)) /\ Len(sent') = Len(sent) + 1
    BY <1>4 DEF Engine!Accept
  <2> QED
    BY <1>4, <2>1 DEF Engine!Accept
<1>5. ASSUME NEW n \in 0 .. Len(delivered), Engine!Drop(n)
      PROVE  Engine!TypeOK'
  BY <1>5 DEF Engine!Drop
<1>6. CASE UNCHANGED engineVars
  BY <1>6 DEF engineVars
<1> QED
  BY <1>1, <1>2, <1>3, <1>4, <1>5, <1>6 DEF Engine!RunStep, Engine!PushTick

\* Types: above all, the receive buffer keeps its bound, and the counts of the
\* tick queue stay in step for any number of runs (trading_engine.h:38).
THEOREM FeedTypes == Spec => []TypeOK
<1>1. Init => TypeOK
  <2>1. Receiver!Init => Receiver!TypeOK
    <3>1. ASSUME Receiver!Init PROVE socket \in Seq({0, 1}) /\ Len(socket) <= SocketCap
      BY <3>1, PartsFacts DEF Receiver!Init
    <3>2. ASSUME Receiver!Init PROVE receiver_runs \in 0 .. MaxRuns /\ arrived \in 0 .. MaxArrivals
      BY <3>2, PartsFacts DEF Receiver!Init
    <3>3. ASSUME Receiver!Init PROVE line \in 0 .. Len(File)
      BY <3>3, PartsFacts DEF Receiver!Init
    <3> QED
      BY <3>1, <3>2, <3>3 DEF Receiver!Init, Receiver!TypeOK
  <2>2. Engine!Init => Engine!TypeOK
    <3> SUFFICES ASSUME Engine!Init PROVE Engine!TypeOK
      OBVIOUS
    <3>1. engine_runs \in 0 .. MaxRuns
      BY PartsFacts DEF Engine!Init
    <3>2. sent \in Seq(1 .. Len(File)) /\ delivered \in Seq(1 .. Len(File))
      BY PartsFacts DEF Engine!Init
    <3>3. /\ seen_head \in 0 .. Len(delivered) /\ seen_tail \in 0 .. Len(sent)
          /\ Len(delivered) <= seen_tail
      BY PartsFacts DEF Engine!Init
    <3>4. /\ engine_running \in BOOLEAN /\ ticks_dropped_ \in Nat
          /\ engine_pc \in {"idle", "start", "loop", "pop", "handle"}
      BY DEF Engine!Init
    <3> QED
      BY <3>1, <3>2, <3>3, <3>4 DEF Engine!TypeOK
  <2> QED
    BY <2>1, <2>2 DEF Init, TypeOK
<1>2. TypeOK /\ [Next]_vars => TypeOK'
  <2> SUFFICES ASSUME TypeOK, [Next]_vars PROVE TypeOK'
    OBVIOUS
  <2>1. Receiver!TypeOK'
    BY ReceiverTypes
       DEF TypeOK, Next, ReceiverRuns, Deliver, EngineRuns, Environment, vars
  <2>2. Engine!TypeOK'
    BY EngineTypes
       DEF TypeOK, Next, ReceiverRuns, Deliver, EngineRuns, Environment, vars
  <2> QED
    BY <2>1, <2>2 DEF TypeOK
<1> QED
  BY <1>1, <1>2, PTL DEF Spec

-----------------------------------------------------------------------------
(* The socket                                                              *)

\* What holds before the loop, too: no datagram comes before the first run(),
\* and one that comes between the store of running_ and the socket's setup
\* leaves its edge for the first epoll_wait.  The replay has no socket.
Announced ==
  /\ receiver_runs \in Nat
  /\ receiver_runs = 0 => receiver_pc = "idle" /\ socket = << >>
  /\ platform # "linux" => socket = << >>
  /\ receiver_pc \in {"getline", "due"} => platform # "linux"
  /\ receiver_pc \in {"start", "loop", "wait"} /\ receiver_runs = 1 /\ ~edge
       => socket = << >> \/ cut

\* Nothing has been started and nothing has arrived.
LEMMA AnnouncedInit == Init => Announced
BY DEF Init, Receiver!Init, Announced

\* run() opens a socket that nothing has reached yet, or one without a port.
LEMMA RunKeepsAnnounced == Announced /\ Receiver!Run => Announced'
BY DEF Announced, Receiver!Run, Receiver!kernelVars

\* A datagram that is queued sets the edge; one that is lost changes nothing.
LEMMA KernelKeepsAnnounced == Announced /\ Receiver!Kernel => Announced'
BY DEF Announced, Receiver!Kernel, Receiver!Arrive, Receiver!Bound

\* The loop gives up an edge only for what it drains.
LEMMA RunStepKeepsAnnounced == Announced /\ Receiver!RunStep => Announced'
<1> SUFFICES ASSUME Announced, Receiver!RunStep PROVE Announced'
  OBVIOUS
<1> USE DEF Announced, Receiver!Listening, Receiver!kernelVars
<1>1. CASE Receiver!Start
  BY <1>1 DEF Receiver!Start
<1>2. CASE Receiver!Continue
  BY <1>2 DEF Receiver!Continue
<1>3. CASE Receiver!Leave
  BY <1>3 DEF Receiver!Leave
<1>4. CASE Receiver!Event
  BY <1>4 DEF Receiver!Event
<1>5. CASE Receiver!Timeout
  BY <1>5 DEF Receiver!Timeout
<1>6. CASE Receiver!Recv
  BY <1>6 DEF Receiver!Recv
<1>7. CASE Receiver!RecvEnds
  BY <1>7 DEF Receiver!RecvEnds
<1>8. CASE Receiver!Skip \/ Receiver!Parse \/ Receiver!EndOfFile
  BY <1>8 DEF Receiver!Skip, Receiver!Parse, Receiver!EndOfFile
<1> QED
  BY <1>1, <1>2, <1>3, <1>4, <1>5, <1>6, <1>7, <1>8 DEF Receiver!RunStep

\* The engine shares nothing with the receiver but the tick.
LEMMA AnnouncedStep == Announced /\ [Next]_vars => Announced'
<1> SUFFICES ASSUME Announced, [Next]_vars PROVE Announced'
  OBVIOUS
<1>1. CASE ReceiverRuns
  BY <1>1, RunStepKeepsAnnounced DEF ReceiverRuns
<1>2. ASSUME NEW tick \in 1 .. Len(File), Deliver(tick) PROVE Announced'
  BY <1>2 DEF Announced, Deliver, Receiver!CallBack, Receiver!kernelVars
<1>3. CASE UNCHANGED receiverVars
  BY <1>3 DEF receiverVars, Announced
<1>4. CASE Receiver!Stop
  BY <1>4 DEF Receiver!Stop, Announced, Receiver!kernelVars
<1> QED
  BY <1>1, <1>2, <1>3, <1>4, RunKeepsAnnounced, KernelKeepsAnnounced
  DEF Next, EngineRuns, Environment, vars

\* The receiver goes to sleep only when it has read all that an edge announced,
\* or at a datagram of length zero (market_receiver.cpp:186 and 189).
THEOREM ReceiverLeavesNothing == Spec => []NothingLeftBehind
<1>1. Announced => NothingLeftBehind
  BY DEF Announced, NothingLeftBehind, Receiver!NothingLeftBehind, Receiver!Listening
<1> QED
  BY <1>1, AnnouncedInit, AnnouncedStep, PTL DEF Spec
=============================================================================
