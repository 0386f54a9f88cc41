--------------------------- MODULE MarketReceiver ---------------------------
(***************************************************************************)
(* MarketReceiver: the thread inside run(), the thread that calls stop(),  *)
(* and on Linux the kernel.  The code has two bodies, chosen by the build: *)
(* an edge-triggered epoll loop over a UDP socket, and a replay of a CSV   *)
(* file.                                                                   *)
(*                                                                         *)
(* running_ is a plain bool, so stop() races with the loop's test.  Every  *)
(* turn of either loop calls a function the compiler cannot see into, so   *)
(* the test reads memory each time and may find the value of run()'s own   *)
(* store until stop()'s becomes visible.  Decoding is not written yet: a   *)
(* datagram is read and forgotten, and only the replay calls back.         *)
(***************************************************************************)
EXTENDS Integers, Sequences

CONSTANTS
  File,         \* the lines of the replayed file: TRUE for a well-formed tick
  SocketCap,    \* how many datagrams fit into the receive buffer
  MaxArrivals,  \* bound of the model: datagrams that reach the host
  MaxRuns       \* bound of the model: calls of run()

VARIABLES
  platform,  \* what the program was built for
  running_,
  pc,        \* where run() stands
  runs,      \* calls of run() so far; on Linux also the sockets opened
  socket,    \* datagrams in the receive buffer of the bound socket
  edge,      \* an arrival that epoll_wait has not reported
  arrived,   \* datagrams that reached the host
  cut,       \* the last drain ended at a datagram of length zero
  line       \* lines of the file read by this run

kernelVars == <<socket, edge, arrived>>
vars == <<platform, running_, pc, runs, cut, line, kernelVars>>

Init ==
  /\ platform \in {"linux", "other"}
  /\ running_ = FALSE /\ pc = "idle" /\ runs = 0
  /\ socket = << >> /\ edge = FALSE /\ arrived = 0 /\ cut = FALSE
  /\ line = 0

-----------------------------------------------------------------------------
(* run() and stop()                                                        *)

\* run() as far as the store of running_: on Linux it opens a socket and
\* registers it, otherwise it opens the file.  A replay without a path or with a
\* file that does not open returns at once (lines 60 to 72), running_ untouched:
\* it changes nothing and is no step here.
Run ==
  /\ pc = "idle" /\ runs < MaxRuns
  /\ runs' = runs + 1
  /\ pc' = "start"
  /\ line' = 0 /\ cut' = FALSE
  /\ UNCHANGED <<platform, running_, kernelVars>>

Start ==
  /\ pc = "start"
  /\ running_' = TRUE
  /\ pc' = "loop"
  /\ UNCHANGED <<platform, runs, cut, line, kernelVars>>

Stop ==
  /\ running_' = FALSE
  /\ UNCHANGED <<platform, pc, runs, cut, line, kernelVars>>

\* The loop's test finds TRUE, perhaps the TRUE of before stop().
Continue ==
  /\ pc = "loop"
  /\ pc' = IF platform = "linux" THEN "wait" ELSE "getline"
  /\ UNCHANGED <<platform, running_, runs, cut, line, kernelVars>>

Leave ==
  /\ pc = "loop" /\ ~running_
  /\ pc' = "idle"
  /\ UNCHANGED <<platform, running_, runs, cut, line, kernelVars>>

-----------------------------------------------------------------------------
(* The kernel                                                              *)

\* The first socket keeps the port as long as the receiver lives: run() does
\* not close it, and the bind() of a later one fails without a notice.
Bound == platform = "linux" /\ runs >= 1
Listening == runs = 1

\* Each datagram that is queued makes the socket ready again.
Arrive(len) ==
  /\ Bound /\ arrived < MaxArrivals
  /\ arrived' = arrived + 1
  /\ IF Len(socket) < SocketCap
     THEN socket' = Append(socket, len) /\ edge' = TRUE
     ELSE UNCHANGED <<socket, edge>>
  /\ UNCHANGED <<platform, running_, pc, runs, cut, line>>

-----------------------------------------------------------------------------
(* event_loop                                                              *)

\* Fault: the event is taken for one of another kind.
EventIgnored ==
  /\ pc = "wait" /\ Listening /\ edge /\ socket # << >>
  /\ edge' = FALSE
  /\ pc' = "loop"
  /\ UNCHANGED <<platform, running_, runs, socket, arrived, cut, line>>

\* epoll_wait reports EPOLLIN, once for all arrivals so far.
Event ==
  /\ pc = "wait" /\ Listening /\ edge /\ socket # << >>
  /\ edge' = FALSE
  /\ pc' = "drain"
  /\ UNCHANGED <<platform, running_, runs, socket, arrived, cut, line>>

\* Fault: epoll_wait has no timeout; only an arrival wakes the thread.
TimeoutNever ==
  /\ pc = "wait" /\ Listening /\ edge /\ socket = << >>
  /\ edge' = FALSE
  /\ pc' = "loop"
  /\ UNCHANGED <<platform, running_, runs, socket, arrived, cut, line>>

\* A millisecond without an event, or an edge whose datagrams are read already.
Timeout ==
  /\ pc = "wait"
  /\ Listening /\ edge => socket = << >>
  /\ edge' = (edge /\ ~Listening)
  /\ pc' = "loop"
  /\ UNCHANGED <<platform, running_, runs, socket, arrived, cut, line>>

\* Fault: one recv() per event.
RecvOnce ==
  /\ pc = "drain" /\ socket # << >> /\ Head(socket) > 0
  /\ socket' = Tail(socket)
  /\ cut' = FALSE /\ pc' = "loop"
  /\ UNCHANGED <<platform, running_, runs, edge, arrived, line>>

\* recv() returns a datagram: the drain goes on.
Recv ==
  /\ pc = "drain" /\ socket # << >> /\ Head(socket) > 0
  /\ socket' = Tail(socket)
  /\ UNCHANGED <<platform, running_, pc, runs, edge, arrived, cut, line>>

\* recv() returns -1 (EAGAIN) or the length 0, and the drain ends on both.
RecvEnds ==
  /\ pc = "drain" /\ (socket # << >> => Head(socket) = 0)
  /\ cut' = (socket # << >>)
  /\ socket' = IF socket = << >> THEN << >> ELSE Tail(socket)
  /\ pc' = "loop"
  /\ UNCHANGED <<platform, running_, runs, edge, arrived, line>>

-----------------------------------------------------------------------------
(* The replay                                                              *)

\* A comment, a header or a line that does not parse is skipped.
Skip ==
  /\ pc = "getline" /\ line < Len(File) /\ ~File[line + 1]
  /\ line' = line + 1
  /\ pc' = "loop"
  /\ UNCHANGED <<platform, running_, runs, cut, kernelVars>>

\* A tick is parsed; the thread sleeps until the tick is due.
Parse ==
  /\ pc = "getline" /\ line < Len(File) /\ File[line + 1]
  /\ line' = line + 1
  /\ pc' = "due"
  /\ UNCHANGED <<platform, running_, runs, cut, kernelVars>>

\* The callback gets the tick, also when stop() came during the sleep.
CallBack(tick) ==
  /\ pc = "due" /\ tick = line
  /\ pc' = "loop"
  /\ UNCHANGED <<platform, running_, runs, cut, line, kernelVars>>

EndOfFile ==
  /\ pc = "getline" /\ line = Len(File)
  /\ running_' = FALSE
  /\ pc' = "idle"
  /\ UNCHANGED <<platform, runs, cut, line, kernelVars>>

-----------------------------------------------------------------------------
\* The steps of run() that touch nothing outside the receiver.
RunStep ==
  \/ Start \/ Continue \/ Leave
  \/ Event \/ Timeout \/ Recv \/ RecvEnds
  \/ Skip \/ Parse \/ EndOfFile

Kernel == \E len \in {0, 1} : Arrive(len)

-----------------------------------------------------------------------------
(* Properties                                                              *)

TypeOK ==
  /\ platform \in {"linux", "other"} /\ running_ \in BOOLEAN
  /\ pc \in {"idle", "start", "loop"}
       \cup IF platform = "linux" THEN {"wait", "drain"} ELSE {"getline", "due"}
  /\ runs \in 0 .. MaxRuns
  /\ socket \in Seq({0, 1}) /\ Len(socket) <= SocketCap
  /\ edge \in BOOLEAN /\ arrived \in 0 .. MaxArrivals /\ cut \in BOOLEAN
  /\ line \in 0 .. Len(File)

\* The loop may sleep on an edge-triggered socket only when it has read all
\* there was (market_receiver.cpp:186).  It has, unless the last drain met a
\* datagram of length zero, which line 189 takes for the end.
NothingLeftBehind ==
  pc \in {"loop", "wait"} /\ Listening /\ ~edge /\ socket # << >> => cut

\* Datagrams whose arrival is still to be reported are read while the
\* receiver runs, at least as far as the next one of length zero.
ArrivalsAreRead ==
  Listening /\ edge /\ pc # "idle" ~> socket = << >> \/ cut \/ pc = "idle"

\* A stop() that comes after run() has stored running_ ends it: on Linux
\* within a timeout of epoll_wait (market_receiver.cpp:182), in the replay
\* after at most the tick that is due.
StopIsHeeded == pc \notin {"idle", "start"} /\ ~running_ ~> pc = "idle"
=============================================================================
