------------------------- MODULE MCRealtimeReplay -------------------------
(* Instance for TLC: the file is longer than the queue, so that ticks are  *)
(* dropped, and accepted again after the consumer has caught up.           *)
EXTENDS RealtimeReplay

MCNumTicks == 6
MCCapacity == 3
=============================================================================
