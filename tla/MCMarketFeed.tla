---------------------------- MODULE MCMarketFeed ----------------------------
(* Instance for TLC: a header, a tick, a bad line and a tick; the second    *)
(* run of the receiver overruns a queue of two that the engine may still    *)
(* hold ticks in; three datagrams, a burst of which overruns the socket.    *)
EXTENDS MarketFeed

MCFile == <<FALSE, TRUE, FALSE, TRUE>>
=============================================================================
