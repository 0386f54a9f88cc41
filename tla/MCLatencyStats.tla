--------------------------- MODULE MCLatencyStats ---------------------------
(* Instance for TLC: times below, at and above each bound, and percentages  *)
(* whose rank is rounded down as well as up, to 0 among few samples.        *)
EXTENDS LatencyStats

MCLogicBounds == <<25, 50>>
MCWaitBounds == <<10>>
=============================================================================
