--------------------------- MODULE MCReplayHistory ---------------------------
(* A small instance of ReplayHistory for TLC.                              *)
EXTENDS ReplayHistory

\* The client's clock is ahead of the gateway's.
MCTimestamps == {2}
==============================================================================
