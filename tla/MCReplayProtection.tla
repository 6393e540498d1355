------------------------- MODULE MCReplayProtection -------------------------
(* A small instance of ReplayProtection for TLC.                           *)
EXTENDS ReplayProtection, TLC

NonceSymmetry == Permutations(Nonces)
\* One timestamp that is good for the whole run, one that expires in it.
MCTimestamps == {1, 2}
=============================================================================
