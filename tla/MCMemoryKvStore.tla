-------------------------- MODULE MCMemoryKvStore --------------------------
(* A small instance of MemoryKvStore for TLC.                              *)
EXTENDS MemoryKvStore, TLC

MCTTLs == {0, 1, Forever}
KeySymmetry == Permutations(Keys) \cup Permutations(Values)
=============================================================================
