---------------------------- MODULE MCKeyStore ----------------------------
(* A small instance of KeyStore for TLC.                                   *)
EXTENDS KeyStore, TLC

MCSymmetry == Permutations(Instances) \cup Permutations(Keys)
=============================================================================
