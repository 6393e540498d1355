-------------------------- MODULE MCRateLimitQuota --------------------------
(* A small instance of RateLimitQuota for TLC.                             *)
EXTENDS RateLimitQuota, TLC

ClientSymmetry == Permutations(Clients)
=============================================================================
