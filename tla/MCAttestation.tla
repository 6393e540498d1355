--------------------------- MODULE MCAttestation ---------------------------
(* Small instances of Attestation for TLC.                                 *)
EXTENDS Attestation, TLC

MCSymmetry == Permutations(Requests) \cup Permutations(Challenges)
                 \cup Permutations(DeviceKeys)
=============================================================================
