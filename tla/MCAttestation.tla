--------------------------- MODULE MCAttestation ---------------------------
(***************************************************************************)
(* Instances of Attestation for TLC: runs that may overlap, one of them to *)
(* seal and the other to seal or to send.                                  *)
(***************************************************************************)
EXTENDS Attestation, TLC

CONSTANTS r1, r2, c1, c2, plain, signed

MCSymmetry == Permutations({r1, r2}) \cup Permutations({c1, c2}) \cup Permutations({plain, signed})
=============================================================================
