-------------------------- MODULE MCAttemptJournal --------------------------
(***************************************************************************)
(* An instance of AttemptJournal for TLC: two interchangeable processes.   *)
(***************************************************************************)
EXTENDS AttemptJournal, TLC

CONSTANTS p1, p2, q1

MCSymmetry == Permutations(Process)
=============================================================================
