---------------------------- MODULE MCLifecycle ----------------------------
(***************************************************************************)
(* Instances of Lifecycle for TLC: a draft that is sent twice, and another *)
(* one in the same thread.                                                 *)
(***************************************************************************)
EXTENDS Lifecycle

CONSTANTS a1, a2, b1, d1, d2

MCDraftOf == [a \in Attempt |-> IF a = b1 THEN d2 ELSE d1]
=============================================================================
