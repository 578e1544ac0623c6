--------------------------- MODULE MCSlackIssuer ----------------------------
(***************************************************************************)
(* Instances of SlackIssuer for TLC.                                       *)
(***************************************************************************)
EXTENDS SlackIssuer

CONSTANTS r1, r2, e1, e2

\* r1 is short-lived: it can expire while r2 is still good.
MCTtl == [r \in Request |-> IF r = r1 THEN 1 ELSE 2]
=============================================================================
