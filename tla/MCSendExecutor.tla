--------------------------- MODULE MCSendExecutor ---------------------------
(***************************************************************************)
(* Instances of SendExecutor for TLC.                                      *)
(***************************************************************************)
EXTENDS SendExecutor

CONSTANTS r1, r2, d1

\* Two receipts approve one draft: r1 its first content, r2 the content after
\* one edit, expiring later.
MCDraftOf == [r \in Receipt |-> d1]
MCApproved == [r \in Receipt |-> IF r = r1 THEN 0 ELSE 1]
MCExpiry == [r \in Receipt |-> IF r = r1 THEN 3 ELSE 4]
=============================================================================
