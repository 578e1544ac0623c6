-------------------------- MODULE MCPreparedStore --------------------------
(***************************************************************************)
(* Instances of PreparedStore for TLC.                                     *)
(***************************************************************************)
EXTENDS PreparedStore

CONSTANTS a1, a2, none
=============================================================================
