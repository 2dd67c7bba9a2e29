----------------------------- MODULE MCRuntime -----------------------------
(***************************************************************************)
(* Small instance of Runtime: the default layer and another one.           *)
(***************************************************************************)
EXTENDS Runtime

CONSTANTS main, other

=============================================================================
