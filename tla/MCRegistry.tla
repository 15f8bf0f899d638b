----------------------------- MODULE MCRegistry -----------------------------
(***************************************************************************)
(* TLC instance of Registry.                                               *)
(***************************************************************************)
EXTENDS Registry
=============================================================================
