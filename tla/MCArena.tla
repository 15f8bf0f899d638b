------------------------------ MODULE MCArena -------------------------------
(***************************************************************************)
(* TLC instance of Arena.  No symmetry: the run checks liveness.           *)
(***************************************************************************)
EXTENDS Arena
=============================================================================
