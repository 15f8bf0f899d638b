-------------------------- MODULE MCGateRefinement --------------------------
(***************************************************************************)
(* TLC instance of GateRefinement.  No symmetry: the run checks liveness.  *)
(***************************************************************************)
EXTENDS GateRefinement
=============================================================================
