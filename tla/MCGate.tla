------------------------------- MODULE MCGate -------------------------------
(* Gate on a small instance.  Threads and version slots are interchangeable. *)
EXTENDS Gate, TLC

Symmetry == Permutations(Threads) \cup Permutations(Versions)
=============================================================================
