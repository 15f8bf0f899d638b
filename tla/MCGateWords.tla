----------------------------- MODULE MCGateWords ----------------------------
(***************************************************************************)
(* TLC instance of GateWords: three versions in the slots 1 and 2 of the   *)
(* arenas 0 and 1.  The last slot number of the last arena is HANDLE_NULL, *)
(* one behind the last slot.                                               *)
(***************************************************************************)
EXTENDS GateWords

CONSTANTS v1, v2, v3

Located == [v \in {v1, v2, v3} |->
              CASE v = v1 -> [arena |-> 0, slot |-> 1]
                [] v = v2 -> [arena |-> 1, slot |-> 1]
                [] v = v3 -> [arena |-> 1, slot |-> 2]]
=============================================================================
