------------------------------ MODULE SlotPool ------------------------------
(***************************************************************************)
(* What the allocator promises: a slot is handed out only while nobody has *)
(* it, and given back once.  The hand-outs are counted: handing out a slot *)
(* that is in use would be a step to 2, which this specification does not  *)
(* allow, and not a step that changes nothing.                             *)
(***************************************************************************)
EXTENDS Naturals

CONSTANT Slots

VARIABLE out   \* how often each slot is handed out and not given back

Init == out = [h \in Slots |-> 0]

Take(h) == out[h] = 0 /\ out' = [out EXCEPT ![h] = 1]

Give(h) == out[h] = 1 /\ out' = [out EXCEPT ![h] = 0]

Next == \E h \in Slots : Take(h) \/ Give(h)

Spec == Init /\ [][Next]_out
=============================================================================
