--------------------------- MODULE GateRefinement ---------------------------
(***************************************************************************)
(* The protocol of Gate implements VersionStore: a version is current when *)
(* its handle is in a control block, and it is dying from the moment some  *)
(* thread has claimed its FINALIZED flag (or free_version was called)      *)
(* until free_slot has returned it.                                        *)
(***************************************************************************)
EXTENDS Gate

HandleOf == [c \in Slots |-> cb[c].handle]

Dying == {v \in Versions :
            \E t \in Threads : job[t] = v /\ pc[t] \in {"callback", "free"}}

Store == INSTANCE VersionStore WITH current <- HandleOf, dying <- Dying

(***************************************************************************)
(* Every behaviour of the protocol is a behaviour of the version store:    *)
(* an acquire or a replacement takes effect at one atomic instruction, and *)
(* the finalizing thread claims a version only when it is garbage.         *)
(***************************************************************************)
ImplementsStore == Store!Spec

(***************************************************************************)
(* ... and it reclaims all garbage, provided that a thread inside a call   *)
(* keeps running.                                                          *)
(***************************************************************************)
ImplementsFairStore == Store!FairSpec
=============================================================================
