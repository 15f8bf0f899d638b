----------------------------- MODULE GateClient -----------------------------
(***************************************************************************)
(* What the programs that use a gate have in common: they start on an open *)
(* gate that already has versions, and a thread is at some point of a loop *)
(* of its own while the library works for it.                              *)
(***************************************************************************)
EXTENDS Gate

VARIABLE cpc   \* where a thread is in its own loop

At(t, from, to) == cpc[t] = from /\ cpc' = [cpc EXCEPT ![t] = to]

\* The gate as a program's main thread leaves it: version f[c] is in slot c.
StartsWith(f) ==
  LET first == {f[c] : c \in Slots} IN
  /\ gate   = "open"
  /\ cb     = [c \in Slots |-> Installed(f[c])]
  /\ inner  = [v \in Versions |-> FreshInner]
  /\ object = [v \in Versions |-> IF v \in first THEN "live" ELSE "unset"]
  /\ pool   = Versions \ first
  /\ held   = [t \in Threads |-> NULL]
  /\ mine   = [t \in Threads |-> NULL]
  /\ pc     = [t \in Threads |-> "idle"]
  /\ job    = [t \in Threads |-> NULL]
  /\ refs   = [t \in Threads |-> 0]
  /\ cur    = [t \in Threads |-> FreshInner]
  /\ slot   = [t \in Threads |-> NULL]
  /\ val    = [t \in Threads |-> EmptyBlock]
=============================================================================
