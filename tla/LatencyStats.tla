---------------------------- MODULE LatencyStats ----------------------------
(***************************************************************************)
(* LatencyStats of microbench/bench2/bench_all.cpp: three atomics that all *)
(* readers update without a lock, the maximum in a CAS loop, and that      *)
(* finalize() reads when the readers are gone.                             *)
(***************************************************************************)
EXTENDS Integers, FiniteSets, Sequences

CONSTANTS
  Threads,
  MaxNs,     \* bound: the longest latency
  MaxAdds    \* bound: calls of add

StatsAssumption == MaxNs \in Nat /\ MaxAdds \in Nat

VARIABLES
  samples, sum_ns, max_ns,   \* the three atomics
  pc,
  ns,        \* argument of add
  cur,       \* cur of add
  added      \* history: what the calls of add have been given, in order

vars == <<samples, sum_ns, max_ns, pc, ns, cur, added>>

Init ==
  /\ samples = 0 /\ sum_ns = 0 /\ max_ns = 0
  /\ pc    = [t \in Threads |-> "idle"]
  /\ ns    = [t \in Threads |-> 0]
  /\ cur   = [t \in Threads |-> 0]
  /\ added = <<>>

At(t, from, to) == pc[t] = from /\ pc' = [pc EXCEPT ![t] = to]

(* add(ns): the two fetch_adds and the load of max_ns ...                  *)
AddCounts(t, n) ==
  /\ Len(added) < MaxAdds
  /\ At(t, "idle", "sum")
  /\ ns'      = [ns EXCEPT ![t] = n]
  /\ samples' = samples + 1
  /\ added'   = Append(added, n)
  /\ UNCHANGED <<sum_ns, max_ns, cur>>

AddSums(t) ==
  /\ At(t, "sum", "load")
  /\ sum_ns' = sum_ns + ns[t]
  /\ UNCHANGED <<samples, max_ns, ns, cur, added>>

AddLoads(t) ==
  /\ At(t, "load", "raise")
  /\ cur' = [cur EXCEPT ![t] = max_ns]
  /\ UNCHANGED <<samples, sum_ns, max_ns, ns, added>>

(* ... and the loop: nothing to do, or a weak CAS, which may fail for no   *)
(* reason and then leaves max_ns in cur.                                   *)
AddReturns(t) ==
  /\ ns[t] <= cur[t]
  /\ At(t, "raise", "idle")
  /\ UNCHANGED <<samples, sum_ns, max_ns, ns, cur, added>>

\* Faulty variant of AddRaises: a store where the code has a CAS.
AddStores(t) ==
  /\ ns[t] > cur[t]
  /\ At(t, "raise", "idle")
  /\ max_ns' = ns[t]
  /\ UNCHANGED <<samples, sum_ns, ns, cur, added>>

AddRaises(t) ==
  /\ ns[t] > cur[t]
  /\ max_ns = cur[t]
  /\ At(t, "raise", "idle")
  /\ max_ns' = ns[t]
  /\ UNCHANGED <<samples, sum_ns, ns, cur, added>>

AddRetries(t) ==
  /\ ns[t] > cur[t]
  /\ pc[t] = "raise"
  /\ cur' = [cur EXCEPT ![t] = max_ns]
  /\ UNCHANGED <<samples, sum_ns, max_ns, pc, ns, added>>

Next ==
  \E t \in Threads :
    \/ \E n \in 0 .. MaxNs : AddCounts(t, n)
    \/ AddSums(t) \/ AddLoads(t)
    \/ AddReturns(t) \/ AddRaises(t) \/ AddRetries(t)

Spec == Init /\ [][Next]_vars

-----------------------------------------------------------------------------
\* The sum of what was added: its units, counted one by one.
Units == {u \in (1 .. Len(added)) \X (1 .. MaxNs) : u[2] <= added[u[1]]}

(***************************************************************************)
(* When no call of add is under way, the three atomics are the number, the *)
(* sum and the maximum of all that was added: finalize() reports the       *)
(* latencies of the whole run, however the calls overlapped.               *)
(***************************************************************************)
StatsAreExact ==
  (\A t \in Threads : pc[t] = "idle") =>
    /\ samples = Len(added)
    /\ sum_ns  = Cardinality(Units)
    /\ \A i \in 1 .. Len(added) : added[i] <= max_ns
    /\ max_ns # 0 => \E i \in 1 .. Len(added) : added[i] = max_ns

-----------------------------------------------------------------------------
(***************************************************************************)
(* The inductive invariant.                                                *)
(***************************************************************************)
TypeOK ==
  /\ samples \in Nat /\ sum_ns \in Nat /\ max_ns \in 0 .. MaxNs
  /\ pc  \in [Threads -> {"idle", "sum", "load", "raise"}]
  /\ ns  \in [Threads -> 0 .. MaxNs]
  /\ cur \in [Threads -> 0 .. MaxNs]
  /\ added \in Seq(0 .. MaxNs)

\* What calls of add have been given and not yet summed up.
NotSummed ==
  {u \in Threads \X (1 .. MaxNs) : pc[u[1]] = "sum" /\ u[2] <= ns[u[1]]}

SumInv ==
  /\ IsFiniteSet(NotSummed)
  /\ sum_ns + Cardinality(NotSummed) = Cardinality(Units)

\* No latency is above the maximum, unless its call is still to raise it.
MaxInv ==
  /\ \A i \in 1 .. Len(added) :
       \/ added[i] <= max_ns
       \/ \E t \in Threads : pc[t] # "idle" /\ ns[t] = added[i]
  /\ \A t \in Threads :
       /\ pc[t] # "idle" => \E i \in 1 .. Len(added) : added[i] = ns[t]
       /\ pc[t] = "raise" => cur[t] <= max_ns
  /\ max_ns # 0 => \E i \in 1 .. Len(added) : added[i] = max_ns

StatsInv == TypeOK /\ samples = Len(added) /\ SumInv /\ MaxInv
=============================================================================
