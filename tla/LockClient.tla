----------------------------- MODULE LockClient -----------------------------
(***************************************************************************)
(* The programs of microbench/bench1/cmp_exchange/mutex_example.cpp and    *)
(* spinlock_example.cpp, with which the benchmark compares: one Data       *)
(* object that writers change in place, under a lock which readers share   *)
(* (the mutex) or do not (the spinlock).                                   *)
(***************************************************************************)
EXTENDS Integers, FiniteSets

CONSTANTS
  Threads,
  Writers, Readers,
  MaxOps      \* bound: no new update begins after so many

LockAssumption ==
  /\ Threads = Writers \cup Readers
  /\ Writers \cap Readers = {}
  /\ MaxOps \in Nat

VARIABLES
  shared,    \* which program: do readers share the lock?
  data,      \* *global_ptr
  owners,    \* the threads that hold the lock
  pc,
  v1, v2,    \* what a thread has read of the two values
  prev,      \* prev_value of a reader
  ops,       \* ops of a thread that runs
  total      \* total_writer_ops

vars == <<shared, data, owners, pc, v1, v2, prev, ops, total>>

Init ==
  /\ shared \in BOOLEAN
  /\ data   = [value1 |-> 0, value2 |-> 0]
  /\ owners = {}
  /\ pc     = [t \in Threads |-> "top"]
  /\ v1     = [t \in Threads |-> 0]
  /\ v2     = [t \in Threads |-> 0]
  /\ prev   = [t \in Readers |-> 0]
  /\ ops    = [t \in Threads |-> 0]
  /\ total  = 0

At(t, from, to) == pc[t] = from /\ pc' = [pc EXCEPT ![t] = to]

-----------------------------------------------------------------------------
(* The locks.                                                              *)
LockExclusive(t) == owners = {} /\ owners' = {t}
LockShared(t)    == owners \cap Writers = {} /\ owners' = owners \cup {t}
Unlock(t)        == owners' = owners \ {t}

(* The time is up: a writer adds its operations to the total.  Those of    *)
(* readers are not counted here, and a reader's ops stays 0.               *)
Stops(t) ==
  /\ At(t, "top", "done")
  /\ total' = total + ops[t]
  /\ ops'   = [ops EXCEPT ![t] = 0]
  /\ UNCHANGED <<data, owners, v1, v2, prev>>

Begins(t) ==
  /\ t \in Writers => data.value1 < MaxOps
  /\ At(t, "top", "lock")
  /\ UNCHANGED <<data, owners, v1, v2, prev, ops, total>>

(* Faulty variant of WriterLocks: takes the lock as readers do.            *)
WriterLocksShared(t) ==
  /\ t \in Writers
  /\ At(t, "lock", "load")
  /\ owners' = owners \cup {t}
  /\ UNCHANGED <<data, v1, v2, prev, ops, total>>

(* writer(): the two read-modify-writes under the lock.                    *)
WriterLocks(t) ==
  /\ t \in Writers
  /\ At(t, "lock", "load")
  /\ LockExclusive(t)
  /\ UNCHANGED <<data, v1, v2, prev, ops, total>>

WriterLoads(t) ==
  /\ At(t, "load", "first")
  /\ v1' = [v1 EXCEPT ![t] = data.value1]
  /\ UNCHANGED <<data, owners, v2, prev, ops, total>>

WriterAddsFirst(t) ==
  /\ At(t, "first", "second")
  /\ data' = [data EXCEPT !.value1 = v1[t] + 1]
  /\ v1'   = [v1 EXCEPT ![t] = 0]
  /\ v2'   = [v2 EXCEPT ![t] = data.value2]
  /\ UNCHANGED <<owners, prev, ops, total>>

WriterAddsSecond(t) ==
  /\ At(t, "second", "unlock")
  /\ data' = [data EXCEPT !.value2 = v2[t] + 1]
  /\ v2'   = [v2 EXCEPT ![t] = 0]
  /\ UNCHANGED <<owners, v1, prev, ops, total>>

(* Faulty variant of WriterUnlocks: returns with the lock.                 *)
WriterKeepsLock(t) ==
  /\ At(t, "unlock", "top")
  /\ ops' = [ops EXCEPT ![t] = @ + 1]
  /\ UNCHANGED <<data, owners, v1, v2, prev, total>>

WriterUnlocks(t) ==
  /\ At(t, "unlock", "top")
  /\ Unlock(t)
  /\ ops' = [ops EXCEPT ![t] = @ + 1]
  /\ UNCHANGED <<data, v1, v2, prev, total>>

(* Faulty variant of ReaderLocks: reads without the lock.                  *)
ReaderLocksNothing(t) ==
  /\ t \in Readers
  /\ At(t, "lock", "read1")
  /\ UNCHANGED <<data, owners, v1, v2, prev, ops, total>>

(* reader(): two reads under the lock, and the checks after it.            *)
ReaderLocks(t) ==
  /\ t \in Readers
  /\ At(t, "lock", "read1")
  /\ IF shared THEN LockShared(t) ELSE LockExclusive(t)
  /\ UNCHANGED <<data, v1, v2, prev, ops, total>>

ReaderReadsFirst(t) ==
  /\ At(t, "read1", "read2")
  /\ v1' = [v1 EXCEPT ![t] = data.value1]
  /\ UNCHANGED <<data, owners, v2, prev, ops, total>>

ReaderReadsSecond(t) ==
  /\ At(t, "read2", "check")
  /\ v2' = [v2 EXCEPT ![t] = data.value2]
  /\ Unlock(t)
  /\ UNCHANGED <<data, v1, prev, ops, total>>

ReaderChecks(t) ==
  /\ At(t, "check", IF v1[t] # v2[t] \/ v1[t] < prev[t] THEN "invalid" ELSE "top")
  /\ prev' = [prev EXCEPT ![t] = v1[t]]
  /\ v1'   = [v1 EXCEPT ![t] = 0]
  /\ v2'   = [v2 EXCEPT ![t] = 0]
  /\ UNCHANGED <<data, owners, ops, total>>

-----------------------------------------------------------------------------
ThreadStep(t) ==
  /\ \/ Begins(t) \/ Stops(t)
     \/ WriterLocks(t) \/ WriterLoads(t) \/ WriterAddsFirst(t)
     \/ WriterAddsSecond(t) \/ WriterUnlocks(t)
     \/ ReaderLocks(t) \/ ReaderReadsFirst(t) \/ ReaderReadsSecond(t)
     \/ ReaderChecks(t)
  /\ UNCHANGED shared

Next == \E t \in Threads : ThreadStep(t)

Spec == Init /\ [][Next]_vars

\* main() has joined all threads.
Ended == \A t \in Threads : pc[t] = "done"

-----------------------------------------------------------------------------
(***************************************************************************)
(* No reader exits with "Invalid data" or "Invalid value", although the    *)
(* checks are made after the lock is released.                             *)
(***************************************************************************)
ReadsAreValid == \A t \in Readers : pc[t] # "invalid"

(***************************************************************************)
(* When all threads have been joined, both values are the number of        *)
(* operations that the program reports: no increment of two writers was    *)
(* lost, and none was counted twice.                                       *)
(***************************************************************************)
UpdatesAddUp ==
  Ended => data = [value1 |-> total, value2 |-> total]
=============================================================================
