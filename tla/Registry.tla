------------------------------ MODULE Registry ------------------------------
(***************************************************************************)
(* The thread registry of atomsnap.c: a thread that first needs a context  *)
(* claims a thread id in g_tid_used, adopts the context left behind under  *)
(* that id or allocates one, and puts it in its thread-local storage; the  *)
(* destructor of that storage gives the id back when the thread exits.     *)
(***************************************************************************)
EXTENDS Integers, FiniteSets

CONSTANTS
  Threads,      \* program threads; one that has exited may start again
  MaxThreads,   \* MAX_THREADS
  Faults,       \* what may fail: "calloc", "setspecific"
  NULL          \* no context

ASSUME RegistryAssumption ==
  /\ MaxThreads \in Nat
  /\ Faults \subseteq {"calloc", "setspecific"}
  /\ NULL \notin 0 .. MaxThreads - 1

ASSUME ThreadsAssumption == IsFiniteSet(Threads)

VARIABLES
  used,     \* g_tid_used
  exists,   \* is g_thread_contexts[tid] allocated?
  tls,      \* the tid of the context in a thread's TLS, or NULL
  pc,       \* where a thread is
  i,        \* the id a thread looks at, and then the one it has claimed
  leaked    \* ids that a failed pthread_setspecific left claimed

vars == <<used, exists, tls, pc, i, leaked>>

Tids == 0 .. MaxThreads - 1

\* global_init_routine, run once before anything else.
Init ==
  /\ used   = [k \in Tids |-> FALSE]
  /\ exists = [k \in Tids |-> FALSE]
  /\ tls    = [t \in Threads |-> NULL]
  /\ pc     = [t \in Threads |-> "outside"]
  /\ i      = [t \in Threads |-> 0]
  /\ leaked = {}

Goto(t, label) == pc' = [pc EXCEPT ![t] = label]

(* get_or_init_thread_context: the context is there, and the caller works  *)
(* with it ...                                                             *)
UseContext(t) ==
  /\ pc[t] = "outside"
  /\ tls[t] # NULL
  /\ Goto(t, "using")
  /\ UNCHANGED <<used, exists, tls, i, leaked>>

Return(t) ==
  /\ pc[t] = "using"
  /\ Goto(t, "outside")
  /\ UNCHANGED <<used, exists, tls, i, leaked>>

(* ... or it is not, and atomsnap_thread_init_internal looks for an id.    *)
InitThread(t) ==
  /\ pc[t] = "outside"
  /\ tls[t] = NULL
  /\ i' = [i EXCEPT ![t] = 0]
  /\ Goto(t, "scan")
  /\ UNCHANGED <<used, exists, tls, leaked>>

(* Faulty variant of ScanUsed: waits for the first id.                     *)
ScanUsedWithoutAdvance(t) ==
  /\ pc[t] = "scan"
  /\ i[t] < MaxThreads
  /\ used[i[t]]
  /\ UNCHANGED vars

(* The load of g_tid_used[i]: used, go on; free, try to claim it.          *)
ScanUsed(t) ==
  /\ pc[t] = "scan"
  /\ i[t] < MaxThreads
  /\ used[i[t]]
  /\ i' = [i EXCEPT ![t] = @ + 1]
  /\ UNCHANGED <<used, exists, tls, pc, leaked>>

ScanFree(t) ==
  /\ pc[t] = "scan"
  /\ i[t] < MaxThreads
  /\ ~used[i[t]]
  /\ Goto(t, "claim")
  /\ UNCHANGED <<used, exists, tls, i, leaked>>

(* Faulty variant of ClaimTid: a store where the code has a CAS.           *)
ClaimByStore(t) ==
  /\ pc[t] = "claim"
  /\ used' = [used EXCEPT ![i[t]] = TRUE]
  /\ Goto(t, "adopt")
  /\ UNCHANGED <<exists, tls, i, leaked>>

(* Faulty variant of ClaimTid: a lost race ends the scan.                  *)
ClaimOrGiveUp(t) ==
  /\ pc[t] = "claim"
  /\ IF used[i[t]]
     THEN Goto(t, "refused") /\ UNCHANGED used
     ELSE used' = [used EXCEPT ![i[t]] = TRUE] /\ Goto(t, "adopt")
  /\ UNCHANGED <<exists, tls, i, leaked>>

(* The CAS on g_tid_used[i]: another thread may have been faster.          *)
ClaimTid(t) ==
  /\ pc[t] = "claim"
  /\ IF used[i[t]]
     THEN i' = [i EXCEPT ![t] = @ + 1] /\ Goto(t, "scan") /\ UNCHANGED used
     ELSE used' = [used EXCEPT ![i[t]] = TRUE] /\ Goto(t, "adopt") /\ UNCHANGED i
  /\ UNCHANGED <<exists, tls, leaked>>

(* Faulty variant of RegistryFull: goes on with tid = -1.                  *)
RegistryFullUnchecked(t) ==
  /\ pc[t] = "scan"
  /\ i[t] = MaxThreads
  /\ i' = [i EXCEPT ![t] = -1]
  /\ Goto(t, "adopt")
  /\ UNCHANGED <<used, exists, tls, leaked>>

(* No id is left: "Max threads limit reached".                             *)
RegistryFull(t) ==
  /\ pc[t] = "scan"
  /\ i[t] = MaxThreads
  /\ Goto(t, "refused")
  /\ UNCHANGED <<used, exists, tls, i, leaked>>

\* The call of the client returned NULL; it may try again.
Refused(t) ==
  /\ pc[t] = "refused"
  /\ Goto(t, "outside")
  /\ UNCHANGED <<used, exists, tls, i, leaked>>

(* A context is adopted as it is, or allocated, and put in the TLS.        *)
Adopt(t) ==
  /\ pc[t] = "adopt"
  /\ exists' = [exists EXCEPT ![i[t]] = TRUE]
  /\ tls'    = [tls EXCEPT ![t] = i[t]]
  /\ Goto(t, "using")
  /\ UNCHANGED <<used, i, leaked>>

(* Faulty variant of ContextFails: the id is not given back.               *)
ContextFailsHoldingTid(t) ==
  /\ "calloc" \in Faults
  /\ pc[t] = "adopt"
  /\ ~exists[i[t]]
  /\ Goto(t, "outside")
  /\ UNCHANGED <<used, exists, tls, i, leaked>>

(* calloc of a new context fails: the id is given back.                    *)
ContextFails(t) ==
  /\ "calloc" \in Faults
  /\ pc[t] = "adopt"
  /\ ~exists[i[t]]
  /\ used' = [used EXCEPT ![i[t]] = FALSE]
  /\ Goto(t, "outside")
  /\ UNCHANGED <<exists, tls, i, leaked>>

(* pthread_setspecific fails: the id stays claimed.                        *)
SetSpecificFails(t) ==
  /\ "setspecific" \in Faults
  /\ pc[t] = "adopt"
  /\ exists' = [exists EXCEPT ![i[t]] = TRUE]
  /\ leaked' = leaked \cup {i[t]}
  /\ Goto(t, "outside")
  /\ UNCHANGED <<used, tls, i>>

(* The thread exits: its TLS slot is cleared, and tls_destructor works on  *)
(* the context, reclaiming arenas ...                                      *)
ThreadExits(t) ==
  /\ pc[t] = "outside"
  /\ tls[t] # NULL
  /\ i'   = [i EXCEPT ![t] = tls[t]]
  /\ tls' = [tls EXCEPT ![t] = NULL]
  /\ Goto(t, "destroy")
  /\ UNCHANGED <<used, exists, leaked>>

(* ... and then gives the id back.                                         *)
ReleaseTid(t) ==
  /\ pc[t] = "destroy"
  /\ used' = [used EXCEPT ![i[t]] = FALSE]
  /\ Goto(t, "outside")
  /\ UNCHANGED <<exists, tls, i, leaked>>

-----------------------------------------------------------------------------
Step(t) ==
  \/ Return(t)
  \/ ScanUsed(t) \/ ScanFree(t) \/ ClaimTid(t) \/ RegistryFull(t) \/ Refused(t)
  \/ Adopt(t) \/ ContextFails(t) \/ SetSpecificFails(t)
  \/ ReleaseTid(t)

Next ==
  \E t \in Threads : UseContext(t) \/ InitThread(t) \/ ThreadExits(t) \/ Step(t)

Spec == Init /\ [][Next]_vars

\* A thread inside the library keeps being scheduled.
FairSpec == Spec /\ \A t \in Threads : WF_vars(Step(t))

-----------------------------------------------------------------------------
TypeOK ==
  /\ used   \in [Tids -> BOOLEAN]
  /\ exists \in [Tids -> BOOLEAN]
  /\ tls    \in [Threads -> Tids \cup {NULL}]
  /\ pc     \in [Threads -> {"outside", "using", "scan", "claim", "refused",
                             "adopt", "destroy"}]
  /\ i      \in [Threads -> 0 .. MaxThreads]
  /\ leaked \in SUBSET Tids

\* The context a thread has, or is about to work on, or still works on.
Has(t, k) == tls[t] = k \/ (pc[t] \in {"adopt", "destroy"} /\ i[t] = k)

(***************************************************************************)
(* A context has one thread at a time: not even a thread that exits and    *)
(* the one that adopts what it leaves share it.  The private lists and     *)
(* vectors of a context are unsynchronised and rely on this.               *)
(***************************************************************************)
ContextExclusive ==
  \A k \in Tids, t, u \in Threads : Has(t, k) /\ Has(u, k) => t = u

(***************************************************************************)
(* No id is lost: one that is marked used has a thread, unless it was left *)
(* claimed by a failed pthread_setspecific.                                *)
(***************************************************************************)
UsedIffHad ==
  \A k \in Tids : used[k] <=> k \in leaked \/ \E t \in Threads : Has(t, k)

(***************************************************************************)
(* While there are no more program threads than ids, none is refused, even *)
(* though the scan is not atomic and ids come free behind it.              *)
(***************************************************************************)
NoSpuriousRefusal ==
  Cardinality(Threads) + Cardinality(leaked) <= MaxThreads =>
    \A t \in Threads : pc[t] # "refused"

(***************************************************************************)
(* The first call of a thread ends, with a context or without.             *)
(***************************************************************************)
InitReturns == \A t \in Threads : pc[t] = "scan" ~> pc[t] \in {"using", "outside"}

-----------------------------------------------------------------------------
(***************************************************************************)
(* The inductive invariant: where a thread is says whether it has a        *)
(* context, and no thread has a leaked id.                                 *)
(***************************************************************************)
CallState ==
  \A t \in Threads :
    /\ pc[t] \in {"scan", "claim", "refused", "adopt", "destroy"} => tls[t] = NULL
    /\ pc[t] = "using" => tls[t] # NULL
    /\ pc[t] \in {"claim", "adopt", "destroy"} => i[t] \in Tids

LeakedIsNobodys == \A k \in leaked, t \in Threads : ~Has(t, k)

RegistryInv ==
  TypeOK /\ CallState /\ ContextExclusive /\ UsedIffHad /\ LeakedIsNobodys

(***************************************************************************)
(* Why nobody is refused: a thread passes an id only when somebody else    *)
(* has it or it is leaked, so that each id it has passed costs one thread  *)
(* or leak that is not beyond that id.  Ids that come free behind a scan   *)
(* do not matter, since those who free them are not beyond either.         *)
(***************************************************************************)
InScan(t) == pc[t] \in {"scan", "claim", "refused", "adopt", "destroy"}

Beyond(k) ==
  {t \in Threads : (tls[t] # NULL /\ tls[t] >= k) \/ (InScan(t) /\ i[t] >= k)}

LeakedFrom(k) == {l \in leaked : l >= k}

ScanCount ==
  \A k \in 0 .. MaxThreads : Beyond(k) # {} =>
    Cardinality(Beyond(k)) + Cardinality(LeakedFrom(k)) + k
      <= Cardinality(Threads) + Cardinality(leaked)

RefusedAtEnd == \A t \in Threads : pc[t] = "refused" => i[t] = MaxThreads

CountInv == RegistryInv /\ ScanCount /\ RefusedAtEnd
=============================================================================
