-------------------------------- MODULE Gate --------------------------------
(***************************************************************************)
(* The reference-counting protocol of atomsnap.c: the 64-bit control block *)
(* of a gate slot ([outer refcount | handle]) and the 64-bit inner state   *)
(* of a version ([counter | flags]), with every operation of the public    *)
(* API cut at its atomic accesses.                                         *)
(*                                                                         *)
(* A thread is one client activity: it holds at most one acquired version  *)
(* (README, "No Nested Acquires") and has at most one version it made and  *)
(* has not published.  A program thread that nests acquires is several     *)
(* activities here.  The allocator is abstract: pool is the set of free    *)
(* version slots, alloc_slot takes one and free_slot returns one.          *)
(***************************************************************************)
EXTENDS Integers, FiniteSets

CONSTANTS
  Threads,    \* client activities
  Versions,   \* version slots, named by their handles
  Slots,      \* control blocks of the gate
  NULL,       \* HANDLE_NULL, and the NULL version pointer
  M           \* counters are unsigned and wrap at M (2^32 in the code)

ASSUME NullAssumption == NULL \notin Versions

(***************************************************************************)
(* Fewer activities than counter values: 2^32 in the code, where README    *)
(* caps the threads at 2^20 and forbids a thread to nest acquires.         *)
(***************************************************************************)
ASSUME CountAssumption ==
  /\ IsFiniteSet(Threads)
  /\ M \in Nat
  /\ Cardinality(Threads) < M

VARIABLES
  gate,     \* is there a gate ("open") or not ("none")
  cb,       \* control block of each slot
  inner,    \* inner_state of each version
  object,   \* user object of each version: "unset", "live" or "freed"
  pool,     \* free version slots
  held,     \* the version a thread has acquired, or NULL
  mine,     \* the version a thread has made and not published, or NULL
  pc,       \* where a thread is in the operation it is executing
  job,      \* the version a thread detaches, finalizes or frees, or NULL
  refs,     \* old_refs of a thread in detach_and_adjust
  cur,      \* cur of a thread in detach_and_adjust
  slot,     \* slot_idx of a thread in compare_exchange, or NULL
  val       \* current_val of a thread in compare_exchange

vars == <<gate, cb, inner, object, pool, held, mine, pc, job, refs, cur,
          slot, val>>

Counters == 0 .. M - 1
Handles  == Versions \cup {NULL}
Flags    == {"DETACHED", "FINALIZED"}

ControlBlocks == [refs : Counters, handle : Handles]
InnerStates   == [cnt : Counters, flags : SUBSET Flags]

PCs == {"idle", "cas", "load", "detach", "finalize", "callback", "free",
        "aborted"}

EmptyBlock == [refs |-> 0, handle |-> NULL]
FreshInner == [cnt |-> 0, flags |-> {}]

-----------------------------------------------------------------------------
(***************************************************************************)
(* What the atomic instructions compute on the two words.                  *)
(***************************************************************************)

\* Faulty variant of Inc: the counter is wider than its half of the word.
IncWithoutWrap(n) == n + 1

\* Unsigned arithmetic on a counter half.
Inc(n)    == (n + 1) % M
Sub(m, n) == (m - n) % M

\* fetch_add(REF_COUNT_INC) on a control block.
Acquired(w) == [w EXCEPT !.refs = Inc(@)]

\* The word exchange and compare_exchange install: the handle, no refs.
Installed(h) == [refs |-> 0, handle |-> h]

\* fetch_add(INNER_CNT_INC) on an inner state.
Released(s) == [s EXCEPT !.cnt = Inc(@)]

\* Faulty variant of Adjusted: the outer count is not subtracted.
AdjustedWithoutRefs(s, r) ==
  [cnt |-> s.cnt, flags |-> s.flags \cup {"DETACHED"}]

\* The word the CAS of detach_and_adjust installs.
Adjusted(s, r) == [cnt |-> Sub(s.cnt, r), flags |-> s.flags \cup {"DETACHED"}]

\* Faulty variants of Reclaimable: only one of the early returns.
ReclaimableUndetached(s) == s.cnt = 0
ReclaimableUncounted(s)  == "DETACHED" \in s.flags

\* The two early returns of try_finalize.
Reclaimable(s) == "DETACHED" \in s.flags /\ s.cnt = 0

-----------------------------------------------------------------------------
Init ==
  /\ gate   = "none"
  /\ cb     = [c \in Slots |-> EmptyBlock]
  /\ inner  = [v \in Versions |-> FreshInner]
  /\ object = [v \in Versions |-> "unset"]
  /\ pool   = Versions
  /\ held   = [t \in Threads |-> NULL]
  /\ mine   = [t \in Threads |-> NULL]
  /\ pc     = [t \in Threads |-> "idle"]
  /\ job    = [t \in Threads |-> NULL]
  /\ refs   = [t \in Threads |-> 0]
  /\ cur    = [t \in Threads |-> FreshInner]
  /\ slot   = [t \in Threads |-> NULL]
  /\ val    = [t \in Threads |-> EmptyBlock]

Goto(t, label) == pc' = [pc EXCEPT ![t] = label]

\* A thread calls the library between operations and while there is a gate.
MayCall(t) == gate = "open" /\ pc[t] = "idle"

(***************************************************************************)
(* try_finalize(ver, state): the caller goes on to claim FINALIZED only if *)
(* the state it produced is detached with a zero counter.                  *)
(***************************************************************************)
TryFinalize(t, v, s) ==
  /\ Goto(t, IF Reclaimable(s) THEN "finalize" ELSE "idle")
  /\ job' = [job EXCEPT ![t] = IF Reclaimable(s) THEN v ELSE NULL]

(***************************************************************************)
(* Faulty variant of SwappedOut: a version nobody acquired is not detached.*)
(***************************************************************************)
SwappedOutIfRead(t, old) ==
  LET skip == old.handle = NULL \/ old.refs = 0 IN
  /\ Goto(t, IF skip THEN "idle" ELSE "load")
  /\ job'  = [job EXCEPT ![t] = IF skip THEN NULL ELSE old.handle]
  /\ refs' = [refs EXCEPT ![t] = IF skip THEN 0 ELSE old.refs]

(***************************************************************************)
(* What exchange and compare_exchange do once they have swapped out the    *)
(* word old: detach_and_adjust(old_ver, old_refs), unless old was NULL.    *)
(***************************************************************************)
SwappedOut(t, old) ==
  /\ Goto(t, IF old.handle = NULL THEN "idle" ELSE "load")
  /\ job'  = [job EXCEPT ![t] = old.handle]
  /\ refs' = [refs EXCEPT ![t] = IF old.handle = NULL THEN 0 ELSE old.refs]

-----------------------------------------------------------------------------
(* atomsnap_init_gate: every control block starts with HANDLE_NULL.  The   *)
(* failing calls (no callback, no memory) change nothing.                  *)
InitGate ==
  /\ gate = "none"
  /\ gate' = "open"
  /\ cb'   = [c \in Slots |-> EmptyBlock]
  /\ UNCHANGED <<inner, object, pool, held, mine, pc, job, refs, cur, slot,
                 val>>

(* atomsnap_destroy_gate, called as README allows it: no version is in use *)
(* any more.  The gate holds none, no thread does and none is in a call.   *)
DestroyGate ==
  /\ gate = "open"
  /\ \A c \in Slots : cb[c].handle = NULL
  /\ \A t \in Threads : pc[t] = "idle" /\ held[t] = NULL /\ mine[t] = NULL
  /\ gate' = "none"
  /\ UNCHANGED <<cb, inner, object, pool, held, mine, pc, job, refs, cur,
                 slot, val>>

(* atomsnap_make_version: a slot from the allocator, initialised.          *)
MakeVersion(t, v) ==
  /\ MayCall(t)
  /\ mine[t] = NULL
  /\ v \in pool
  /\ pool'   = pool \ {v}
  /\ mine'   = [mine EXCEPT ![t] = v]
  /\ object' = [object EXCEPT ![v] = "unset"]
  /\ inner'  = [inner EXCEPT ![v] = FreshInner]
  /\ UNCHANGED <<gate, cb, held, pc, job, refs, cur, slot, val>>

(* atomsnap_set_object, on a version not yet published.                    *)
SetObject(t) ==
  /\ MayCall(t)
  /\ mine[t] # NULL
  /\ object' = [object EXCEPT ![mine[t]] = "live"]
  /\ UNCHANGED <<gate, cb, inner, pool, held, mine, pc, job, refs, cur, slot,
                 val>>

(* atomsnap_free_version, on a version that was never exchanged: the user  *)
(* callback, then free_slot.                                               *)
FreeVersion(t) ==
  /\ MayCall(t)
  /\ mine[t] # NULL
  /\ Goto(t, "callback")
  /\ job'  = [job EXCEPT ![t] = mine[t]]
  /\ mine' = [mine EXCEPT ![t] = NULL]
  /\ UNCHANGED <<gate, cb, inner, object, pool, held, refs, cur, slot, val>>

(* atomsnap_acquire_version_slot: one fetch_add that both counts the       *)
(* acquire and returns the handle it was counted for.                      *)
AcquireVersion(t, c) ==
  /\ MayCall(t)
  /\ held[t] = NULL
  /\ cb'   = [cb EXCEPT ![c] = Acquired(@)]
  /\ held' = [held EXCEPT ![t] = cb[c].handle]
  /\ UNCHANGED <<gate, inner, object, pool, mine, pc, job, refs, cur, slot,
                 val>>

(* Faulty variant of ReleaseVersion: leaves reclamation to the writer.     *)
ReleaseWithoutFinalize(t) ==
  /\ MayCall(t)
  /\ held[t] # NULL
  /\ inner' = [inner EXCEPT ![held[t]] = Released(@)]
  /\ held'  = [held EXCEPT ![t] = NULL]
  /\ UNCHANGED <<gate, cb, object, pool, mine, pc, job, refs, cur, slot, val>>

(* atomsnap_release_version: one fetch_add on the inner counter, then      *)
(* try_finalize on the value it produced.                                  *)
ReleaseVersion(t) ==
  /\ MayCall(t)
  /\ held[t] # NULL
  /\ inner' = [inner EXCEPT ![held[t]] = Released(@)]
  /\ held'  = [held EXCEPT ![t] = NULL]
  /\ TryFinalize(t, held[t], Released(inner[held[t]]))
  /\ UNCHANGED <<gate, cb, object, pool, mine, refs, cur, slot, val>>

(* atomsnap_exchange_version_slot, up to its atomic exchange.  The new     *)
(* version is the caller's unpublished one, or NULL.                       *)
ExchangeVersion(t, c) ==
  /\ MayCall(t)
  /\ cb'   = [cb EXCEPT ![c] = Installed(mine[t])]
  /\ mine' = [mine EXCEPT ![t] = NULL]
  /\ SwappedOut(t, cb[c])
  /\ UNCHANGED <<gate, inner, object, pool, held, cur, slot, val>>

(* atomsnap_compare_exchange_version_slot, up to its first load.  expected *)
(* is the version the caller holds, or NULL; a mismatch returns false.     *)
CompareExchange(t, c, expected) ==
  /\ MayCall(t)
  /\ expected \in {held[t], NULL}
  /\ cb[c].handle = expected
  /\ Goto(t, "cas")
  /\ slot' = [slot EXCEPT ![t] = c]
  /\ val'  = [val EXCEPT ![t] = cb[c]]
  /\ UNCHANGED <<gate, cb, inner, object, pool, held, mine, job, refs, cur>>

(* One turn of its CAS loop.  A word that still has the expected handle    *)
(* but another refcount is loaded and retried; another handle returns      *)
(* false.  The expected handle is the one in val.                          *)
CasSucceeds(t) ==
  /\ pc[t] = "cas"
  /\ cb[slot[t]] = val[t]
  /\ cb'   = [cb EXCEPT ![slot[t]] = Installed(mine[t])]
  /\ mine' = [mine EXCEPT ![t] = NULL]
  /\ SwappedOut(t, val[t])
  /\ slot' = [slot EXCEPT ![t] = NULL]
  /\ val'  = [val EXCEPT ![t] = EmptyBlock]
  /\ UNCHANGED <<gate, inner, object, pool, held, cur>>

(* Faulty variant of CasRetries: the failed CAS does not refresh the word. *)
CasRetriesStale(t) ==
  /\ pc[t] = "cas"
  /\ cb[slot[t]] # val[t]
  /\ cb[slot[t]].handle = val[t].handle
  /\ UNCHANGED vars

CasRetries(t) ==
  /\ pc[t] = "cas"
  /\ cb[slot[t]] # val[t]
  /\ cb[slot[t]].handle = val[t].handle
  /\ val' = [val EXCEPT ![t] = cb[slot[t]]]
  /\ UNCHANGED <<gate, cb, inner, object, pool, held, mine, pc, job, refs,
                 cur, slot>>

CasFails(t) ==
  /\ pc[t] = "cas"
  /\ cb[slot[t]].handle # val[t].handle
  /\ Goto(t, "idle")
  /\ slot' = [slot EXCEPT ![t] = NULL]
  /\ val'  = [val EXCEPT ![t] = EmptyBlock]
  /\ UNCHANGED <<gate, cb, inner, object, pool, held, mine, job, refs, cur>>

(* detach_and_adjust: the load, then the CAS loop that sets DETACHED and   *)
(* subtracts the outer count in one step, then try_finalize.               *)
DetachLoads(t) ==
  /\ pc[t] = "load"
  /\ cur' = [cur EXCEPT ![t] = inner[job[t]]]
  /\ Goto(t, "detach")
  /\ UNCHANGED <<gate, cb, inner, object, pool, held, mine, job, refs, slot,
                 val>>

(* Faulty variant of DetachRetries: likewise.                              *)
DetachRetriesStale(t) ==
  /\ pc[t] = "detach"
  /\ inner[job[t]] # cur[t]
  /\ UNCHANGED vars

DetachRetries(t) ==
  /\ pc[t] = "detach"
  /\ inner[job[t]] # cur[t]
  /\ cur' = [cur EXCEPT ![t] = inner[job[t]]]
  /\ UNCHANGED <<gate, cb, inner, object, pool, held, mine, pc, job, refs,
                 slot, val>>

(* Faulty variant of DetachSucceeds: leaves reclamation to the readers.    *)
DetachWithoutFinalize(t) ==
  /\ pc[t] = "detach"
  /\ inner[job[t]] = cur[t]
  /\ inner' = [inner EXCEPT ![job[t]] = Adjusted(cur[t], refs[t])]
  /\ refs'  = [refs EXCEPT ![t] = 0]
  /\ cur'   = [cur EXCEPT ![t] = FreshInner]
  /\ job'   = [job EXCEPT ![t] = NULL]
  /\ Goto(t, "idle")
  /\ UNCHANGED <<gate, cb, object, pool, held, mine, slot, val>>

DetachSucceeds(t) ==
  /\ pc[t] = "detach"
  /\ inner[job[t]] = cur[t]
  /\ inner' = [inner EXCEPT ![job[t]] = Adjusted(cur[t], refs[t])]
  /\ refs'  = [refs EXCEPT ![t] = 0]
  /\ cur'   = [cur EXCEPT ![t] = FreshInner]
  /\ TryFinalize(t, job[t], Adjusted(cur[t], refs[t]))
  /\ UNCHANGED <<gate, cb, object, pool, held, mine, slot, val>>

(* try_finalize past its early returns: claim FINALIZED, abort if it was   *)
(* already claimed.                                                        *)
Finalize(t) ==
  /\ pc[t] = "finalize"
  /\ inner' = [inner EXCEPT ![job[t]].flags = @ \cup {"FINALIZED"}]
  /\ Goto(t, IF "FINALIZED" \in inner[job[t]].flags THEN "aborted"
                                                   ELSE "callback")
  /\ UNCHANGED <<gate, cb, object, pool, held, mine, job, refs, cur, slot,
                 val>>

(* finalize_and_free: the user callback frees the object ...               *)
Callback(t) ==
  /\ pc[t] = "callback"
  /\ object' = [object EXCEPT ![job[t]] = "freed"]
  /\ Goto(t, "free")
  /\ UNCHANGED <<gate, cb, inner, pool, held, mine, job, refs, cur, slot, val>>

(* ... and free_slot gives the version slot back.                          *)
FreeSlot(t) ==
  /\ pc[t] = "free"
  /\ pool' = pool \cup {job[t]}
  /\ job'  = [job EXCEPT ![t] = NULL]
  /\ Goto(t, "idle")
  /\ UNCHANGED <<gate, cb, inner, object, held, mine, refs, cur, slot, val>>

-----------------------------------------------------------------------------
\* The steps by which a call already begun goes on.
Step(t) ==
  \/ CasSucceeds(t) \/ CasRetries(t) \/ CasFails(t)
  \/ DetachLoads(t) \/ DetachRetries(t) \/ DetachSucceeds(t)
  \/ Finalize(t) \/ Callback(t) \/ FreeSlot(t)

\* The steps by which a thread begins a call.
Call(t) ==
  \/ \E v \in Versions : MakeVersion(t, v)
  \/ SetObject(t) \/ FreeVersion(t) \/ ReleaseVersion(t)
  \/ \E c \in Slots : AcquireVersion(t, c) \/ ExchangeVersion(t, c)
  \/ \E c \in Slots, expected \in Handles : CompareExchange(t, c, expected)

Next == InitGate \/ DestroyGate \/ \E t \in Threads : Call(t) \/ Step(t)

Spec == Init /\ [][Next]_vars

(***************************************************************************)
(* Fairness: the operating system keeps scheduling a thread that is inside *)
(* a call (weak), and a client that holds a version does not go on calling *)
(* other operations forever without releasing it (strong; README, "Acquire-*)
(* Release Pairing").  Nothing else is promised.                           *)
(***************************************************************************)
Fairness == \A t \in Threads : WF_vars(Step(t)) /\ SF_vars(ReleaseVersion(t))

FairSpec == Spec /\ Fairness

-----------------------------------------------------------------------------
TypeOK ==
  /\ gate   \in {"none", "open"}
  /\ cb     \in [Slots -> ControlBlocks]
  /\ inner  \in [Versions -> InnerStates]
  /\ object \in [Versions -> {"unset", "live", "freed"}]
  /\ pool   \in SUBSET Versions
  /\ held   \in [Threads -> Handles]
  /\ mine   \in [Threads -> Handles]
  /\ pc     \in [Threads -> PCs]
  /\ job    \in [Threads -> Handles]
  /\ refs   \in [Threads -> Counters]
  /\ cur    \in [Threads -> InnerStates]
  /\ slot   \in [Threads -> Slots \cup {NULL}]
  /\ val    \in [Threads -> ControlBlocks]

\* Threads that have acquired v and not released it.
Holders(v) == {t \in Threads : held[t] = v}

\* Some thread made v and has not published it.
Private(v) == \E t \in Threads : mine[t] = v

\* v is the version of some control block.
Current(v) == \E c \in Slots : cb[c].handle = v

\* Some thread is detaching, finalizing or freeing v.
Busy(v) == \E t \in Threads : job[t] = v

(* A version that was replaced and whose reclamation nobody has begun:     *)
(* its readers are the ones that must finish the job.                      *)
Retired(v) == v \notin pool /\ ~Private(v) /\ ~Current(v)
              /\ \A t \in Threads :
                   job[t] = v => pc[t] \in {"load", "detach", "finalize"}

(***************************************************************************)
(* No premature reclamation.  A version that some thread has acquired and  *)
(* not released is not free, its callback has not run, and no thread has   *)
(* begun to reclaim it: release and detach_and_adjust finalize a version   *)
(* only when the last of its readers is gone, whatever the counters'       *)
(* wrap-around.                                                            *)
(***************************************************************************)
HeldIsIntact ==
  \A t \in Threads : held[t] # NULL =>
    /\ held[t] \notin pool
    /\ object[held[t]] # "freed"
    /\ "FINALIZED" \notin inner[held[t]].flags
    /\ \A u \in Threads : job[u] = held[t] => pc[u] \in {"load", "detach"}

(***************************************************************************)
(* "Double finalize detected" is unreachable: of the threads that race to  *)
(* release and to detach a version, exactly one sees the detached zero.    *)
(***************************************************************************)
NoDoubleFinalize == \A t \in Threads : pc[t] # "aborted"

(***************************************************************************)
(* No leak.  A version that is not free, not unpublished, not current and  *)
(* not being detached or reclaimed by some thread is still held, so that a *)
(* release is still to come that will reclaim it.                          *)
(***************************************************************************)
NoOrphan ==
  \A v \in Versions :
    v \in pool \/ Private(v) \/ Current(v) \/ Busy(v) \/ Holders(v) # {}

(***************************************************************************)
(* A gate that was destroyed as README allows leaves nothing behind: every *)
(* version made for it has been finalized and is back in the allocator.    *)
(***************************************************************************)
DestroyedGateLeaksNothing == gate = "none" => pool = Versions

(***************************************************************************)
(* exchange always returns, however many readers release the old version   *)
(* under it: each of them can fail the CAS of detach_and_adjust only once, *)
(* and no new one can come.                                                *)
(***************************************************************************)
ExchangeReturns ==
  \A t \in Threads : pc[t] \in {"load", "detach"} ~> pc[t] = "idle"

(***************************************************************************)
(* Every compare_exchange returns.                                         *)
(***************************************************************************)
CompareExchangeReturns == \A t \in Threads : []<>(pc[t] # "cas")

(***************************************************************************)
(* Lock freedom: a compare_exchange that loops forever loops because other *)
(* threads change its control block again and again.                       *)
(***************************************************************************)
CasLoopsOnlyUnderTraffic ==
  \A t \in Threads : <>[](pc[t] = "cas") => []<><<cb' # cb>>_vars

(***************************************************************************)
(* Every version that is replaced is eventually recycled, provided its     *)
(* readers release it and none of them is stuck in compare_exchange.       *)
(***************************************************************************)
RetiredIsRecycled ==
  CompareExchangeReturns => \A v \in Versions : Retired(v) ~> v \in pool

-----------------------------------------------------------------------------
(***************************************************************************)
(* The inductive invariant.  Each version is in one place, each place says *)
(* what the flags are, and while a version can still be released the two   *)
(* counters differ, modulo M, by exactly the number of its holders.        *)
(***************************************************************************)
NumHolders(v) == Cardinality(Holders(v))

\* v was detached and waits for its last holder.
Waiting(v) ==
  /\ v \notin pool
  /\ \A t \in Threads : mine[t] # v /\ job[t] # v
  /\ \A c \in Slots : cb[c].handle # v

OneHome ==
  /\ \A t, u \in Threads : mine[t] # NULL /\ mine[t] = mine[u] => t = u
  /\ \A t, u \in Threads : job[t] # NULL /\ job[t] = job[u] => t = u
  /\ \A c, d \in Slots :
       cb[c].handle # NULL /\ cb[c].handle = cb[d].handle => c = d
  /\ \A t \in Threads :
       mine[t] \notin pool /\ job[t] \notin pool /\ held[t] \notin pool
  /\ \A c \in Slots : cb[c].handle \notin pool
  /\ \A t, u \in Threads :
       mine[t] # NULL => mine[t] # job[u] /\ mine[t] # held[u]
  /\ \A t \in Threads, c \in Slots :
       /\ mine[t] # NULL => mine[t] # cb[c].handle
       /\ job[t] # NULL => job[t] # cb[c].handle

CallState ==
  /\ \A t \in Threads :
       /\ pc[t] # "aborted"
       /\ job[t] = NULL <=> pc[t] \in {"idle", "cas"}
       /\ pc[t] = "cas" => slot[t] \in Slots
  /\ gate = "none" =>
       /\ \A t \in Threads : pc[t] = "idle" /\ held[t] = NULL /\ mine[t] = NULL
       /\ \A c \in Slots : cb[c].handle = NULL

PrivateIsFresh ==
  \A t \in Threads : mine[t] # NULL => inner[mine[t]] = FreshInner

CurrentCount ==
  \A c \in Slots, v \in Versions : cb[c].handle = v =>
    /\ inner[v].flags = {}
    /\ NumHolders(v) = Sub(cb[c].refs, inner[v].cnt)

DetachingCount ==
  \A t \in Threads, v \in Versions : job[t] = v /\ pc[t] \in {"load", "detach"} =>
    /\ inner[v].flags = {}
    /\ NumHolders(v) = Sub(refs[t], inner[v].cnt)

WaitingCount ==
  \A v \in Versions : Waiting(v) =>
    /\ inner[v].flags = {"DETACHED"}
    /\ NumHolders(v) = Sub(0, inner[v].cnt)
    /\ NumHolders(v) # 0

ReclaimingIsUnheld ==
  \A t \in Threads, v \in Versions : job[t] = v =>
    /\ pc[t] \in {"finalize", "callback", "free"} => NumHolders(v) = 0
    /\ pc[t] = "finalize" => inner[v].flags = {"DETACHED"}

FreedIsGone ==
  \A v \in Versions : object[v] = "freed" =>
    v \in pool \/ \E t \in Threads : job[t] = v /\ pc[t] = "free"

(***************************************************************************)
(* The counts of a version and the threads that hold it always agree, in   *)
(* every place a version can be, across wrap-around of both counters.      *)
(***************************************************************************)
IInv ==
  /\ TypeOK
  /\ OneHome
  /\ CallState
  /\ PrivateIsFresh
  /\ CurrentCount
  /\ DetachingCount
  /\ WaitingCount
  /\ ReclaimingIsUnheld
  /\ FreedIsGone
=============================================================================
