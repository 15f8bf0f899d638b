---------------------------- MODULE UrcuBackend -----------------------------
(***************************************************************************)
(* The liburcu side of benchmark 2 (microbench/bench2/bench_all.cpp), with *)
(* which atomsnap is compared: writers replace the object of a shard and   *)
(* retire the old one, by call_rcu or in batches after synchronize_rcu;    *)
(* readers check the object they see; main stops everything and gives the  *)
(* memory back.  liburcu itself is external: a grace period ends when the  *)
(* readers inside a critical section at its start have left it.            *)
(***************************************************************************)
EXTENDS Integers, FiniteSets

CONSTANTS
  NW, NR, NS,   \* writers, readers and shards
  SyncBatch,    \* sync_batch of the configuration
  Reclaims,     \* the values of reclaim to consider
  Blocks,       \* bound: the memory of the pool
  MaxSeq,       \* bound: updates of each writer
  NULL

UrcuAssumption ==
  /\ {NW, NR, NS, SyncBatch, MaxSeq} \subseteq Nat \ {0}
  /\ Reclaims \subseteq {"async", "sync-batch"}
  /\ NULL \notin Blocks
  /\ IsFiniteSet(Blocks) /\ Cardinality(Blocks) >= NS

WriterIds == 0 .. NW - 1
ReaderIds == 0 .. NR - 1
Shards  == 0 .. NS - 1

VARIABLES
  reclaim,    \* cfg.reclaim
  running,
  gptrs,      \* the object of each shard, or NULL
  v1, v2,     \* the two fields of each object; v1 is NULL for a pointer there
  pool,       \* blocks in the pool's hands
  pending,    \* what has been passed to call_rcu and not come back
  wpc, seq, shard, new, old,
  retire,     \* the retire list of each writer
  leaving,    \* is a writer past its loop
  rpc, ptr, val,
  mpc,        \* main: "join", "stop", "done"
  grace,      \* readers a writer's synchronize_rcu still waits for
  queued,     \* blocks passed to call_rcu
  wait,       \* readers the callback of a queued block still waits for
  calling     \* the block of the callback that is running, or NULL

writerVars == <<wpc, seq, shard, new, old, retire, leaving>>
readerVars == <<rpc, ptr, val>>
rcuVars    == <<grace, queued, wait, calling>>
vars == <<reclaim, running, gptrs, v1, v2, pool, pending, writerVars,
          readerVars, mpc, rcuVars>>

\* What init() leaves to the threads: one object in each shard.
Init ==
  /\ reclaim \in Reclaims
  /\ running = TRUE
  /\ gptrs \in [Shards -> Blocks]
  /\ \A r, s \in Shards : gptrs[r] = gptrs[s] => r = s
  /\ pool    = Blocks \ {gptrs[s] : s \in Shards}
  /\ v1      = [b \in Blocks |-> 0]
  /\ v2      = [b \in Blocks |-> 0]
  /\ pending = 0
  /\ wpc     = [w \in WriterIds |-> "loop"]
  /\ seq     = [w \in WriterIds |-> 0]
  /\ shard   = [w \in WriterIds |-> w % NS]
  /\ new     = [w \in WriterIds |-> NULL]
  /\ old     = [w \in WriterIds |-> NULL]
  /\ retire  = [w \in WriterIds |-> {}]
  /\ leaving = [w \in WriterIds |-> FALSE]
  /\ rpc     = [r \in ReaderIds |-> "loop"]
  /\ ptr     = [r \in ReaderIds |-> NULL]
  /\ val     = [r \in ReaderIds |-> 0]
  /\ mpc     = "join"
  /\ grace   = [w \in WriterIds |-> {}]
  /\ queued  = {}
  /\ wait    = [b \in Blocks |-> {}]
  /\ calling = NULL

WriterAt(w, from, to) == wpc[w] = from /\ wpc' = [wpc EXCEPT ![w] = to]
ReaderAt(r, from, to) == rpc[r] = from /\ rpc' = [rpc EXCEPT ![r] = to]

\* pool->free: the pool's link, null or a pointer, is written over the first
\* word of the block, v1.
FreeBlock(b) ==
  /\ pool' = pool \cup {b}
  /\ \E next \in {0, NULL} : v1' = [v1 EXCEPT ![b] = next]

\* Readers between rcu_read_lock and rcu_read_unlock.
Reading == {r \in ReaderIds : rpc[r] \in {"deref", "v1", "v2", "unlock"}}

\* shard++, back to 0 at the end.
NextShard(w) == shard' = [shard EXCEPT ![w] = (@ + 1) % NS]

-----------------------------------------------------------------------------
(* writer_loop                                                             *)
WriterAllocs(w) ==
  /\ running /\ seq[w] < MaxSeq
  /\ WriterAt(w, "loop", "v1")
  /\ \E b \in pool : new' = [new EXCEPT ![w] = b] /\ pool' = pool \ {b}
  /\ seq' = [seq EXCEPT ![w] = @ + 1]
  /\ UNCHANGED <<reclaim, running, gptrs, v1, v2, pending, shard, old, retire,
                 leaving, readerVars, mpc, rcuVars>>

WriterSetsV1(w) ==
  /\ WriterAt(w, "v1", "v2")
  /\ v1' = [v1 EXCEPT ![new[w]] = seq[w]]
  /\ UNCHANGED <<reclaim, running, gptrs, v2, pool, pending, seq, shard, new,
                 old, retire, leaving, readerVars, mpc, rcuVars>>

WriterSetsV2(w) ==
  /\ WriterAt(w, "v2", "publish")
  /\ v2' = [v2 EXCEPT ![new[w]] = seq[w]]
  /\ UNCHANGED <<reclaim, running, gptrs, v1, pool, pending, seq, shard, new,
                 old, retire, leaving, readerVars, mpc, rcuVars>>

\* uatomic_xchg on the shard, and what becomes of the old object, which is
\* never NULL: only stop() clears a shard, when the writers are gone.
WriterPublishes(w) ==
  /\ WriterAt(w, "publish", IF reclaim = "async" THEN "count" ELSE "retire")
  /\ old'   = [old EXCEPT ![w] = gptrs[shard[w]]]
  /\ gptrs' = [gptrs EXCEPT ![shard[w]] = new[w]]
  /\ new'   = [new EXCEPT ![w] = NULL]
  /\ UNCHANGED <<reclaim, running, v1, v2, pool, pending, seq, shard, retire,
                 leaving, readerVars, mpc, rcuVars>>

\* Faulty variant of WriterCounts: the callback is not counted.
WriterDoesNotCount(w) ==
  /\ WriterAt(w, "count", "call")
  /\ UNCHANGED <<reclaim, running, gptrs, v1, v2, pool, pending, seq, shard, new,
                 old, retire, leaving, readerVars, mpc, rcuVars>>

WriterCounts(w) ==
  /\ WriterAt(w, "count", "call")
  /\ pending' = pending + 1
  /\ UNCHANGED <<reclaim, running, gptrs, v1, v2, pool, seq, shard, new, old,
                 retire, leaving, readerVars, mpc, rcuVars>>

\* Faulty variant of WriterCallsRcu: the old object is freed at once.
WriterFreesAtOnce(w) ==
  /\ WriterAt(w, "call", "loop")
  /\ FreeBlock(old[w])
  /\ old'  = [old EXCEPT ![w] = NULL]
  /\ NextShard(w)
  /\ UNCHANGED <<reclaim, running, gptrs, v2, pending, seq, new, retire,
                 leaving, readerVars, mpc, rcuVars>>

WriterCallsRcu(w) ==
  /\ WriterAt(w, "call", "loop")
  /\ queued' = queued \cup {old[w]}
  /\ wait'   = [wait EXCEPT ![old[w]] = Reading]
  /\ old'    = [old EXCEPT ![w] = NULL]
  /\ NextShard(w)
  /\ UNCHANGED <<reclaim, running, gptrs, v1, v2, pool, pending, seq, new, retire,
                 leaving, readerVars, mpc, grace, calling>>

\* rl.v.push_back, and the test for a full batch.
WriterRetires(w) ==
  /\ LET full == Cardinality(retire[w]) + 1 >= SyncBatch
     IN  /\ WriterAt(w, "retire", IF full THEN "sync" ELSE "loop")
         /\ IF full THEN UNCHANGED shard ELSE NextShard(w)
  /\ retire' = [retire EXCEPT ![w] = @ \cup {old[w]}]
  /\ old'    = [old EXCEPT ![w] = NULL]
  /\ UNCHANGED <<reclaim, running, gptrs, v1, v2, pool, pending, seq, new,
                 leaving, readerVars, mpc, rcuVars>>

WriterSyncs(w) ==
  /\ WriterAt(w, "sync", "grace")
  /\ grace' = [grace EXCEPT ![w] = Reading]
  /\ UNCHANGED <<reclaim, running, gptrs, v1, v2, pool, pending, seq, shard, new,
                 old, retire, leaving, readerVars, mpc, queued, wait, calling>>

\* Faulty variant of WriterSynced: the grace period is not waited for.
WriterSyncedAtOnce(w) ==
  /\ WriterAt(w, "grace", "free")
  /\ UNCHANGED <<reclaim, running, gptrs, v1, v2, pool, pending, seq, shard, new,
                 old, retire, leaving, readerVars, mpc, rcuVars>>

WriterSynced(w) ==
  /\ grace[w] = {}
  /\ WriterAt(w, "grace", "free")
  /\ UNCHANGED <<reclaim, running, gptrs, v1, v2, pool, pending, seq, shard, new,
                 old, retire, leaving, readerVars, mpc, rcuVars>>

\* pool->free for one block of the batch; after the last one the loop goes on,
\* or the thread ends.
WriterFrees(w) ==
  /\ \E b \in retire[w] :
       /\ FreeBlock(b)
       /\ retire' = [retire EXCEPT ![w] = @ \ {b}]
  /\ LET last == retire'[w] = {}
     IN  /\ WriterAt(w, "free", IF ~last THEN "free"
                                ELSE IF leaving[w] THEN "done" ELSE "loop")
         /\ IF last /\ ~leaving[w] THEN NextShard(w) ELSE UNCHANGED shard
  /\ UNCHANGED <<reclaim, running, gptrs, v2, pending, seq, new, old, leaving,
                 readerVars, mpc, rcuVars>>

WriterLeaves(w) ==
  /\ ~running
  /\ WriterAt(w, "loop", IF reclaim = "sync-batch" /\ retire[w] # {}
                         THEN "sync" ELSE "done")
  /\ leaving' = [leaving EXCEPT ![w] = TRUE]
  /\ UNCHANGED <<reclaim, running, gptrs, v1, v2, pool, pending, seq, shard, new,
                 old, retire, readerVars, mpc, rcuVars>>

-----------------------------------------------------------------------------
(* reader_loop: the critical section is from the lock to the unlock.       *)
ReaderLocks(r) ==
  /\ running
  /\ ReaderAt(r, "loop", "deref")
  /\ UNCHANGED <<reclaim, running, gptrs, v1, v2, pool, pending, writerVars, ptr,
                 val, mpc, rcuVars>>

\* The pointer is never NULL here, as for the writers.
ReaderDereferences(r) ==
  /\ ReaderAt(r, "deref", "v1")
  /\ ptr' = [ptr EXCEPT ![r] = gptrs[r % NS]]
  /\ UNCHANGED <<reclaim, running, gptrs, v1, v2, pool, pending, writerVars, val,
                 mpc, rcuVars>>

ReaderReadsV1(r) ==
  /\ ReaderAt(r, "v1", "v2")
  /\ val' = [val EXCEPT ![r] = v1[ptr[r]]]
  /\ UNCHANGED <<reclaim, running, gptrs, v1, v2, pool, pending, writerVars, ptr,
                 mpc, rcuVars>>

\* Faulty variant of ReaderChecks: the section is not left.
ReaderChecksWithoutUnlock(r) ==
  /\ ReaderAt(r, "v2", IF val[r] = v2[ptr[r]] THEN "loop" ELSE "aborted")
  /\ val' = [val EXCEPT ![r] = 0]
  /\ UNCHANGED <<reclaim, running, gptrs, v1, v2, pool, pending, writerVars, ptr,
                 mpc, rcuVars>>

\* The comparison with v2; the payload is read until the unlock.
ReaderChecks(r) ==
  /\ ReaderAt(r, "v2", IF val[r] = v2[ptr[r]] THEN "unlock" ELSE "aborted")
  /\ val' = [val EXCEPT ![r] = 0]
  /\ UNCHANGED <<reclaim, running, gptrs, v1, v2, pool, pending, writerVars, ptr,
                 mpc, rcuVars>>

ReaderUnlocks(r) ==
  /\ ReaderAt(r, "unlock", "loop")
  /\ ptr'   = [ptr EXCEPT ![r] = NULL]
  /\ grace' = [w \in WriterIds |-> grace[w] \ {r}]
  /\ wait'  = [b \in Blocks |-> wait[b] \ {r}]
  /\ UNCHANGED <<reclaim, running, gptrs, v1, v2, pool, pending, writerVars, val,
                 mpc, queued, calling>>

ReaderLeaves(r) ==
  /\ ~running
  /\ ReaderAt(r, "loop", "done")
  /\ UNCHANGED <<reclaim, running, gptrs, v1, v2, pool, pending, writerVars, ptr,
                 val, mpc, rcuVars>>

-----------------------------------------------------------------------------
(* urcu_free_cb, run by liburcu's thread after the grace period.           *)
CallbackCounts ==
  /\ calling = NULL
  /\ \E b \in queued :
       /\ wait[b] = {}
       /\ queued'  = queued \ {b}
       /\ calling' = b
  /\ pending' = pending - 1
  /\ UNCHANGED <<reclaim, running, gptrs, v1, v2, pool, writerVars, readerVars,
                 mpc, grace, wait>>

CallbackFrees ==
  /\ calling # NULL
  /\ FreeBlock(calling)
  /\ calling' = NULL
  /\ UNCHANGED <<reclaim, running, gptrs, v2, pending, writerVars,
                 readerVars, mpc, grace, queued, wait>>

-----------------------------------------------------------------------------
(* main: the timer thread, the joins, and stop().                          *)
TimeIsUp ==
  /\ running
  /\ running' = FALSE
  /\ UNCHANGED <<reclaim, gptrs, v1, v2, pool, pending, writerVars, readerVars,
                 mpc, rcuVars>>

AllJoined ==
  /\ \A w \in WriterIds : wpc[w] = "done"
  /\ \A r \in ReaderIds : rpc[r] = "done"

\* Faulty variant of Barrier: stop() does not wait for the callbacks.
JoinWithoutBarrier ==
  /\ mpc = "join"
  /\ AllJoined
  /\ mpc' = "stop"
  /\ UNCHANGED <<reclaim, running, gptrs, v1, v2, pool, pending, writerVars,
                 readerVars, rcuVars>>

\* rcu_barrier returns when every callback queued before it has run.
Barrier ==
  /\ mpc = "join"
  /\ AllJoined
  /\ queued = {} /\ calling = NULL
  /\ mpc' = "stop"
  /\ UNCHANGED <<reclaim, running, gptrs, v1, v2, pool, pending, writerVars,
                 readerVars, rcuVars>>

StopFrees(s) ==
  /\ mpc = "stop"
  /\ gptrs[s] # NULL
  /\ \A r \in Shards : r < s => gptrs[r] = NULL
  /\ FreeBlock(gptrs[s])
  /\ gptrs' = [gptrs EXCEPT ![s] = NULL]
  /\ UNCHANGED <<reclaim, running, v2, pending, writerVars, readerVars, mpc,
                 rcuVars>>

DeletePool ==
  /\ mpc = "stop"
  /\ \A s \in Shards : gptrs[s] = NULL
  /\ mpc' = "done"
  /\ UNCHANGED <<reclaim, running, gptrs, v1, v2, pool, pending, writerVars,
                 readerVars, rcuVars>>

-----------------------------------------------------------------------------
WriterStep(w) ==
  \/ WriterAllocs(w) \/ WriterSetsV1(w) \/ WriterSetsV2(w)
  \/ WriterPublishes(w) \/ WriterCounts(w) \/ WriterCallsRcu(w)
  \/ WriterRetires(w) \/ WriterSyncs(w) \/ WriterSynced(w)
  \/ WriterFrees(w) \/ WriterLeaves(w)

ReaderStep(r) ==
  \/ ReaderLocks(r) \/ ReaderDereferences(r) \/ ReaderReadsV1(r)
  \/ ReaderChecks(r) \/ ReaderUnlocks(r) \/ ReaderLeaves(r)

RcuStep == CallbackCounts \/ CallbackFrees

MainStep == Barrier \/ (\E s \in Shards : StopFrees(s)) \/ DeletePool

Next ==
  \/ \E w \in WriterIds : WriterStep(w)
  \/ \E r \in ReaderIds : ReaderStep(r)
  \/ RcuStep \/ TimeIsUp \/ MainStep

Spec == Init /\ [][Next]_vars

\* The backend is stopped.
Ended == mpc = "done"

-----------------------------------------------------------------------------
(***************************************************************************)
(* No reader aborts with "URCU mismatch": the two fields of the object it  *)
(* sees are equal although their block was another object before.          *)
(***************************************************************************)
NoMismatch == \A r \in ReaderIds : rpc[r] # "aborted"

(***************************************************************************)
(* The object a reader has dereferenced is not given back to the pool, by  *)
(* a callback, a batch or stop(), before the reader has unlocked.          *)
(***************************************************************************)
DereferencedIsLive == \A r \in ReaderIds : ptr[r] \notin pool

(***************************************************************************)
(* pending is at all times the number of objects counted and not yet       *)
(* handed back; being unsigned, it would be huge for a while if a callback *)
(* could run before its object is counted.                                 *)
(***************************************************************************)
PendingIsExact ==
  pending = Cardinality(queued) + Cardinality({w \in WriterIds : wpc[w] = "call"})

(***************************************************************************)
(* When the pool is deleted all blocks are back in it, and no callback is  *)
(* left that would use it: none in the queue, none in a writer's batch.    *)
(***************************************************************************)
StopFreesEverything == Ended => pool = Blocks /\ calling = NULL

-----------------------------------------------------------------------------
(***************************************************************************)
(* The inductive invariant.                                                *)
(***************************************************************************)
TypeOK ==
  /\ reclaim \in {"async", "sync-batch"}
  /\ running \in BOOLEAN
  /\ gptrs   \in [Shards -> Blocks \cup {NULL}]
  /\ v1      \in [Blocks -> Nat \cup {NULL}]
  /\ v2      \in [Blocks -> Nat]
  /\ pool    \in SUBSET Blocks
  /\ wpc     \in [WriterIds -> {"loop", "v1", "v2", "publish", "count", "call",
                              "retire", "sync", "grace", "free", "done"}]
  /\ seq     \in [WriterIds -> Nat]
  /\ shard   \in [WriterIds -> Shards]
  /\ new     \in [WriterIds -> Blocks \cup {NULL}]
  /\ old     \in [WriterIds -> Blocks \cup {NULL}]
  /\ retire  \in [WriterIds -> SUBSET Blocks]
  /\ rpc     \in [ReaderIds -> {"loop", "deref", "v1", "v2", "unlock", "done"}]
  /\ ptr     \in [ReaderIds -> Blocks \cup {NULL}]
  /\ val     \in [ReaderIds -> Nat \cup {NULL}]
  /\ mpc     \in {"join", "stop", "done"}
  /\ grace   \in [WriterIds -> SUBSET ReaderIds]
  /\ queued  \in SUBSET Blocks
  /\ wait    \in [Blocks -> SUBSET ReaderIds]
  /\ calling \in Blocks \cup {NULL}

\* What the threads and main have in hand where they are.
ControlInv ==
  /\ \A w \in WriterIds :
       /\ new[w] # NULL <=> wpc[w] \in {"v1", "v2", "publish"}
       /\ old[w] # NULL <=> wpc[w] \in {"count", "call", "retire"}
       /\ wpc[w] = "retire" \/ retire[w] # {} => reclaim = "sync-batch"
       /\ wpc[w] = "done" => retire[w] = {}
  /\ \A r \in ReaderIds : ptr[r] # NULL <=> rpc[r] \in {"v1", "v2", "unlock"}
  /\ IF mpc = "join" THEN \A s \in Shards : gptrs[s] # NULL
     ELSE AllJoined /\ queued = {} /\ calling = NULL
  /\ mpc = "done" => \A s \in Shards : gptrs[s] = NULL

(***************************************************************************)
(* Every block is in one place: kind says of which sort it is, and at for  *)
(* which shard or writer.                                                  *)
(***************************************************************************)
Kinds == {"pool", "queue", "callback", "shard", "new", "old", "retire"}

PlacedBy(kind, at) ==
  \A b \in Blocks :
    /\ b \in pool   <=> kind[b] = "pool"
    /\ b \in queued <=> kind[b] = "queue"
    /\ b = calling  <=> kind[b] = "callback"
    /\ kind[b] = "shard" => at[b] \in Shards
    /\ kind[b] \in {"new", "old", "retire"} => at[b] \in WriterIds
    /\ \A s \in Shards : b = gptrs[s] <=> kind[b] = "shard" /\ at[b] = s
    /\ \A w \in WriterIds :
         /\ b = new[w]      <=> kind[b] = "new" /\ at[b] = w
         /\ b = old[w]      <=> kind[b] = "old" /\ at[b] = w
         /\ b \in retire[w] <=> kind[b] = "retire" /\ at[b] = w

OnePlace ==
  \E kind \in [Blocks -> Kinds], at \in [Blocks -> Shards \cup WriterIds] :
    PlacedBy(kind, at)

\* What a reader has dereferenced is kept by a grace period it is part of.
ReaderInv ==
  \A r \in ReaderIds : ptr[r] # NULL =>
    /\ ptr[r] \notin pool /\ ptr[r] # calling
    /\ ptr[r] \in queued => r \in wait[ptr[r]]
    /\ \A w \in WriterIds :
         /\ ptr[r] # new[w]
         /\ ptr[r] \in retire[w] =>
              wpc[w] # "free" /\ (wpc[w] = "grace" => r \in grace[w])

\* Objects that are not being written have two equal fields.
ValueInv ==
  /\ \A b \in Blocks :
       b \notin pool /\ (\A w \in WriterIds : b # new[w]) => v1[b] = v2[b]
  /\ \A w \in WriterIds :
       /\ wpc[w] = "v2" => v1[new[w]] = seq[w]
       /\ wpc[w] = "publish" => v1[new[w]] = v2[new[w]]
  /\ \A r \in ReaderIds : rpc[r] = "v2" => val[r] = v1[ptr[r]]

UrcuInv ==
  TypeOK /\ ControlInv /\ OnePlace /\ ReaderInv /\ ValueInv /\ PendingIsExact
=============================================================================
