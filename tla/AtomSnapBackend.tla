-------------------------- MODULE AtomSnapBackend ---------------------------
(***************************************************************************)
(* The atomsnap side of benchmark 2 (microbench/bench2/bench_all.cpp) on   *)
(* top of the protocol of Gate: objects from a pool of blocks, published   *)
(* by exchange on one shard after the other and given back to the pool by  *)
(* the callback of the gate; readers that check them; main, which stops    *)
(* the threads and the backend.                                            *)
(*                                                                         *)
(* A shard is a gate of one control block in the code.  The gates have the *)
(* same callback and nothing else in common, so that they are the control  *)
(* blocks of one gate here.                                                *)
(***************************************************************************)
EXTENDS GateClient

CONSTANTS
  Writers, Readers,   \* the two kinds of threads
  Blocks,             \* bound: the memory of the pool
  NS,                 \* shards
  MaxSeq              \* bound: updates of each writer

ASSUME BackendAssumption ==
  /\ Threads = Writers \cup Readers /\ Writers \cap Readers = {}
  /\ NS \in Nat \ {0} /\ Slots = 0 .. NS - 1
  /\ MaxSeq \in Nat
  /\ NULL \notin Blocks

VARIABLES
  running,
  blocks,    \* blocks in the pool's hands
  mem,       \* v1 and v2 of each block; v1 is NULL for a pointer in its place
  obj,       \* the block that is the object of a version, or NULL
  o,         \* o: the block a writer fills until a version has it, and the
             \* one a reader looks at, or NULL
  seq,       \* seq of a writer
  shard,     \* shard of a thread
  seen,      \* o->v1 as a reader has read it
  created, freed   \* the two counters

poolVars    == <<blocks, mem, obj, o>>
counterVars == <<seq, created, freed>>
backendVars == <<vars, cpc, running, poolVars, counterVars, shard, seen>>

(* init(): an object with two zeros in each shard.  A thread begins at the *)
(* shard that its number gives it: any of them.                            *)
BackendInit ==
  /\ \E f \in [Slots -> Versions], g \in [Versions -> Blocks] :
       /\ \A r, s \in Slots : (f[r] = f[s] \/ g[f[r]] = g[f[s]]) => r = s
       /\ StartsWith(f)
       /\ obj = [v \in Versions |->
                   IF \E s \in Slots : f[s] = v THEN g[v] ELSE NULL]
       /\ blocks = Blocks \ {g[f[s]] : s \in Slots}
  /\ cpc     = [t \in Threads |-> "loop"]
  /\ running = TRUE
  /\ mem     = [b \in Blocks |-> [v1 |-> 0, v2 |-> 0]]
  /\ o       = [t \in Threads |-> NULL]
  /\ seq     = [t \in Writers |-> 0]
  /\ shard   \in [Threads -> Slots]
  /\ seen    = [t \in Readers |-> 0]
  /\ created = 0
  /\ freed   = 0

-----------------------------------------------------------------------------
\* writer_loop: a version, a block from the pool, its two fields ...
WriterMakes(t) ==
  /\ t \in Writers
  /\ running /\ seq[t] < MaxSeq
  /\ At(t, "loop", "alloc")
  /\ \E v \in Versions : MakeVersion(t, v) /\ obj' = [obj EXCEPT ![v] = NULL]
  /\ UNCHANGED <<running, blocks, mem, o, counterVars, shard, seen>>

WriterAllocs(t) ==
  /\ At(t, "alloc", "fill")
  /\ \E b \in blocks :
       /\ blocks' = blocks \ {b}
       /\ o'      = [o EXCEPT ![t] = b]
       /\ mem'    = [mem EXCEPT ![b].v1 = seq[t] + 1]
  /\ seq' = [seq EXCEPT ![t] = @ + 1]
  /\ UNCHANGED <<vars, running, obj, created, freed, shard, seen>>

WriterFills(t) ==
  /\ At(t, "fill", "set")
  /\ mem' = [mem EXCEPT ![o[t]].v2 = seq[t]]
  /\ UNCHANGED <<vars, running, blocks, obj, o, counterVars, shard, seen>>

\* ... the object of the version, the exchange, the next shard.
WriterSets(t) ==
  /\ At(t, "set", "exchange")
  /\ SetObject(t)
  /\ obj' = [obj EXCEPT ![mine[t]] = o[t]]
  /\ o'   = [o EXCEPT ![t] = NULL]
  /\ UNCHANGED <<running, blocks, mem, counterVars, shard, seen>>

WriterExchanges(t) ==
  /\ At(t, "exchange", "count")
  /\ ExchangeVersion(t, shard[t])
  /\ UNCHANGED <<running, poolVars, counterVars, shard, seen>>

WriterCounts(t) ==
  /\ pc[t] = "idle"
  /\ At(t, "count", "loop")
  /\ created' = created + 1
  /\ shard'   = [shard EXCEPT ![t] = (@ + 1) % NS]
  /\ UNCHANGED <<vars, running, poolVars, seq, freed, seen>>

-----------------------------------------------------------------------------
\* reader_loop: slot 0 of the reader's shard is never empty.
ReaderAcquires(t) ==
  /\ t \in Readers
  /\ running
  /\ At(t, "loop", "read")
  /\ AcquireVersion(t, shard[t])
  /\ UNCHANGED <<running, poolVars, counterVars, shard, seen>>

ReaderReads(t) ==
  /\ At(t, "read", IF obj[held[t]] = NULL THEN "release" ELSE "check")
  /\ o'    = [o EXCEPT ![t] = obj[held[t]]]
  /\ seen' = [seen EXCEPT ![t] = IF obj[held[t]] = NULL THEN 0
                                 ELSE mem[obj[held[t]]].v1]
  /\ UNCHANGED <<vars, running, blocks, mem, obj, counterVars, shard>>

ReaderChecks(t) ==
  /\ At(t, "check", IF seen[t] = mem[o[t]].v2 THEN "release" ELSE "abort")
  /\ o'    = [o EXCEPT ![t] = NULL]
  /\ seen' = [seen EXCEPT ![t] = 0]
  /\ UNCHANGED <<vars, running, blocks, mem, obj, counterVars, shard>>

ReaderReleases(t) ==
  /\ At(t, "release", "loop")
  /\ ReleaseVersion(t)
  /\ UNCHANGED <<running, poolVars, counterVars, shard, seen>>

\* Both loops end when running is false.
Leaves(t) ==
  /\ ~running
  /\ pc[t] = "idle"
  /\ At(t, "loop", "done")
  /\ UNCHANGED <<vars, running, poolVars, counterVars, shard, seen>>

-----------------------------------------------------------------------------
\* Faulty variant of FreeCallback: counts the object and forgets the pool.
FreeCallbackOnlyCounts(t) ==
  /\ freed' = freed + 1
  /\ UNCHANGED <<blocks, mem>>

\* atomsnap_free_cb: the object goes back to the pool and is counted.  The
\* pool's link, null or a pointer, is written over its first word, v1.
FreeCallback(t) ==
  /\ blocks' = blocks \cup {obj[job[t]]}
  /\ \E next \in {0, NULL} : mem' = [mem EXCEPT ![obj[job[t]]].v1 = next]
  /\ freed'  = freed + 1

\* The library goes on with a call of t.
LibraryStep(t) ==
  /\ Step(t)
  /\ IF pc[t] = "callback" THEN FreeCallback(t)
                           ELSE UNCHANGED <<blocks, mem, freed>>
  /\ UNCHANGED <<cpc, running, obj, o, seq, created, shard, seen>>

\* main: the time is up.
TimeIsUp ==
  /\ running
  /\ running' = FALSE
  /\ UNCHANGED <<vars, cpc, poolVars, counterVars, shard, seen>>

Joined == \A t \in Threads : cpc[t] = "done"

\* stop(), after the joins: the gates are destroyed as they are and the pool
\* is deleted; the last object of each shard is not given back.
StopBackend ==
  /\ Joined
  /\ gate = "open"
  /\ gate' = "none"
  /\ UNCHANGED <<cb, inner, object, pool, held, mine, pc, job, refs, cur, slot,
                 val, cpc, running, poolVars, counterVars, shard, seen>>

-----------------------------------------------------------------------------
ThreadStep(t) ==
  \/ WriterMakes(t) \/ WriterAllocs(t) \/ WriterFills(t) \/ WriterSets(t)
  \/ WriterExchanges(t) \/ WriterCounts(t)
  \/ ReaderAcquires(t) \/ ReaderReads(t) \/ ReaderChecks(t) \/ ReaderReleases(t)
  \/ Leaves(t) \/ LibraryStep(t)

BackendNext == TimeIsUp \/ StopBackend \/ \E t \in Threads : ThreadStep(t)

BackendSpec == BackendInit /\ [][BackendNext]_backendVars

\* The backend is stopped.
Ended == gate = "none"

-----------------------------------------------------------------------------
(***************************************************************************)
(* "ATOM mismatch" is unreachable: a reader never sees a block that has    *)
(* gone back to the pool and is being filled by another writer.            *)
(***************************************************************************)
AtomNoMismatch == \A t \in Readers : cpc[t] # "abort"

(***************************************************************************)
(* A block has one owner: the pool, a writer that fills it, or one version *)
(* in use; the callback hands it back exactly once, before its version's   *)
(* slot can be made again.                                                 *)
(***************************************************************************)
ObjectHasOneOwner ==
  \A b \in Blocks :
    Cardinality({v \in Versions : obj[v] = b /\ object[v] = "live"}
                  \cup {t \in Writers : o[t] = b})
      = IF b \in blocks THEN 0 ELSE 1

(***************************************************************************)
(* finalize() reports pending = 0 without looking: when the threads have   *)
(* been joined, as many objects have been freed as were created, and what  *)
(* is out of the pool is the last object of each shard.                    *)
(***************************************************************************)
PendingIsZero ==
  Joined => /\ created = freed
            /\ Blocks \ blocks = {obj[cb[s].handle] : s \in Slots}

-----------------------------------------------------------------------------
(***************************************************************************)
(* The inductive invariant, with the one of the protocol (IInv) while the  *)
(* gates are there.                                                        *)
(***************************************************************************)
BackendTypeOK ==
  /\ running \in BOOLEAN
  /\ blocks  \in SUBSET Blocks
  /\ mem     \in [Blocks -> [v1 : Nat \cup {NULL}, v2 : Nat]]
  /\ obj     \in [Versions -> Blocks \cup {NULL}]
  /\ o       \in [Threads -> Blocks \cup {NULL}]
  /\ seq     \in [Writers -> Nat]
  /\ shard   \in [Threads -> Slots]
  /\ seen    \in [Readers -> Nat \cup {NULL}]
  /\ created \in Nat /\ freed \in Nat
  /\ cpc     \in [Threads -> {"loop", "alloc", "fill", "set", "exchange",
                              "count", "read", "check", "release", "done"}]

\* What a writer has in hand where it is.
WriterInv ==
  \A t \in Writers :
    /\ cpc[t] \in {"loop", "alloc", "fill", "set", "exchange", "count", "done"}
    /\ pc[t] # "cas" /\ (pc[t] # "idle" => cpc[t] = "count")
    /\ held[t] = NULL
    /\ mine[t] # NULL <=> cpc[t] \in {"alloc", "fill", "set", "exchange"}
    /\ o[t] # NULL <=> cpc[t] \in {"fill", "set"}
    /\ cpc[t] = "fill" => mem[o[t]].v1 = seq[t]
    /\ cpc[t] = "set" => mem[o[t]].v1 = mem[o[t]].v2

\* What a reader has in hand where it is.
ReaderInv ==
  \A t \in Readers :
    /\ cpc[t] \in {"loop", "read", "check", "release", "done"}
    /\ pc[t] # "cas" /\ (pc[t] # "idle" => cpc[t] = "loop")
    /\ mine[t] = NULL
    /\ held[t] # NULL <=> cpc[t] \in {"read", "check", "release"}
    /\ o[t] # NULL <=> cpc[t] = "check"
    /\ cpc[t] = "check" => o[t] = obj[held[t]] /\ seen[t] = mem[o[t]].v1

\* The versions that have an object: all but the free ones and those whose
\* writer has not set it yet or whose callback has run.
LiveInv ==
  /\ \A c \in Slots : cb[c].handle # NULL /\ object[cb[c].handle] = "live"
  /\ \A v \in pool : object[v] # "live"
  /\ \A t \in Threads :
       /\ mine[t] # NULL => (object[mine[t]] = "live" <=> cpc[t] = "exchange")
       /\ job[t] # NULL => (object[job[t]] = "live" <=> pc[t] # "free")
  /\ \A v \in Versions : Waiting(v) => object[v] = "live"

Live == {v \in Versions : object[v] = "live"}

\* Every block is the pool's, a writer's or a version's, and no two's.
OwnerInv ==
  /\ \A v \in Live : obj[v] \in Blocks \ blocks
  /\ \A v, w \in Live : obj[v] = obj[w] => v = w
  /\ \A t \in Writers : o[t] # NULL =>
       /\ o[t] \notin blocks
       /\ \A v \in Live : obj[v] # o[t]
       /\ \A u \in Writers : o[u] = o[t] => u = t
  /\ \A b \in Blocks \ blocks :
       (\E v \in Live : obj[v] = b) \/ (\E t \in Writers : o[t] = b)

\* The object of a version is complete.
FilledInv == \A v \in Live : mem[obj[v]].v1 = mem[obj[v]].v2

\* Writers that have set an object and not counted it yet.
Uncounted == {t \in Threads : cpc[t] \in {"exchange", "count"}}

CountInv ==
  /\ IsFiniteSet(Live)
  /\ Cardinality(Live) + freed = NS + created + Cardinality(Uncounted)

\* While the gates are there, ...
OpenInv ==
  /\ gate = "open" /\ IInv
  /\ WriterInv /\ ReaderInv /\ LiveInv /\ FilledInv /\ CountInv

\* ... and when the backend is stopped.
StoppedInv ==
  /\ gate = "none" /\ Joined /\ PendingIsZero
  /\ \A t \in Threads : pc[t] = "idle"

BackendInv == BackendTypeOK /\ OwnerInv /\ (OpenInv \/ StoppedInv)
=============================================================================
