---------------------------- MODULE MCBenchmark2 ----------------------------
(***************************************************************************)
(* TLC instance of the parts of benchmark 2: one of the two backends is    *)
(* run to its end, or the pool or the statistics that they share is used   *)
(* on its own.  The variables of the other parts are NULL.                 *)
(***************************************************************************)
EXTENDS AtomSnapBackend

CONSTANTS
  Parts,                        \* the parts to run
  NW, NR, SyncBatch, Reclaims, UrcuBlocks,   \* of the liburcu backend
  T, USER,                      \* of the pool
  MaxNs, MaxAdds                \* of the statistics

VARIABLES
  part,
  reclaim, gptrs, v1, v2, pending, wpc, new, retire, leaving, rpc, ptr, mpc,
  grace, queued, wait, calling,                \* UrcuBackend
  head, next, fresh, live, link, node, missed, lapsed,   \* TaggedFreeList
  samples, sum_ns, max_ns, ns, added,          \* LatencyStats
  old                                          \* UrcuBackend, TaggedFreeList

atomVars  == <<gate, cb, inner, object, held, mine, job, refs, slot, cpc,
               blocks, mem, obj, o, seen, created, freed>>
urcuVars  == <<reclaim, gptrs, v1, v2, pending, wpc, new, retire, leaving, rpc,
               ptr, mpc, grace, queued, wait, calling>>
listVars  == <<head, next, fresh, live, link, node, missed, lapsed>>
statsVars == <<samples, sum_ns, max_ns, ns, added>>
allVars   == <<part, atomVars, urcuVars, listVars, statsVars,
               pc, pool, cur, val, running, seq, shard, old>>

Urcu  == INSTANCE UrcuBackend WITH Blocks <- UrcuBlocks
List  == INSTANCE TaggedFreeList
Stats == INSTANCE LatencyStats

ASSUME Benchmark2Assumption ==
  /\ Parts \subseteq {"atomsnap", "urcu", "pool", "statistics"}
  /\ Urcu!UrcuAssumption /\ List!FreeListAssumption /\ Stats!StatsAssumption

-----------------------------------------------------------------------------
NoAtom ==
  /\ gate = NULL /\ cb = NULL /\ inner = NULL /\ object = NULL /\ held = NULL
  /\ mine = NULL /\ job = NULL /\ refs = NULL /\ slot = NULL /\ cpc = NULL
  /\ blocks = NULL /\ mem = NULL /\ obj = NULL /\ o = NULL /\ seen = NULL
  /\ created = NULL /\ freed = NULL
NoUrcu ==
  /\ reclaim = NULL /\ gptrs = NULL /\ v1 = NULL /\ v2 = NULL /\ pending = NULL
  /\ wpc = NULL /\ new = NULL /\ retire = NULL /\ leaving = NULL /\ rpc = NULL
  /\ ptr = NULL /\ mpc = NULL /\ grace = NULL /\ queued = NULL /\ wait = NULL
  /\ calling = NULL
NoList ==
  /\ head = NULL /\ next = NULL /\ fresh = NULL /\ live = NULL /\ link = NULL
  /\ node = NULL /\ missed = NULL /\ lapsed = NULL
NoStats ==
  samples = NULL /\ sum_ns = NULL /\ max_ns = NULL /\ ns = NULL /\ added = NULL

BenchInit ==
  /\ part \in Parts
  /\ \/ /\ part = "atomsnap" /\ BackendInit
        /\ NoUrcu /\ NoList /\ NoStats /\ old = NULL
     \/ /\ part = "urcu" /\ Urcu!Init
        /\ NoAtom /\ NoList /\ NoStats /\ pc = NULL /\ cur = NULL
     \/ /\ part = "pool" /\ List!Init
        /\ NoAtom /\ NoUrcu /\ NoStats /\ cur = NULL
        /\ pool = NULL /\ val = NULL
        /\ running = NULL /\ seq = NULL /\ shard = NULL
     \/ /\ part = "statistics" /\ Stats!Init
        /\ NoAtom /\ NoUrcu /\ NoList
        /\ pool = NULL /\ val = NULL /\ old = NULL
        /\ running = NULL /\ seq = NULL /\ shard = NULL

-----------------------------------------------------------------------------
(* The steps of a part, with the frame of the others.                      *)
AtomFrame == part = "atomsnap" /\ UNCHANGED <<part, urcuVars, listVars, statsVars, old>>
UrcuFrame == part = "urcu" /\ UNCHANGED <<part, atomVars, listVars, statsVars, pc, cur>>

AtomThread(t) == AtomFrame /\ ThreadStep(t)
AtomTimer     == AtomFrame /\ TimeIsUp
AtomStop      == AtomFrame /\ StopBackend

UrcuWriter(w) == UrcuFrame /\ Urcu!WriterStep(w)
UrcuReader(r) == UrcuFrame /\ Urcu!ReaderStep(r)
UrcuCallback  == UrcuFrame /\ Urcu!RcuStep
UrcuTimer     == UrcuFrame /\ Urcu!TimeIsUp
UrcuMain      == UrcuFrame /\ Urcu!MainStep

ListStep ==
  /\ part = "pool" /\ List!Next
  /\ UNCHANGED <<part, atomVars, urcuVars, statsVars,
                 pool, cur, val, running, seq, shard>>

StatsStep ==
  /\ part = "statistics" /\ Stats!Next
  /\ UNCHANGED <<part, atomVars, urcuVars, listVars,
                 pool, val, running, seq, shard, old>>

BenchNext ==
  \/ \E t \in Threads : AtomThread(t)
  \/ AtomTimer \/ AtomStop
  \/ \E w \in Urcu!WriterIds : UrcuWriter(w)
  \/ \E r \in Urcu!ReaderIds : UrcuReader(r)
  \/ UrcuCallback \/ UrcuTimer \/ UrcuMain
  \/ ListStep \/ StatsStep

BenchSpec == BenchInit /\ [][BenchNext]_allVars

(***************************************************************************)
(* Fairness: every thread keeps being scheduled, main, the timer and the   *)
(* callback thread of liburcu included.                                    *)
(***************************************************************************)
FairBenchSpec ==
  /\ BenchSpec
  /\ \A t \in Threads : WF_allVars(AtomThread(t))
  /\ \A w \in Urcu!WriterIds : WF_allVars(UrcuWriter(w))
  /\ \A r \in Urcu!ReaderIds : WF_allVars(UrcuReader(r))
  /\ WF_allVars(UrcuCallback)
  /\ WF_allVars(AtomTimer \/ UrcuTimer)
  /\ WF_allVars(AtomStop \/ UrcuMain)

-----------------------------------------------------------------------------
(***************************************************************************)
(* No reader aborts with "ATOM mismatch" or "URCU mismatch": the block it  *)
(* reads is not given back and filled by another writer meanwhile.         *)
(***************************************************************************)
NoMismatch ==
  /\ part = "atomsnap" => AtomNoMismatch
  /\ part = "urcu" => Urcu!NoMismatch /\ Urcu!DereferencedIsLive

(***************************************************************************)
(* A block of the atomsnap backend has one owner: the pool, the writer     *)
(* that fills it, or one version in use; atomsnap_free_cb hands it back    *)
(* exactly once, before its version's slot can be made again.              *)
(***************************************************************************)
BlockHasOneOwner == part = "atomsnap" => ObjectHasOneOwner

(***************************************************************************)
(* What the two backends report as pending is right: for atomsnap zero,    *)
(* as finalize() says without looking, since every object replaced has     *)
(* been freed by the time the threads are joined; for liburcu the number   *)
(* of callbacks not run, which is never negative.  When the liburcu        *)
(* backend deletes its pool all blocks are back in it, and no callback is  *)
(* left that would use it.                                                 *)
(***************************************************************************)
PendingIsRight ==
  /\ part = "atomsnap" => PendingIsZero
  /\ part = "urcu" => Urcu!PendingIsExact /\ Urcu!StopFreesEverything

(***************************************************************************)
(* A CAS on the free list of the pool can only be fooled by a sleep        *)
(* through at least T changes of head_.                                    *)
(***************************************************************************)
StaleWordDiffers == part = "pool" => List!StaleWordDiffers

(***************************************************************************)
(* Until that happens no block of the pool is lost or handed out twice,    *)
(* and the pool does not write to a block that a client uses; the tag      *)
(* stays within its bits.                                                  *)
(***************************************************************************)
EveryBlockOnce == part = "pool" => List!TypeOK /\ List!EveryBlockOnce

(***************************************************************************)
(* When no call of add is under way, the statistics are the number, the    *)
(* sum and the maximum of all latencies added, however the calls           *)
(* overlapped.                                                             *)
(***************************************************************************)
StatsAreExact == part = "statistics" => Stats!StatsAreExact

(***************************************************************************)
(* The benchmark ends with its backend stopped: once the time is up no     *)
(* writer stays in the loop of detach_and_adjust or waits for ever for a   *)
(* grace period, and main not for a callback.                              *)
(***************************************************************************)
BenchmarkEnds ==
  part \in {"atomsnap", "urcu"} =>
    <>(IF part = "atomsnap" THEN Ended ELSE Urcu!Ended)
=============================================================================
