----------------------------- MODULE MCPrograms -----------------------------
(***************************************************************************)
(* TLC instance of the programs of benchmark 1 and of the test program:    *)
(* one of them is chosen and run to its end.  The variables of the others  *)
(* are NULL.                                                               *)
(***************************************************************************)
EXTENDS GateClient, TLC

CONSTANTS
  Programs,                     \* the programs to run
  Writers, Readers,             \* the threads of the benchmark programs
  Main, Writer, TestReaders,    \* the threads of the test program
  Blocks,                       \* of SharedPtrClient
  Half,                         \* the values of an int of ExchangeClient
  MaxUpdates,                   \* bound: MaxOps of CasClient
  MaxOps, MaxWrites             \* bounds: see the other programs

VARIABLES
  program,
  data, seen, prev, ops,          \* several programs
  values,                         \* ExchangeClient
  step, ver, frees, stop, wops,   \* WraparoundTest
  counter, tid, head, local, next, owner, live, node, old, global, temp,
                                  \* SharedPtrClient
  owners, v1, v2, total           \* LockClient

gateVars  == <<gate, cb, inner, object, pool, job, cur, slot, val>>
callVars  == <<held, mine, refs, cpc>>
testVars  == <<step, ver, frees, stop, wops>>
arenaVars == <<counter, tid, head, local, next, owner, live, node, old, global,
               temp>>
lockVars  == <<owners, v1, v2, total>>
allVars   == <<program, gateVars, callVars, pc, data, seen, prev, ops, values,
               testVars, arenaVars, lockVars>>

TestThreads == {Main, Writer} \cup TestReaders

Cas      == INSTANCE CasClient WITH MaxOps <- MaxUpdates
Exchange == INSTANCE ExchangeClient
Test     == INSTANCE WraparoundTest
              WITH Threads <- TestThreads, Readers <- TestReaders,
                   M <- Cardinality(TestThreads) + 1
Pointer  == INSTANCE SharedPtrClient
              WITH compares <- program = "cas pointer",
                   MaxThreads <- Cardinality(Threads) + 1
Lock     == INSTANCE LockClient WITH shared <- program = "mutex"

Pointers == {"cas pointer", "store pointer"}
Locks    == {"mutex", "spin lock"}

ASSUME ProgramsAssumption ==
  /\ Programs \subseteq {"cas", "exchange", "test"} \cup Pointers \cup Locks
  /\ Cas!ClientAssumption /\ Exchange!ExchangeAssumption /\ Test!TestAssumption
  /\ Pointer!OwnerPoolAssumption /\ Pointer!SharedPtrAssumption
  /\ Lock!LockAssumption

-----------------------------------------------------------------------------
NoGate ==
  /\ gate = NULL /\ cb = NULL /\ inner = NULL /\ object = NULL /\ pool = NULL
  /\ job = NULL /\ cur = NULL /\ slot = NULL /\ val = NULL
NoCall ==
  held = NULL /\ mine = NULL /\ refs = NULL /\ cpc = NULL
NoTest ==
  step = NULL /\ ver = NULL /\ frees = NULL /\ stop = NULL /\ wops = NULL
NoArena ==
  /\ counter = NULL /\ tid = NULL /\ head = NULL /\ local = NULL /\ next = NULL
  /\ owner = NULL /\ live = NULL /\ node = NULL /\ old = NULL /\ global = NULL
  /\ temp = NULL
NoLock ==
  owners = NULL /\ v1 = NULL /\ v2 = NULL /\ total = NULL

ProgramsInit ==
  /\ program \in Programs
  /\ \/ /\ program = "cas" /\ Cas!ClientInit
        /\ values = NULL /\ NoTest /\ NoArena /\ NoLock
     \/ /\ program = "exchange" /\ Exchange!ExchangeInit
        /\ seen = NULL /\ prev = NULL /\ ops = NULL
        /\ NoTest /\ NoArena /\ NoLock
     \/ /\ program = "test" /\ Test!TestInit
        /\ data = NULL /\ seen = NULL /\ prev = NULL /\ ops = NULL
        /\ values = NULL /\ NoArena /\ NoLock
     \/ /\ program \in Pointers /\ Pointer!ClientInit
        /\ NoGate /\ values = NULL /\ NoTest /\ NoLock
     \/ /\ program \in Locks /\ Lock!Init
        /\ NoGate /\ NoCall /\ seen = NULL /\ values = NULL /\ NoTest /\ NoArena

-----------------------------------------------------------------------------
(* One step of thread t of the program, and the frame of the others.       *)
CasStep(t) ==
  /\ program = "cas" /\ t \in Threads
  /\ Cas!ThreadStep(t)
  /\ UNCHANGED <<program, values, testVars, arenaVars, lockVars>>

ExchangeStep(t) ==
  /\ program = "exchange" /\ t \in Threads
  /\ Exchange!ThreadStep(t)
  /\ UNCHANGED <<program, seen, prev, ops, testVars, arenaVars, lockVars>>

TestStep(t) ==
  /\ program = "test" /\ t \in TestThreads
  /\ Test!ThreadStep(t)
  /\ UNCHANGED <<program, data, seen, prev, ops, values, arenaVars, lockVars>>

PointerStep(t) ==
  /\ program \in Pointers /\ t \in Threads
  /\ UNCHANGED <<program, gateVars, values, testVars, lockVars>>
  /\ Pointer!ThreadStep(t)

LockStep(t) ==
  /\ program \in Locks /\ t \in Threads
  /\ UNCHANGED <<program, gateVars, callVars, seen, values, testVars, arenaVars>>
  /\ Lock!ThreadStep(t)

ThreadStep(t) ==
  CasStep(t) \/ ExchangeStep(t) \/ TestStep(t) \/ PointerStep(t) \/ LockStep(t)

\* The writers of a benchmark and the versions are interchangeable.
Symmetry == Permutations(Writers) \cup Permutations(Versions)

ProgramsNext == \E t \in Threads \cup TestThreads : ThreadStep(t)

(***************************************************************************)
(* Fairness: every thread keeps being scheduled; a thread that reads the   *)
(* clock at the top of its loop again and again finds its time is up; and  *)
(* a weak CAS of the pool does not fail spuriously for ever.  The locks    *)
(* are not fair: a thread that waits for one may be passed over as long as *)
(* others come for it.                                                     *)
(***************************************************************************)
Stops(t) ==
  \/ CasStep(t) /\ Cas!Stops(t)
  \/ ExchangeStep(t) /\ Exchange!Stops(t)
  \/ PointerStep(t) /\ Pointer!Stops(t)
  \/ LockStep(t) /\ Lock!Stops(t)

Pushes(t) == PointerStep(t) /\ Pointer!DeallocatePushes(t)

ProgramsSpec == ProgramsInit /\ [][ProgramsNext]_allVars

FairProgramsSpec ==
  /\ ProgramsSpec
  /\ \A t \in Threads \cup TestThreads : WF_allVars(ThreadStep(t))
  /\ \A t \in Threads : SF_allVars(Stops(t)) /\ SF_allVars(Pushes(t))

-----------------------------------------------------------------------------
(***************************************************************************)
(* No reader of a benchmark program exits with "Invalid data" or "Invalid  *)
(* value": whichever way the program has of keeping the current object, a  *)
(* reader never sees one that is half written, deleted or recycled, and    *)
(* where it compares with the value before, never an older one.            *)
(***************************************************************************)
NoInvalidRead ==
  /\ program = "cas" => Cas!ReadsAreValid
  /\ program = "exchange" => Exchange!ReadsAreConsistent
  /\ program \in Pointers => Pointer!ReadsAreValid
  /\ program \in Locks => Lock!ReadsAreValid

(***************************************************************************)
(* No update of the programs that compare or lock is lost: the current     *)
(* values count the updates that have succeeded (with pointers, at any     *)
(* time; with locks, when the operations of all writers are added up).     *)
(***************************************************************************)
NoUpdateIsLost ==
  /\ program = "cas" => Cas!NoLostUpdate
  /\ program = "cas pointer" => Pointer!NoLostUpdate
  /\ program \in Locks => Lock!UpdatesAddUp

(***************************************************************************)
(* When all threads have been joined, everything that was replaced has     *)
(* been reclaimed, by whoever let go of it last: what is left is the       *)
(* current version or control block and, in the program that compares      *)
(* versions, the one each writer had ready.                                *)
(***************************************************************************)
EndLeavesNoGarbage ==
  /\ program = "cas" => Cas!EndLeavesUnpublished
  /\ program = "exchange" => Exchange!EndLeavesOneVersion
  /\ program \in Pointers => Pointer!EndLeavesCurrent

(***************************************************************************)
(* No control block of a shared_ptr is lost or in two places: each one is  *)
(* with a client, with a thread that deallocates it, or on exactly one of  *)
(* the two lists of the arena that owns it, although a push that has slept *)
(* through a steal, an allocation and another push of the same head        *)
(* succeeds.  A thread draws one id only, so that there are never more     *)
(* ids than threads (that there are enough arenas is OwnerPoolAssumption). *)
(***************************************************************************)
EveryBlockAtHome ==
  program \in Pointers =>
    Pointer!TypeOK /\ Pointer!EveryBlockAtHome

(***************************************************************************)
(* The test program passes, whatever the schedule: no assertion of it      *)
(* fails (a counter that wraps to zero does not free a version that is not *)
(* detached, and one that is detached is freed exactly once), and in the   *)
(* stress test, which "should not crash or double-free", what a reader     *)
(* dereferences has not been freed and no finalization is repeated.  That  *)
(* test asserts frees <= wops + 10 since "reclamation may lag"; nothing    *)
(* lags: once the threads are joined and the last version is detached,     *)
(* each version that was written has been freed once.                      *)
(***************************************************************************)
TestsPass ==
  program = "test" => Test!AssertionsHold /\ Test!StressIsSafe /\ Test!NothingLags

(***************************************************************************)
(* Every program ends: no thread is kept for ever in the CAS loop of       *)
(* compare_exchange, of detach_and_adjust or of the pool, nor at a lock,   *)
(* since those who keep it there run out of time.                          *)
(***************************************************************************)
ProgramEnds ==
  <>(\/ program = "cas" /\ Cas!Ended
     \/ program = "exchange" /\ Exchange!Ended
     \/ program = "test" /\ Test!Ended
     \/ program \in Pointers /\ Pointer!Ended
     \/ program \in Locks /\ Lock!Ended)
=============================================================================
