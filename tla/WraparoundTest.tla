--------------------------- MODULE WraparoundTest ---------------------------
(***************************************************************************)
(* test/wraparound_test.c on top of the protocol of Gate: two sequential   *)
(* tests that force an inner counter to its last value, and a stress test  *)
(* of readers and a writer.  The tests run one after the other on the main *)
(* thread.  A version that the first one leaves behind stays lost.         *)
(***************************************************************************)
EXTENDS GateClient, Sequences

CONSTANTS
  Main, Writer, Readers,   \* the threads
  MaxWrites                \* iterations of writer_thread (200,000 in the code)

TestAssumption ==
  /\ Threads = {Main, Writer} \cup Readers
  /\ Main # Writer /\ {Main, Writer} \cap Readers = {}
  /\ MaxWrites \in Nat

VARIABLES
  step,    \* where main is in Script, or 0 if an assertion failed
  ver,     \* ver of the first two tests
  frees,   \* g_free_calls
  stop,    \* a->stop
  wops     \* a->writer_ops

testVars == <<step, ver, frees, stop, wops>>
allVars  == <<vars, cpc, testVars>>

\* What main does: test_no_detach_no_free_on_wrap, test_detach_finalize_once
\* and test_stress.
Script ==
  <<"init", "make", "set", "exchange", "acquire", "wrap", "release",
    "assert none freed", "acquire", "release", "clear", "destroy">>
  \o
  <<"init", "make", "set", "exchange", "acquire", "detach", "release",
    "assert one freed", "clear", "destroy">>
  \o
  <<"init", "spawn", "join", "clear", "assert sane", "destroy", "passed">>

TestInit ==
  /\ Init
  /\ cpc   = [t \in Threads |-> "none"]
  /\ step  = 1
  /\ ver   = NULL
  /\ frees = 0
  /\ stop  = FALSE
  /\ wops  = 0

-----------------------------------------------------------------------------
(* Main begins the next line of its script when its last call is done.     *)
Does(what) == Script[step] = what /\ pc[Main] = "idle" /\ step' = step + 1

Asserts(what, P) ==
  /\ Script[step] = what
  /\ pc[Main] = "idle"
  /\ step' = IF P THEN step + 1 ELSE 0
  /\ UNCHANGED <<vars, cpc, ver, frees, stop, wops>>

\* make_gate, and g_free_calls is reset.
MainInits ==
  /\ Does("init")
  /\ InitGate
  /\ frees' = 0
  /\ UNCHANGED <<cpc, ver, stop, wops>>

\* make_ver, in two calls.
MainMakes ==
  /\ Does("make")
  /\ \E v \in Versions : MakeVersion(Main, v) /\ ver' = v
  /\ UNCHANGED <<cpc, frees, stop, wops>>

MainSets ==
  /\ Does("set")
  /\ SetObject(Main)
  /\ UNCHANGED <<cpc, ver, frees, stop, wops>>

\* Installs ver, or NULL when main has no version of its own.
MainExchanges ==
  /\ Does("exchange") \/ Does("clear")
  /\ \E c \in Slots : ExchangeVersion(Main, c)
  /\ UNCHANGED <<cpc, ver, frees, stop, wops>>

\* acquire, with assert(r == ver).
MainAcquires ==
  /\ Script[step] = "acquire"
  /\ \E c \in Slots :
       /\ AcquireVersion(Main, c)
       /\ step' = IF cb[c].handle = ver THEN step + 1 ELSE 0
  /\ UNCHANGED <<cpc, ver, frees, stop, wops>>

MainReleases ==
  /\ Does("release")
  /\ ReleaseVersion(Main)
  /\ UNCHANGED <<cpc, ver, frees, stop, wops>>

\* The counter is forced to its last value, with or without DETACHED.
MainForces ==
  /\ \/ /\ Does("wrap")
        /\ inner' = [inner EXCEPT ![ver] = [cnt |-> M - 1, flags |-> {}]]
     \/ /\ Does("detach")
        /\ inner' = [inner EXCEPT ![ver] = [cnt |-> M - 1, flags |-> {"DETACHED"}]]
  /\ UNCHANGED <<gate, cb, object, pool, held, mine, pc, job, refs, cur, slot,
                 val, cpc, ver, frees, stop, wops>>

MainDestroys ==
  /\ Does("destroy")
  /\ DestroyGate
  /\ UNCHANGED <<cpc, ver, frees, stop, wops>>

MainSpawns ==
  /\ Does("spawn")
  /\ cpc' = [t \in Threads |-> IF t = Main THEN "none" ELSE "loop"]
  /\ UNCHANGED <<vars, ver, frees, stop, wops>>

MainJoins ==
  /\ Does("join")
  /\ \A t \in Threads \ {Main} : cpc[t] = "done"
  /\ UNCHANGED <<vars, cpc, ver, frees, stop, wops>>

MainAsserts ==
  \/ Asserts("assert none freed", frees = 0)
  \/ Asserts("assert one freed", frees = 1)
  \/ Asserts("assert sane", frees <= wops + 10)

-----------------------------------------------------------------------------
(* writer_thread: make_ver and an exchange, then the next iteration.       *)
WriterMakes ==
  /\ wops < MaxWrites
  /\ At(Writer, "loop", "set")
  /\ \E v \in Versions : MakeVersion(Writer, v)
  /\ UNCHANGED testVars

WriterSets ==
  /\ At(Writer, "set", "exchange")
  /\ SetObject(Writer)
  /\ UNCHANGED testVars

WriterExchanges ==
  /\ At(Writer, "exchange", "count")
  /\ \E c \in Slots : ExchangeVersion(Writer, c)
  /\ UNCHANGED testVars

WriterCounts ==
  /\ pc[Writer] = "idle"
  /\ At(Writer, "count", "loop")
  /\ wops' = wops + 1
  /\ UNCHANGED <<vars, step, ver, frees, stop>>

WriterStops ==
  /\ wops = MaxWrites
  /\ At(Writer, "loop", "done")
  /\ stop' = TRUE
  /\ UNCHANGED <<vars, step, ver, frees, wops>>

(* reader_thread: the gate may still be empty.                             *)
ReaderAcquires(t) ==
  /\ t \in Readers
  /\ ~stop
  /\ \E c \in Slots :
       /\ At(t, "loop", IF cb[c].handle = NULL THEN "loop" ELSE "read")
       /\ AcquireVersion(t, c)
  /\ UNCHANGED testVars

\* The object is read, and the version released.
ReaderReleases(t) ==
  /\ At(t, "read", "loop")
  /\ ReleaseVersion(t)
  /\ UNCHANGED testVars

ReaderStops(t) ==
  /\ t \in Readers
  /\ stop
  /\ pc[t] = "idle"
  /\ At(t, "loop", "done")
  /\ UNCHANGED <<vars, testVars>>

\* The library goes on with a call of t; test_free_impl counts.
LibraryStep(t) ==
  /\ Step(t)
  /\ frees' = IF pc[t] = "callback" THEN frees + 1 ELSE frees
  /\ UNCHANGED <<cpc, step, ver, stop, wops>>

-----------------------------------------------------------------------------
MainStep ==
  /\ step # 0
  /\ \/ MainInits \/ MainMakes \/ MainSets \/ MainExchanges \/ MainAcquires
     \/ MainReleases \/ MainForces \/ MainDestroys \/ MainSpawns \/ MainJoins
     \/ MainAsserts

ThreadStep(t) ==
  \/ LibraryStep(t)
  \/ t = Main /\ MainStep
  \/ t = Writer /\ (\/ WriterMakes \/ WriterSets \/ WriterExchanges
                    \/ WriterCounts \/ WriterStops)
  \/ ReaderAcquires(t) \/ ReaderReleases(t) \/ ReaderStops(t)

TestNext == \E t \in Threads : ThreadStep(t)

TestSpec == TestInit /\ [][TestNext]_allVars

\* main has come to the end of its script.
Ended == step # 0 /\ Script[step] = "passed"

-----------------------------------------------------------------------------
(***************************************************************************)
(* No assertion of the test program fails, whatever the schedule: a        *)
(* counter that wraps to zero does not free a version that is not          *)
(* detached, and one that is detached is freed exactly once.               *)
(***************************************************************************)
AssertionsHold == step # 0

(***************************************************************************)
(* "This should not crash or double-free": what a reader of the stress     *)
(* test dereferences has not been freed, and no finalization is repeated.  *)
(***************************************************************************)
StressIsSafe ==
  /\ \A t \in Readers : cpc[t] = "read" => object[held[t]] = "live"
  /\ \A t \in Threads : pc[t] # "aborted"

(***************************************************************************)
(* The stress test asserts frees <= wops + 10, since "reclamation may      *)
(* lag".  It does not: once the threads are joined and the last version is *)
(* detached, each version that was written has been freed once.            *)
(***************************************************************************)
NothingLags ==
  step # 0 /\ Script[step] = "assert sane" /\ pc[Main] = "idle" => frees = wops
=============================================================================
