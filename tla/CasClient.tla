----------------------------- MODULE CasClient ------------------------------
(***************************************************************************)
(* The program of microbench/bench1/cmp_exchange/atomsnap_example.cpp on   *)
(* top of the protocol of Gate: writers that replace the current version   *)
(* by one whose two values are each larger by one, with compare_exchange   *)
(* and in the order README prescribes (release after the CAS), and readers *)
(* that check what they read.                                              *)
(***************************************************************************)
EXTENDS GateClient

CONSTANTS
  Writers, Readers,   \* the two kinds of threads
  MaxOps              \* bound: no new update begins after so many successes

ClientAssumption ==
  /\ Threads = Writers \cup Readers
  /\ Writers \cap Readers = {}
  /\ MaxOps \in Nat

VARIABLES
  data,     \* the Data object of each version
  seen,     \* d->value1, as a reader has read it
  prev,     \* prev_value of a reader
  ops       \* successful updates of all writers

clientVars == <<data, cpc, seen, prev, ops>>
allVars    == <<vars, clientVars>>

\* The state main() leaves to the threads: a gate with a version of two zeros.
ClientInit ==
  /\ \E v \in Versions : StartsWith([c \in Slots |-> v])
  /\ data   = [v \in Versions |-> [value1 |-> 0, value2 |-> 0]]
  /\ cpc    = [t \in Threads |-> IF t \in Writers THEN "make" ELSE "acquire"]
  /\ seen   = [t \in Readers |-> 0]
  /\ prev   = [t \in Readers |-> 0]
  /\ ops    = 0

-----------------------------------------------------------------------------
(* writer(): a version with a new object, made before the loop and after   *)
(* each success.  The new object's values are whatever they are.           *)
WriterMakes(t) ==
  /\ At(t, "make", "set")
  /\ \E v \in Versions : MakeVersion(t, v)
  /\ UNCHANGED <<data, seen, prev, ops>>

WriterSets(t) ==
  /\ At(t, "set", IF held[t] = NULL THEN "acquire" ELSE "release")
  /\ SetObject(t)
  /\ UNCHANGED <<data, seen, prev, ops>>

WriterAcquires(t) ==
  /\ t \in Writers
  /\ ops < MaxOps
  /\ At(t, "acquire", "compute")
  /\ \E c \in Slots : AcquireVersion(t, c)
  /\ UNCHANGED <<data, seen, prev, ops>>

WriterComputes(t) ==
  /\ At(t, "compute", "cas")
  /\ data' = [data EXCEPT ![mine[t]] =
                [value1 |-> data[held[t]].value1 + 1,
                 value2 |-> data[held[t]].value2 + 1]]
  /\ UNCHANGED <<vars, seen, prev, ops>>

(* Faulty variant of WriterCompares: replaces without comparing.           *)
WriterExchanges(t) ==
  /\ At(t, "cas", "returned")
  /\ \E c \in Slots : ExchangeVersion(t, c)
  /\ ops' = ops + 1
  /\ UNCHANGED <<data, seen, prev>>

(* The call of compare_exchange: false at once if another version is       *)
(* current, else its CAS loop begins.                                      *)
WriterCompares(t) ==
  /\ \E c \in Slots :
       \/ /\ At(t, "cas", "returned")
          /\ CompareExchange(t, c, held[t])
       \/ /\ At(t, "cas", "release")
          /\ cb[c].handle # held[t]
          /\ UNCHANGED vars
  /\ UNCHANGED <<data, seen, prev, ops>>

\* The library goes on with a call of t; a CAS that succeeds is an update.
LibraryStep(t) ==
  /\ Step(t)
  /\ ops' = IF pc[t] = "cas" /\ mine[t] # mine'[t] THEN ops + 1 ELSE ops
  /\ UNCHANGED <<data, cpc, seen, prev>>

(* compare_exchange has returned: true if the version was published.       *)
WriterReturns(t) ==
  /\ pc[t] = "idle"
  /\ At(t, "returned", IF mine[t] = NULL THEN "make" ELSE "release")
  /\ UNCHANGED <<vars, data, seen, prev, ops>>

\* Both loops end with the release of the version that was acquired.
Releases(t) ==
  /\ At(t, "release", "acquire")
  /\ ReleaseVersion(t)
  /\ UNCHANGED <<data, seen, prev, ops>>

(* The time is up.                                                         *)
Stops(t) ==
  /\ pc[t] = "idle"
  /\ At(t, "acquire", "done")
  /\ UNCHANGED <<vars, data, seen, prev, ops>>

-----------------------------------------------------------------------------
(* reader(): the two values are read one after the other, and compared     *)
(* with each other and with the last value.                                *)
ReaderAcquires(t) ==
  /\ t \in Readers
  /\ At(t, "acquire", "read")
  /\ \E c \in Slots : AcquireVersion(t, c)
  /\ UNCHANGED <<data, seen, prev, ops>>

ReaderReads(t) ==
  /\ At(t, "read", "check")
  /\ seen' = [seen EXCEPT ![t] = data[held[t]].value1]
  /\ UNCHANGED <<vars, data, prev, ops>>

ReaderChecks(t) ==
  /\ At(t, "check", IF \/ seen[t] # data[held[t]].value2
                       \/ seen[t] < prev[t]
                    THEN "invalid" ELSE "release")
  /\ prev' = [prev EXCEPT ![t] = seen[t]]
  /\ seen' = [seen EXCEPT ![t] = 0]
  /\ UNCHANGED <<vars, data, ops>>

-----------------------------------------------------------------------------
ThreadStep(t) ==
  \/ WriterMakes(t) \/ WriterSets(t) \/ WriterAcquires(t)
  \/ WriterComputes(t) \/ WriterCompares(t) \/ WriterReturns(t)
  \/ ReaderAcquires(t) \/ ReaderReads(t) \/ ReaderChecks(t)
  \/ Releases(t) \/ Stops(t) \/ LibraryStep(t)

ClientNext == \E t \in Threads : ThreadStep(t)

ClientSpec == ClientInit /\ [][ClientNext]_allVars

\* main() has joined all threads.
Ended == \A t \in Threads : cpc[t] = "done"

-----------------------------------------------------------------------------
(***************************************************************************)
(* No reader ever exits with "Invalid data" or "Invalid value": the two    *)
(* values of a version are read equal although writers recycle versions    *)
(* all the time, and a reader never sees an older value than before.       *)
(***************************************************************************)
ReadsAreValid == \A t \in Readers : cpc[t] # "invalid"

(***************************************************************************)
(* No update is lost: the current version's values are the number of       *)
(* compare_exchange calls that have succeeded, so that each success was    *)
(* computed from the version it replaced (no ABA: a version that a writer  *)
(* still holds is not recycled under its CAS).                             *)
(***************************************************************************)
NoLostUpdate ==
  \A c \in Slots : data[cb[c].handle] = [value1 |-> ops, value2 |-> ops]

(***************************************************************************)
(* When all threads have been joined, every version that was replaced has  *)
(* been recycled: what is left is the current version and the one that     *)
(* each writer had ready for its next update and never published.          *)
(***************************************************************************)
EndLeavesUnpublished ==
  Ended =>
    Versions \ pool = {cb[c].handle : c \in Slots} \cup {mine[t] : t \in Writers}
=============================================================================
