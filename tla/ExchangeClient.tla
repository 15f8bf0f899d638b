--------------------------- MODULE ExchangeClient ---------------------------
(***************************************************************************)
(* The program of microbench/bench1/exchange/atomsnap_example.cpp on top   *)
(* of the protocol of Gate: writers that read the current version, replace *)
(* whatever is current by then with a version whose values are each larger *)
(* by one, and release what they read; readers that compare the two values.*)
(* The values pass through an int, which wraps (2^32 values in the code).  *)
(***************************************************************************)
EXTENDS GateClient

CONSTANTS
  Writers, Readers,   \* the two kinds of threads
  Half                \* an int goes from -Half to Half - 1 (2^31 in the code)

ExchangeAssumption ==
  /\ Threads = Writers \cup Readers
  /\ Writers \cap Readers = {}
  /\ Half \in Nat \ {0}

VARIABLES
  data,     \* the Data object of each version
  values    \* values[] of a writer, d->value1 as a reader has read it

allVars == <<vars, cpc, data, values>>

\* An object that was deleted: its memory may hold anything.
Deleted == [value1 |-> 0, value2 |-> 1]

\* int values[i] = old_data->value + 1.
NextInt(n) == IF n + 1 = Half THEN -Half ELSE n + 1

\* main(): a gate with a version of two zeros, and the threads.
ExchangeInit ==
  /\ \E v \in Versions :
       /\ StartsWith([c \in Slots |-> v])
       /\ data = [w \in Versions |-> IF w = v THEN [value1 |-> 0, value2 |-> 0]
                                              ELSE Deleted]
  /\ cpc    = [t \in Threads |-> "acquire"]
  /\ values = [t \in Threads |-> Deleted]

-----------------------------------------------------------------------------
\* The top of both loops: the time is up, or the current version is acquired.
Stops(t) ==
  /\ pc[t] = "idle"
  /\ At(t, "acquire", "done")
  /\ UNCHANGED <<vars, data, values>>

Acquires(t) ==
  /\ At(t, "acquire", "read1")
  /\ \E c \in Slots : AcquireVersion(t, c)
  /\ UNCHANGED <<data, values>>

\* d->value1 and d->value2 are read one after the other.
ReadsValue1(t) ==
  /\ At(t, "read1", "read2")
  /\ values' = [values EXCEPT ![t].value1 = data[held[t]].value1]
  /\ UNCHANGED <<vars, data>>

\* reader(): exits with "Invalid data" if they differ.
ReaderChecks(t) ==
  /\ t \in Readers
  /\ At(t, "read2", IF values[t].value1 = data[held[t]].value2 THEN "release"
                                                              ELSE "invalid")
  /\ values' = [values EXCEPT ![t] = Deleted]
  /\ UNCHANGED <<vars, data>>

\* writer(): adds one to each.
WriterComputes(t) ==
  /\ t \in Writers
  /\ At(t, "read2", "make")
  /\ values' = [values EXCEPT ![t] = [value1 |-> NextInt(values[t].value1),
                                      value2 |-> NextInt(data[held[t]].value2)]]
  /\ UNCHANGED <<vars, data>>

WriterMakes(t) ==
  /\ At(t, "make", "set")
  /\ \E v \in Versions : MakeVersion(t, v)
  /\ UNCHANGED <<data, values>>

WriterSets(t) ==
  /\ At(t, "set", "exchange")
  /\ SetObject(t)
  /\ data'   = [data EXCEPT ![mine[t]] = values[t]]
  /\ values' = [values EXCEPT ![t] = Deleted]

WriterExchanges(t) ==
  /\ At(t, "exchange", "release")
  /\ \E c \in Slots : ExchangeVersion(t, c)
  /\ UNCHANGED <<data, values>>

(* Faulty variant of Releases: a writer keeps what it replaced.            *)
ReaderReleases(t) ==
  /\ At(t, "release", "acquire")
  /\ IF t \in Readers
     THEN ReleaseVersion(t)
     ELSE held' = [held EXCEPT ![t] = NULL]
          /\ UNCHANGED <<gate, cb, inner, object, pool, mine, pc, job, refs,
                         cur, slot, val>>
  /\ UNCHANGED <<data, values>>

\* Both loops end with the release of the version that was acquired.
Releases(t) ==
  /\ At(t, "release", "acquire")
  /\ ReleaseVersion(t)
  /\ UNCHANGED <<data, values>>

\* The library goes on with a call of t; atomsnap_free_impl deletes an object.
LibraryStep(t) ==
  /\ Step(t)
  /\ data' = IF pc[t] = "callback" THEN [data EXCEPT ![job[t]] = Deleted] ELSE data
  /\ UNCHANGED <<cpc, values>>

-----------------------------------------------------------------------------
ThreadStep(t) ==
  \/ Acquires(t) \/ ReadsValue1(t) \/ ReaderChecks(t)
  \/ WriterComputes(t) \/ WriterMakes(t) \/ WriterSets(t) \/ WriterExchanges(t)
  \/ Releases(t) \/ Stops(t) \/ LibraryStep(t)

ExchangeNext == \E t \in Threads : ThreadStep(t)

ExchangeSpec == ExchangeInit /\ [][ExchangeNext]_allVars

\* main() has joined all threads.
Ended == \A t \in Threads : cpc[t] = "done"

-----------------------------------------------------------------------------
(***************************************************************************)
(* No reader exits with "Invalid data": it never sees the two values of an *)
(* object that was deleted, or whose memory is in use again, or that is    *)
(* half written, also when the int has wrapped.                            *)
(***************************************************************************)
ReadsAreConsistent == \A t \in Readers : cpc[t] # "invalid"

(***************************************************************************)
(* When all threads have been joined, everything the writers replaced has  *)
(* been recycled and only the current version is left, although nobody     *)
(* waits for readers and the last release of each version may be anyone's. *)
(***************************************************************************)
EndLeavesOneVersion ==
  Ended => pool = Versions \ {cb[c].handle : c \in Slots}
=============================================================================
