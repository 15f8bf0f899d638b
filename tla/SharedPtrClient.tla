-------------------------- MODULE SharedPtrClient ---------------------------
(***************************************************************************)
(* The two shared_ptr programs of benchmark 1 (microbench/bench1/          *)
(* cmp_exchange and exchange, shared_ptr_example.cpp): global_ptr is       *)
(* loaded, compared-and-exchanged or stored by std::atomic_..., and the    *)
(* control blocks of the shared_ptrs come from the pool of OwnerPool.  A   *)
(* Data object lives as long as its control block is counted.              *)
(*                                                                         *)
(* std::shared_ptr is external: a copy counts, a destruction uncounts, and *)
(* whoever uncounts last deletes the object and deallocates the block.     *)
(***************************************************************************)
EXTENDS OwnerPool

CONSTANTS
  Writers, Readers,
  MaxOps      \* bound: no new update begins after so many successes

SharedPtrAssumption ==
  /\ Threads = Writers \cup Readers /\ Writers \cap Readers = {}
  /\ MaxOps \in Nat

VARIABLES
  compares, \* which program: that of cmp_exchange, or that of exchange
  global,   \* global_ptr
  refs,     \* use_count of each control block
  data,     \* the Data object of each control block
  cpc,
  mine,     \* new_data of a writer
  temp,     \* the shared_ptr a writer has just constructed
  held,     \* expected, old_data or cur
  seen,     \* cur->value1 as a reader has read it
  prev,     \* prev_value of a reader
  ops       \* successful updates of all writers

pointerVars == <<global, mine, temp, held>>
readerVars  == <<seen, prev>>
allVars == <<compares, poolVars, pointerVars, refs, data, cpc, readerVars, ops>>

(* The state main leaves to the threads: the first block is from its own   *)
(* arena, which no other thread has.                                       *)
ClientInit ==
  /\ compares \in BOOLEAN
  /\ counter = 1
  /\ tid     = [t \in Threads |-> NULL]
  /\ head    = [a \in Arenas |-> NULL]
  /\ local   = [a \in Arenas |-> NULL]
  /\ next    = [b \in Blocks |-> NULL]
  /\ global  = CHOOSE b \in Blocks : TRUE
  /\ owner   = [b \in Blocks |-> IF b = global THEN 0 ELSE NULL]
  /\ live    = {global}
  /\ pc      = [t \in Threads |-> "idle"]
  /\ node    = [t \in Threads |-> NULL]
  /\ old     = [t \in Threads |-> NULL]
  /\ refs    = [b \in Blocks |-> IF b = global THEN 1 ELSE 0]
  /\ data    = [b \in Blocks |-> [value1 |-> 0, value2 |-> 0]]
  /\ cpc     = [t \in Threads |->
                  IF compares /\ t \in Writers THEN "alloc" ELSE "top"]
  /\ mine    = [t \in Threads |-> NULL]
  /\ temp    = [t \in Threads |-> NULL]
  /\ held    = [t \in Threads |-> NULL]
  /\ seen    = [t \in Readers |-> 0]
  /\ prev    = [t \in Readers |-> 0]
  /\ ops     = 0

At(t, from, to) ==
  /\ pc[t] = "idle"
  /\ cpc[t] = from
  /\ cpc' = [cpc EXCEPT ![t] = to]

\* Faulty variant of Uncount: whoever leaves few owners deallocates.
UncountEarly(t, b, counted) ==
  /\ refs' = [counted EXCEPT ![b] = @ - 1]
  /\ IF counted[b] = 2 THEN Deallocate(t, b) ELSE UNCHANGED poolVars

(* A shared_ptr to b is destroyed, when the use counts are counted.        *)
Uncount(t, b, counted) ==
  /\ refs' = [counted EXCEPT ![b] = @ - 1]
  /\ IF counted[b] = 1 THEN Deallocate(t, b) ELSE UNCHANGED poolVars

Incremented(b) == [refs EXCEPT ![b] = @ + 1]

-----------------------------------------------------------------------------
(* std::atomic_load of global_ptr: one step, with the use count.           *)
Loads(t) ==
  /\ t \in Writers => ops < MaxOps
  /\ At(t, "top", IF t \in Readers THEN "read"
                  ELSE IF compares THEN "compute" ELSE "alloc")
  /\ held' = [held EXCEPT ![t] = global]
  /\ refs' = Incremented(global)
  /\ UNCHANGED <<poolVars, global, mine, temp, data, readerVars, ops>>

Successor(b) == [value1 |-> data[b].value1 + 1, value2 |-> data[b].value2 + 1]

(* A new Data and a control block for it.  The program of exchange has     *)
(* filled the object before.                                               *)
WriterAllocates(t) ==
  \/ /\ At(t, "alloc", "alloc")
     /\ GetTid(t)
     /\ UNCHANGED <<pointerVars, refs, data, readerVars, ops>>
  \/ /\ At(t, "alloc", "assign")
     /\ \E b \in Blocks :
          /\ Allocate(t, b)
          /\ temp' = [temp EXCEPT ![t] = b]
          /\ refs' = [refs EXCEPT ![b] = 1]
          /\ data' = IF compares THEN data
                     ELSE [data EXCEPT ![b] = Successor(held[t])]
     /\ UNCHANGED <<global, mine, held, readerVars, ops>>

(* new_data is the new pointer; the one to the version that the writer has *)
(* published goes.                                                         *)
WriterAssigns(t) ==
  /\ At(t, "assign", IF ~compares THEN "store"
                     ELSE IF held[t] = NULL THEN "top" ELSE "release")
  /\ mine' = [mine EXCEPT ![t] = temp[t]]
  /\ temp' = [temp EXCEPT ![t] = NULL]
  /\ IF mine[t] = NULL THEN UNCHANGED <<poolVars, refs>>
     ELSE Uncount(t, mine[t], refs)
  /\ UNCHANGED <<global, held, data, readerVars, ops>>

WriterComputes(t) ==
  /\ At(t, "compute", "cas")
  /\ data' = [data EXCEPT ![mine[t]] = Successor(held[t])]
  /\ UNCHANGED <<poolVars, pointerVars, refs, readerVars, ops>>

(* Faulty variant of WriterExchanges: stores without comparing.            *)
WriterExchangesBlindly(t) ==
  /\ At(t, "cas", "alloc")
  /\ global' = mine[t]
  /\ ops'    = ops + 1
  /\ Uncount(t, global, Incremented(mine[t]))
  /\ UNCHANGED <<mine, temp, held, data, readerVars>>

(* std::atomic_compare_exchange: replaces what the writer holds, or makes  *)
(* expected what it found and lets go of what it held.                     *)
WriterExchanges(t) ==
  /\ IF global = held[t]
     THEN /\ At(t, "cas", "alloc")
          /\ global' = mine[t]
          /\ ops'    = ops + 1
          /\ Uncount(t, global, Incremented(mine[t]))
          /\ UNCHANGED held
     ELSE /\ At(t, "cas", "release")
          /\ held' = [held EXCEPT ![t] = global]
          /\ Uncount(t, held[t], Incremented(global))
          /\ UNCHANGED <<global, ops>>
  /\ UNCHANGED <<mine, temp, data, readerVars>>

(* std::atomic_store, and then new_data goes.                              *)
WriterStores(t) ==
  /\ At(t, "store", "drop")
  /\ global' = mine[t]
  /\ ops'    = ops + 1
  /\ Uncount(t, global, Incremented(mine[t]))
  /\ UNCHANGED <<mine, temp, held, data, readerVars>>

\* Faulty variant of WriterDrops: new_data is a raw pointer, never released.
WriterDropsNothing(t) ==
  /\ At(t, "drop", IF held[t] = NULL THEN "done" ELSE "release")
  /\ mine' = [mine EXCEPT ![t] = NULL]
  /\ UNCHANGED <<poolVars, refs, global, temp, held, data, readerVars, ops>>

\* Also the end of writer of cmp_exchange, with the object it had ready.
WriterDrops(t) ==
  /\ At(t, "drop", IF held[t] = NULL THEN "done" ELSE "release")
  /\ mine' = [mine EXCEPT ![t] = NULL]
  /\ Uncount(t, mine[t], refs)
  /\ UNCHANGED <<global, temp, held, data, readerVars, ops>>

\* The body of either loop ends: what was loaded goes.
Releases(t) ==
  /\ At(t, "release", "top")
  /\ held' = [held EXCEPT ![t] = NULL]
  /\ Uncount(t, held[t], refs)
  /\ UNCHANGED <<global, mine, temp, data, readerVars, ops>>

\* The time is up.
Stops(t) ==
  /\ At(t, "top", IF mine[t] = NULL THEN "done" ELSE "drop")
  /\ UNCHANGED <<poolVars, pointerVars, refs, data, readerVars, ops>>

-----------------------------------------------------------------------------
ReaderReads(t) ==
  /\ At(t, "read", "check")
  /\ seen' = [seen EXCEPT ![t] = data[held[t]].value1]
  /\ UNCHANGED <<poolVars, pointerVars, refs, data, prev, ops>>

\* Only the reader of cmp_exchange compares with the value it saw before.
ReaderChecks(t) ==
  /\ At(t, "check", IF \/ seen[t] # data[held[t]].value2
                       \/ compares /\ seen[t] < prev[t]
                    THEN "invalid" ELSE "release")
  /\ prev' = [prev EXCEPT ![t] = IF compares THEN seen[t] ELSE 0]
  /\ seen' = [seen EXCEPT ![t] = 0]
  /\ UNCHANGED <<poolVars, pointerVars, refs, data, ops>>

Deallocates(t) ==
  /\ PoolStep(t)
  /\ UNCHANGED <<pointerVars, refs, data, cpc, readerVars, ops>>

-----------------------------------------------------------------------------
ThreadStep(t) ==
  /\ \/ Loads(t) \/ Releases(t) \/ Stops(t) \/ Deallocates(t)
     \/ WriterAllocates(t) \/ WriterAssigns(t) \/ WriterComputes(t)
     \/ WriterExchanges(t) \/ WriterStores(t) \/ WriterDrops(t)
     \/ ReaderReads(t) \/ ReaderChecks(t)
  /\ UNCHANGED compares

ClientNext == \E t \in Threads : ThreadStep(t)

ClientSpec == ClientInit /\ [][ClientNext]_allVars

\* main() has joined all threads.
Ended == \A t \in Threads : cpc[t] = "done" /\ pc[t] = "idle"

-----------------------------------------------------------------------------
(***************************************************************************)
(* No reader exits with "Invalid data" or "Invalid value": an object is    *)
(* not deleted, nor its control block handed out again, under a reader.    *)
(***************************************************************************)
ReadsAreValid == \A t \in Readers : cpc[t] # "invalid"

(***************************************************************************)
(* No update of the cmp_exchange program is lost: the current value counts *)
(* the exchanges that succeeded, since what a writer holds cannot be       *)
(* deallocated and come back as another writer's object under its compare. *)
(***************************************************************************)
NoLostUpdate == compares => data[global] = [value1 |-> ops, value2 |-> ops]

(***************************************************************************)
(* When all threads have been joined only the current object is left, with *)
(* one owner, and every other control block is back in its arena.          *)
(***************************************************************************)
EndLeavesCurrent ==
  Ended =>
    /\ live = {global} /\ refs[global] = 1
    /\ \A b \in Blocks \ {global} : owner[b] # NULL => b \in Free(owner[b])
=============================================================================
