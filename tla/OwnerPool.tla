----------------------------- MODULE OwnerPool ------------------------------
(***************************************************************************)
(* PoolAllocator of the shared_ptr programs of benchmark 1 (microbench/    *)
(* bench1/.../shared_ptr_example.cpp): each thread that allocates has an   *)
(* arena of two lists.  Anybody pushes a block on the shared list of the   *)
(* arena that owns it; only the owner takes that list, as a whole, and     *)
(* allocates from it as its local list.                                    *)
(***************************************************************************)
EXTENDS Integers, FiniteSets

CONSTANTS
  Threads,
  Blocks,       \* bound: the blocks operator new can provide
  MaxThreads,   \* kMaxThreads
  NULL          \* nullptr, or no thread id yet

(* A restriction of the model, which the code does not guarantee: get_tid  *)
(* does not compare the number it draws with kMaxThreads, and main takes   *)
(* any positive number of threads.  One arena is main's, hence <.  With    *)
(* more threads the array of arenas is indexed out of bounds.              *)
OwnerPoolAssumption ==
  /\ MaxThreads \in Nat /\ Cardinality(Threads) < MaxThreads
  /\ NULL \notin Blocks \cup 0 .. MaxThreads

VARIABLES
  counter,   \* tid_counter
  tid,       \* my_tid of each thread
  head,      \* shared_head of each arena
  local,     \* local_head of each arena
  next,      \* the header of each block: next
  owner,     \* and owner_tid, NULL until the block exists
  live,      \* blocks in the hands of clients
  pc,        \* where a thread is in deallocate
  node,      \* the block it deallocates
  old        \* head, its local variable

arenaVars == <<counter, tid, head, local, owner>>
callVars  == <<pc, node, old>>
poolVars  == <<arenaVars, next, live, callVars>>

Arenas == 0 .. MaxThreads - 1

Init ==
  /\ counter = 0
  /\ tid     = [t \in Threads |-> NULL]
  /\ head    = [a \in Arenas |-> NULL]
  /\ local   = [a \in Arenas |-> NULL]
  /\ next    = [b \in Blocks |-> NULL]
  /\ owner   = [b \in Blocks |-> NULL]
  /\ live    = {}
  /\ pc      = [t \in Threads |-> "idle"]
  /\ node    = [t \in Threads |-> NULL]
  /\ old     = [t \in Threads |-> NULL]

-----------------------------------------------------------------------------
\* Faulty variant of GetTid: tid_initialized is never set.
GetTidAgain(t) ==
  /\ pc[t] = "idle"
  /\ tid'     = [tid EXCEPT ![t] = counter]
  /\ counter' = counter + 1
  /\ UNCHANGED <<head, local, next, owner, live, callVars>>

\* The first allocate of a thread draws its id.
GetTid(t) ==
  /\ pc[t] = "idle"
  /\ tid[t] = NULL
  /\ tid'     = [tid EXCEPT ![t] = counter]
  /\ counter' = counter + 1
  /\ UNCHANGED <<head, local, next, owner, live, callVars>>

\* allocate: from the local list ...
AllocateLocal(t, b) ==
  /\ b = local[tid[t]]
  /\ local' = [local EXCEPT ![tid[t]] = next[b]]
  /\ UNCHANGED <<head, owner>>

\* Faulty variant of AllocateStolen: the shared list is not emptied.
AllocateStolenUncleared(t, b) ==
  /\ local[tid[t]] = NULL
  /\ b = head[tid[t]]
  /\ local' = [local EXCEPT ![tid[t]] = next[b]]
  /\ UNCHANGED <<head, owner>>

\* ... or else by an exchange of the shared list with nullptr, ...
AllocateStolen(t, b) ==
  /\ local[tid[t]] = NULL
  /\ b = head[tid[t]]
  /\ head'  = [head EXCEPT ![tid[t]] = NULL]
  /\ local' = [local EXCEPT ![tid[t]] = next[b]]
  /\ UNCHANGED owner

\* ... or else, if there was nothing to take, from operator new: one of the
\* blocks that do not exist yet, it makes no difference which.
AllocateNew(t, b) ==
  LET unborn == {c \in Blocks : owner[c] = NULL} IN
  /\ local[tid[t]] = NULL
  /\ head[tid[t]] = NULL
  /\ unborn # {} /\ b = CHOOSE c \in unborn : TRUE
  /\ owner' = [owner EXCEPT ![b] = tid[t]]
  /\ UNCHANGED <<head, local>>

Allocate(t, b) ==
  /\ pc[t] = "idle"
  /\ tid[t] # NULL
  /\ AllocateLocal(t, b) \/ AllocateStolen(t, b) \/ AllocateNew(t, b)
  /\ live' = live \cup {b}
  /\ UNCHANGED <<counter, tid, next, callVars>>

-----------------------------------------------------------------------------
\* deallocate: the call, and the load of the owner's shared_head.
Deallocate(t, b) ==
  /\ pc[t] = "idle"
  /\ b \in live
  /\ live' = live \ {b}
  /\ node' = [node EXCEPT ![t] = b]
  /\ pc'   = [pc EXCEPT ![t] = "load"]
  /\ UNCHANGED <<arenaVars, next, old>>

\* Also what compare_exchange_weak does when it fails.
LoadHead(t) == old' = [old EXCEPT ![t] = head[owner[node[t]]]]

DeallocateLoads(t) ==
  /\ pc[t] = "load"
  /\ LoadHead(t)
  /\ pc' = [pc EXCEPT ![t] = "link"]
  /\ UNCHANGED <<arenaVars, next, live, node>>

\* The loop: block->next = head and the CAS, which may fail spuriously.
DeallocateLinks(t) ==
  /\ pc[t] = "link"
  /\ next' = [next EXCEPT ![node[t]] = old[t]]
  /\ pc'   = [pc EXCEPT ![t] = "push"]
  /\ UNCHANGED <<arenaVars, live, node, old>>

DeallocatePushes(t) ==
  /\ pc[t] = "push"
  /\ head[owner[node[t]]] = old[t]
  /\ head' = [head EXCEPT ![owner[node[t]]] = node[t]]
  /\ node' = [node EXCEPT ![t] = NULL]
  /\ old'  = [old EXCEPT ![t] = NULL]
  /\ pc'   = [pc EXCEPT ![t] = "idle"]
  /\ UNCHANGED <<counter, tid, local, owner, next, live>>

\* Faulty variant of DeallocateRetries: block->next is not written again.
DeallocateRetriesUnlinked(t) ==
  /\ pc[t] = "push"
  /\ LoadHead(t)
  /\ UNCHANGED <<arenaVars, next, live, pc, node>>

\* Faulty variant of DeallocateRetries: head is not loaded again.
DeallocateRetriesStale(t) ==
  /\ pc[t] = "push"
  /\ pc' = [pc EXCEPT ![t] = "link"]
  /\ UNCHANGED <<arenaVars, next, live, node, old>>

DeallocateRetries(t) ==
  /\ pc[t] = "push"
  /\ LoadHead(t)
  /\ pc' = [pc EXCEPT ![t] = "link"]
  /\ UNCHANGED <<arenaVars, next, live, node>>

PoolStep(t) ==
  \/ DeallocateLoads(t) \/ DeallocateLinks(t)
  \/ DeallocatePushes(t) \/ DeallocateRetries(t)

-----------------------------------------------------------------------------
\* The chain of blocks that begins at b, by its length.
Chain(b) ==
  LET c[n \in 0 .. Cardinality(Blocks)] ==
        IF n = 0 THEN b
        ELSE LET p == c[n - 1] IN IF p = NULL THEN NULL ELSE next[p]
  IN  IF b = NULL THEN {} ELSE {c[n] : n \in DOMAIN c} \ {NULL}

Free(a) == Chain(head[a]) \cup Chain(local[a])

Freeing == {node[t] : t \in Threads} \ {NULL}

TypeOK ==
  /\ counter \in 0 .. MaxThreads
  /\ tid   \in [Threads -> Arenas \cup {NULL}]
  /\ head  \in [Arenas -> Blocks \cup {NULL}]
  /\ local \in [Arenas -> Blocks \cup {NULL}]
  /\ next  \in [Blocks -> Blocks \cup {NULL}]
  /\ owner \in [Blocks -> Arenas \cup {NULL}]
  /\ live  \in SUBSET Blocks
  /\ pc    \in [Threads -> {"idle", "load", "link", "push"}]
  /\ node  \in [Threads -> Blocks \cup {NULL}]
  /\ old   \in [Threads -> Blocks \cup {NULL}]

(***************************************************************************)
(* No block is lost or in two places: each one that exists is with a       *)
(* client, with a thread that deallocates it, or on exactly one of the two *)
(* lists of the arena that owns it, although a push that has slept through *)
(* a steal, an allocation and another push of the same head succeeds.      *)
(***************************************************************************)
EveryBlockAtHome ==
  /\ \A a \in Arenas : Chain(head[a]) \cap Chain(local[a]) = {}
  /\ UNION {{<<b, a>> : b \in Free(a)} : a \in Arenas}
       = {<<b, owner[b]>> : b \in {c \in Blocks : owner[c] # NULL}
                                  \ (live \cup Freeing)}
  /\ live \cap Freeing = {}
  /\ \A t, u \in Threads : node[t] # NULL /\ node[t] = node[u] => t = u
=============================================================================
