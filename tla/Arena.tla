------------------------------- MODULE Arena --------------------------------
(***************************************************************************)
(* The version-slot allocator of atomsnap.c: each thread context owns      *)
(* arenas of N slots, slot 0 of which is the sentinel.  The owner pops     *)
(* slots from a private list and refills it by stealing the whole shared   *)
(* stack of one of its arenas; every thread pushes freed slots back onto   *)
(* the stack of the arena they came from.  A fully returned last arena is  *)
(* given back to the operating system and set up again when needed.        *)
(*                                                                         *)
(* A thread here is a thread context together with the program thread that *)
(* has it: contexts outlive threads and are adopted with all they own.     *)
(***************************************************************************)
EXTENDS Integers, FiniteSets, Sequences, LinkedList

CONSTANTS
  Threads,      \* thread contexts
  N,            \* SLOTS_PER_ARENA, the sentinel included
  MaxArenas,    \* MAX_ARENAS
  VectorInit,   \* first capacity of owned_arenas and arena_indices
  OutOfMemory,  \* what may fail to be allocated: "arena", "vector"
  NULL          \* HANDLE_NULL, and NULL entries of owned_arenas

ASSUME SizeAssumption ==
  /\ N \in Nat /\ N > 1
  /\ MaxArenas \in Nat /\ MaxArenas > 0
  /\ VectorInit \in Nat /\ VectorInit > 0
  /\ OutOfMemory \subseteq {"arena", "vector"}

VARIABLES
  top,       \* top_handle of each arena: stack depth and handle
  word,      \* self_handle / next_handle, one word, of each slot
  arenas,    \* g_global_arena_cnt, held at MaxArenas once it gets there
  owned,     \* owned_arenas and arena_indices of a context: arena or NULL
  active,    \* active_arena_count
  local,     \* local_top
  allocs,    \* alloc_count modulo N
  vector,    \* do the context's vector pointers point to live memory?
  live,      \* slots the clients have
  out,       \* history: how often a slot is handed out and not given back
  pc,        \* where a thread is in the operation it is executing
  i,         \* the loop index of alloc_slot
  job,       \* the slot a thread is pushing in free_slot, or NULL
  self,      \* my_handle of a thread in free_slot, or NULL
  old        \* old_top of a thread in free_slot

vars == <<top, word, arenas, owned, active, local, allocs, vector, live, out,
          pc, i, job, self, old>>

Arenas   == 0 .. MaxArenas - 1
SlotIds  == 0 .. N - 1
Handles  == Arenas \X SlotIds
Usable   == Arenas \X (1 .. N - 1)
Tops     == [depth : 0 .. N - 1, handle : Handles]

\* 0xFFFFFFFF is no handle: slot indices end at SLOTS_PER_ARENA - 1.
ASSUME NullAssumption == NULL \notin Arenas /\ NULL \notin Handles

Sentinel(a)  == <<a, 0>>          \* construct_handle(a, 0)
Zero         == <<0, 0>>          \* the handle whose bits are all zero
EmptyTop(a)  == [depth |-> 0, handle |-> Sentinel(a)]
ZeroTop      == [depth |-> 0, handle |-> Zero]

\* The handle is a slot and not the end of a list (pop_local).
IsSlot(h) == h # NULL /\ h[2] # 0

Capacity(t) == Len(owned[t])

\* owned_arenas[active_arena_count - 1].
Last(t) == owned[t][active[t]]

-----------------------------------------------------------------------------
Init ==
  /\ top    = [a \in Arenas |-> ZeroTop]
  /\ word   = [h \in Handles |-> Zero]
  /\ arenas = 0
  /\ owned  = [t \in Threads |-> <<>>]
  /\ active = [t \in Threads |-> 0]
  /\ local  = [t \in Threads |-> NULL]
  /\ allocs = [t \in Threads |-> 0]
  /\ vector = [t \in Threads |-> "valid"]
  /\ live   = {}
  /\ out    = [h \in Usable |-> 0]
  /\ pc     = [t \in Threads |-> "idle"]
  /\ i      = [t \in Threads |-> 1]
  /\ job    = [t \in Threads |-> NULL]
  /\ self   = [t \in Threads |-> NULL]
  /\ old    = [t \in Threads |-> ZeroTop]

Goto(t, label) == pc' = [pc EXCEPT ![t] = label]

(***************************************************************************)
(* Faulty variant of Pop: the slot keeps the link in its word.             *)
(***************************************************************************)
PopKeepsLink(t, h, w) ==
  /\ local' = [local EXCEPT ![t] = w[h]]
  /\ word'  = w
  /\ live'  = live \cup {h}
  /\ out'   = [out EXCEPT ![h] = @ + 1]
  /\ Goto(t, "idle")

(***************************************************************************)
(* The tail of pop_local on a list whose first slot is h and whose next    *)
(* words are those of w: the rest of the list stays with the thread, the   *)
(* slot gets its own handle back and goes to the client.                   *)
(***************************************************************************)
Pop(t, h, w) ==
  /\ local' = [local EXCEPT ![t] = w[h]]
  /\ word'  = [w EXCEPT ![h] = h]
  /\ live'  = live \cup {h}
  /\ out'   = [out EXCEPT ![h] = @ + 1]
  /\ Goto(t, "idle")

-----------------------------------------------------------------------------
(* alloc_slot begins: every N-th allocation first looks whether the last   *)
(* arena can be reclaimed.                                                 *)
AllocSlot(t) ==
  /\ pc[t] = "idle"
  /\ allocs' = [allocs EXCEPT ![t] = (@ + 1) % N]
  /\ Goto(t, IF allocs'[t] = 0 THEN "reclaim" ELSE "pop")
  /\ UNCHANGED <<top, word, arenas, owned, active, local, vector, live, out,
                 i, job, self, old>>

(* tls_destructor begins: the thread exits, its context is adopted later.  *)
ThreadExit(t) ==
  /\ pc[t] = "idle"
  /\ Goto(t, "exit")
  /\ UNCHANGED <<top, word, arenas, owned, active, local, allocs, vector,
                 live, out, i, job, self, old>>

\* Faulty variant of LastIsFull: counts the sentinel twice.
LastIsAlmostFull(t) == active[t] > 0 /\ top[Last(t)].depth = N - 2

\* reclaim_last_arena_if_empty would reclaim the last arena.
LastIsFull(t) == active[t] > 0 /\ top[Last(t)].depth = N - 1

(* reclaim_last_arena_if_empty, its load of top_handle.  tls_destructor    *)
(* ends at the first arena that is not full.                               *)
ReclaimLoads(t) ==
  /\ pc[t] \in {"reclaim", "exit"}
  /\ vector[t] = "valid"
  /\ Goto(t, CASE pc[t] = "reclaim" /\ LastIsFull(t)  -> "madvise"
               [] pc[t] = "exit" /\ LastIsFull(t)     -> "exit_madvise"
               [] pc[t] = "reclaim" /\ ~LastIsFull(t) -> "pop"
               [] pc[t] = "exit" /\ ~LastIsFull(t)    -> "idle")
  /\ UNCHANGED <<top, word, arenas, owned, active, local, allocs, vector,
                 live, out, i, job, self, old>>

\* The pages of arena a are dropped and read as zeros.
Zeroed(a) == [h \in Handles |-> IF h[1] = a THEN Zero ELSE word[h]]

(* ... its madvise, and the arena leaves the active list.                  *)
Madvise(t) ==
  /\ pc[t] \in {"madvise", "exit_madvise"}
  /\ top'    = [top EXCEPT ![Last(t)] = ZeroTop]
  /\ word'   = Zeroed(Last(t))
  /\ active' = [active EXCEPT ![t] = @ - 1]
  /\ Goto(t, IF pc[t] = "madvise" THEN "pop" ELSE "exit")
  /\ UNCHANGED <<arenas, owned, local, allocs, vector, live, out, i, job,
                 self, old>>

(* pop_local, with a slot in the private list and without.                 *)
PopLocal(t) ==
  /\ pc[t] = "pop"
  /\ IsSlot(local[t])
  /\ Pop(t, local[t], word)
  /\ UNCHANGED <<top, arenas, owned, active, allocs, vector, i, job, self, old>>

(* Faulty variant of PopEmpty: the scan begins behind the first arena.     *)
PopEmptySkipsFirst(t) ==
  /\ pc[t] = "pop"
  /\ ~IsSlot(local[t])
  /\ local' = [local EXCEPT ![t] = NULL]
  /\ i' = [i EXCEPT ![t] = 2]
  /\ Goto(t, "scan")
  /\ UNCHANGED <<top, word, arenas, owned, active, allocs, vector, live, out,
                 job, self, old>>

PopEmpty(t) ==
  /\ pc[t] = "pop"
  /\ ~IsSlot(local[t])
  /\ local' = [local EXCEPT ![t] = NULL]
  /\ i' = [i EXCEPT ![t] = 1]
  /\ Goto(t, "scan")
  /\ UNCHANGED <<top, word, arenas, owned, active, allocs, vector, live, out,
                 job, self, old>>

(* Faulty variants of ScanArena: no look at the top, no next arena.        *)
ScanWithoutLoad(t) ==
  /\ pc[t] = "scan"
  /\ vector[t] = "valid"
  /\ i[t] <= active[t]
  /\ Goto(t, "steal")
  /\ UNCHANGED <<top, word, arenas, owned, active, local, allocs, vector,
                 live, out, i, job, self, old>>

ScanWithoutAdvance(t) ==
  /\ pc[t] = "scan"
  /\ vector[t] = "valid"
  /\ i[t] <= active[t]
  /\ LET a == owned[t][i[t]] IN
       IF top[a].handle = Sentinel(a) THEN UNCHANGED pc ELSE Goto(t, "steal")
  /\ UNCHANGED <<top, word, arenas, owned, active, local, allocs, vector,
                 live, out, i, job, self, old>>

(* One turn of the loop over the active arenas: the load of top_handle.    *)
ScanArena(t) ==
  /\ pc[t] = "scan"
  /\ vector[t] = "valid"
  /\ i[t] <= active[t]
  /\ LET a == owned[t][i[t]] IN
       IF top[a].handle = Sentinel(a)
       THEN i' = [i EXCEPT ![t] = @ + 1] /\ UNCHANGED pc
       ELSE Goto(t, "steal") /\ UNCHANGED i
  /\ UNCHANGED <<top, word, arenas, owned, active, local, allocs, vector,
                 live, out, job, self, old>>

(* Faulty variant of StealBatch: reads the stack and does not empty it.    *)
StealByLoad(t) ==
  /\ pc[t] = "steal"
  /\ Pop(t, top[owned[t][i[t]]].handle, word)
  /\ UNCHANGED <<top, arenas, owned, active, allocs, vector, i, job, self, old>>

(* ... the exchange that takes the whole stack, and the assertion on what  *)
(* it took.                                                                *)
StealBatch(t) ==
  /\ pc[t] = "steal"
  /\ LET a == owned[t][i[t]] IN
       /\ top' = [top EXCEPT ![a] = EmptyTop(a)]
       /\ IF top[a].handle = Sentinel(a)
          THEN Goto(t, "aborted") /\ UNCHANGED <<local, word, live, out>>
          ELSE Pop(t, top[a].handle, word)
  /\ UNCHANGED <<arenas, owned, active, allocs, vector, i, job, self, old>>

\* The links setup_arena_stack writes: N - 1 on top, the sentinel last.
Linked(a) ==
  [h \in Handles |-> CASE h[1] # a -> word[h]
                       [] h = Sentinel(a) -> NULL
                       [] OTHER -> <<a, h[2] - 1>>]

\* setup_arena_stack, and the first pop from the new private list.
Setup(t, a) ==
  /\ top'    = [top EXCEPT ![a] = EmptyTop(a)]
  /\ active' = [active EXCEPT ![t] = @ + 1]
  /\ Pop(t, <<a, N - 1>>, Linked(a))

\* There is a reclaimed arena right behind the active ones.
CanReuse(t) == active[t] < Capacity(t) /\ owned[t][active[t] + 1] # NULL

\* alloc_slot found nothing in its list and nothing to steal.
MustInit(t) == pc[t] = "scan" /\ vector[t] = "valid" /\ i[t] > active[t]

(* init_arena, reusing a reclaimed arena.                                  *)
ReuseArena(t) ==
  /\ MustInit(t)
  /\ CanReuse(t)
  /\ Setup(t, owned[t][active[t] + 1])
  /\ UNCHANGED <<arenas, owned, allocs, vector, i, job, self, old>>

\* ensure_vector_capacity: doubled when full, the new entries NULL.
NewCapacity(t) ==
  IF active[t] < Capacity(t) THEN Capacity(t)
  ELSE IF Capacity(t) = 0 THEN VectorInit ELSE 2 * Capacity(t)

Grown(t) ==
  [k \in 1 .. NewCapacity(t) |-> IF k <= Capacity(t) THEN owned[t][k] ELSE NULL]

(* init_arena with a new arena: the next global index, its memory, a place *)
(* in the vectors.                                                         *)
NewArena(t) ==
  /\ MustInit(t)
  /\ ~CanReuse(t)
  /\ arenas < MaxArenas
  /\ arenas' = arenas + 1
  /\ owned'  = [owned EXCEPT ![t] = [Grown(t) EXCEPT ![active[t] + 1] = arenas]]
  /\ Setup(t, arenas)
  /\ UNCHANGED <<allocs, vector, i, job, self, old>>

\* alloc_slot returns HANDLE_NULL.
AllocFails(t) ==
  /\ Goto(t, "idle")
  /\ UNCHANGED <<top, word, owned, active, local, allocs, live, out, i, job,
                 self, old>>

(* No arena index is left.                                                 *)
MaxArenasReached(t) ==
  /\ MustInit(t)
  /\ ~CanReuse(t)
  /\ arenas = MaxArenas
  /\ AllocFails(t)
  /\ UNCHANGED <<arenas, vector>>

(* aligned_alloc fails; the index it was for is not given back.            *)
ArenaMemoryFails(t) ==
  /\ "arena" \in OutOfMemory
  /\ MustInit(t)
  /\ ~CanReuse(t)
  /\ arenas < MaxArenas
  /\ arenas' = arenas + 1
  /\ AllocFails(t)
  /\ UNCHANGED vector

(* realloc fails for one of the two vectors, or for both.  If it was one,  *)
(* and the other was moved, the context keeps a pointer to freed memory.   *)
VectorMemoryFails(t) ==
  /\ "vector" \in OutOfMemory
  /\ MustInit(t)
  /\ ~CanReuse(t)
  /\ arenas < MaxArenas
  /\ active[t] = Capacity(t)
  /\ arenas' = arenas + 1
  /\ \E v \in IF Capacity(t) = 0 THEN {"valid"} ELSE {"valid", "dangling"} :
       vector' = [vector EXCEPT ![t] = v]
  /\ AllocFails(t)

(* The vectors are read through a dangling pointer: undefined from here.   *)
UseDangling(t) ==
  /\ vector[t] = "dangling"
  /\ pc[t] \in {"reclaim", "exit", "scan"}
  /\ Goto(t, "undefined")
  /\ UNCHANGED <<top, word, arenas, owned, active, local, allocs, vector,
                 live, out, i, job, self, old>>

-----------------------------------------------------------------------------
(* free_slot(h), by whichever thread: the slot's own handle says which     *)
(* arena it goes to, and that arena's top is loaded.                       *)
FreeSlot(t, h) ==
  /\ pc[t] = "idle"
  /\ h \in live
  /\ live' = live \ {h}
  /\ job'  = [job EXCEPT ![t] = h]
  /\ self' = [self EXCEPT ![t] = word[h]]
  /\ old'  = [old EXCEPT ![t] = top[word[h][1]]]
  /\ Goto(t, "link")
  /\ UNCHANGED <<top, word, arenas, owned, active, local, allocs, vector, out,
                 i>>

(* The slot is linked to the top that was read ...                         *)
LinkSlot(t) ==
  /\ pc[t] = "link"
  /\ word' = [word EXCEPT ![job[t]] = old[t].handle]
  /\ Goto(t, "push")
  /\ UNCHANGED <<top, arenas, owned, active, local, allocs, vector, live, out,
                 i, job, self, old>>

\* Faulty variants of Pushed: the depth is not counted, or counted twice.
PushedWithoutDepth(w, h) == [depth |-> w.depth, handle |-> h]
PushedTwoDeep(w, h) == [depth |-> w.depth + 2, handle |-> h]

\* new_top: one deeper than the top that was read, with h on top.
Pushed(w, h) == [depth |-> w.depth + 1, handle |-> h]

(* ... and the CAS makes it the top, or loads the new top for another try. *)
PushSucceeds(t) ==
  /\ pc[t] = "push"
  /\ top[self[t][1]] = old[t]
  /\ top'  = [top EXCEPT ![self[t][1]] = Pushed(old[t], self[t])]
  /\ job'  = [job EXCEPT ![t] = NULL]
  /\ out'  = [out EXCEPT ![job[t]] = @ - 1]
  /\ self' = [self EXCEPT ![t] = NULL]
  /\ old'  = [old EXCEPT ![t] = ZeroTop]
  /\ Goto(t, "idle")
  /\ UNCHANGED <<word, arenas, owned, active, local, allocs, vector, live, i>>

(* Faulty variants of PushRetries: the link, or the word, is not redone.   *)
PushRetriesWithoutLink(t) ==
  /\ pc[t] = "push"
  /\ top[self[t][1]] # old[t]
  /\ old' = [old EXCEPT ![t] = top[self[t][1]]]
  /\ UNCHANGED <<top, word, arenas, owned, active, local, allocs, vector,
                 live, out, pc, i, job, self>>

PushRetriesStale(t) ==
  /\ pc[t] = "push"
  /\ top[self[t][1]] # old[t]
  /\ Goto(t, "link")
  /\ UNCHANGED <<top, word, arenas, owned, active, local, allocs, vector,
                 live, out, i, job, self, old>>

PushRetries(t) ==
  /\ pc[t] = "push"
  /\ top[self[t][1]] # old[t]
  /\ old' = [old EXCEPT ![t] = top[self[t][1]]]
  /\ Goto(t, "link")
  /\ UNCHANGED <<top, word, arenas, owned, active, local, allocs, vector,
                 live, out, i, job, self>>

-----------------------------------------------------------------------------
\* The steps of a call already begun.
AllocStep(t) ==
  \/ ReclaimLoads(t) \/ Madvise(t) \/ PopLocal(t) \/ PopEmpty(t)
  \/ ScanArena(t) \/ StealBatch(t)
  \/ ReuseArena(t) \/ NewArena(t)
  \/ MaxArenasReached(t) \/ ArenaMemoryFails(t) \/ VectorMemoryFails(t)
  \/ UseDangling(t)

FreeStep(t) == LinkSlot(t) \/ PushSucceeds(t) \/ PushRetries(t)

Next ==
  \E t \in Threads :
    \/ AllocSlot(t) \/ ThreadExit(t) \/ AllocStep(t)
    \/ \E h \in live : FreeSlot(t, h)
    \/ FreeStep(t)

Spec == Init /\ [][Next]_vars

(***************************************************************************)
(* A thread inside a call keeps being scheduled.                           *)
(***************************************************************************)
FairSpec == Spec /\ \A t \in Threads : WF_vars(AllocStep(t) \/ FreeStep(t))

-----------------------------------------------------------------------------
PCs == {"idle", "reclaim", "madvise", "exit", "exit_madvise", "pop", "scan",
        "steal", "link", "push", "aborted", "undefined"}

TypeOK ==
  /\ top    \in [Arenas -> Tops]
  /\ word   \in [Handles -> Handles \cup {NULL}]
  /\ arenas \in 0 .. MaxArenas
  /\ active \in [Threads -> 0 .. MaxArenas]
  /\ owned  \in [Threads -> Seq(Arenas \cup {NULL})]
  /\ \A t \in Threads : active[t] <= Capacity(t)
  /\ local  \in [Threads -> Handles \cup {NULL}]
  /\ allocs \in [Threads -> 0 .. N - 1]
  /\ vector \in [Threads -> {"valid", "dangling"}]
  /\ live   \in SUBSET Usable
  /\ pc     \in [Threads -> PCs]
  /\ i      \in [Threads -> 1 .. MaxArenas + 1]
  /\ job    \in [Threads -> Usable \cup {NULL}]
  /\ self   \in [Threads -> Handles \cup {NULL}]
  /\ old    \in [Threads -> Tops]

ActiveArenas ==
  UNION {{owned[t][k] : k \in 1 .. active[t]} : t \in Threads}

\* The slots on the list that starts at h.
Chain(h) == IF h \in Usable THEN Reach(h, word, Usable) \cap Usable ELSE {}

\* Where slots are: with the clients, in a free_slot, on a stack, on a list.
Homes ==
  {<<h, "live", NULL>> : h \in live}
    \cup {<<job[t], "push", t>> : t \in {u \in Threads : job[u] # NULL}}
    \cup (UNION {{<<h, "stack", a>> : h \in Chain(top[a].handle)} : a \in Arenas})
    \cup (UNION {{<<h, "local", t>> : h \in Chain(local[t])} : t \in Threads})

(***************************************************************************)
(* No slot is lost and none is handed out twice: each slot of an active    *)
(* arena is in exactly one place, and no slot of a reclaimed arena is      *)
(* anywhere, however pushes, steals, reclamations and exits interleave.    *)
(***************************************************************************)
EverySlotOnce ==
  LET homes == Homes IN
  \A h \in Usable :
    Cardinality({p \in homes : p[1] = h}) = IF h[1] \in ActiveArenas THEN 1 ELSE 0

(***************************************************************************)
(* The depth that free_slot counts in the upper half of top_handle is the  *)
(* number of slots on the stack; reclamation relies on it.                 *)
(***************************************************************************)
DepthIsLength ==
  \A a \in Arenas : top[a].depth = Cardinality(Chain(top[a].handle))

(***************************************************************************)
(* The depth read by reclaim_last_arena_if_empty is still true when the    *)
(* pages are dropped: all slots of the arena are on its own stack, and no  *)
(* thread is about to push one.                                            *)
(***************************************************************************)
DroppedArenaIsUnused ==
  \A t \in Threads : pc[t] \in {"madvise", "exit_madvise"} =>
    Chain(top[Last(t)].handle) = {Last(t)} \X (1 .. N - 1)

(***************************************************************************)
(* The assertion of alloc_slot: the exchange never finds an empty stack    *)
(* where the load before it found slots.                                   *)
(***************************************************************************)
StealFindsSlots == \A t \in Threads : pc[t] # "aborted"

(***************************************************************************)
(* A slot the clients have carries its own handle, although the word is    *)
(* shared with the link: exchange, compare_exchange and free_slot read it. *)
(***************************************************************************)
LiveKnowsItself == \A h \in live : word[h] = h

-----------------------------------------------------------------------------
(* The invariant of the allocator.  An arena has one place in the vectors  *)
(* of one context ...                                                      *)
ArenasOwned ==
  /\ \A t \in Threads : \A k \in 1 .. Capacity(t) :
       owned[t][k] # NULL => owned[t][k] < arenas
  /\ \A t, u \in Threads : \A k \in 1 .. Capacity(t), l \in 1 .. Capacity(u) :
       owned[t][k] # NULL /\ owned[t][k] = owned[u][l] => t = u /\ k = l
  /\ \A t \in Threads : \A k \in 1 .. active[t] : owned[t][k] # NULL

(* ... what a thread knows in the middle of a call stays true ...          *)
InCall(t) ==
  /\ pc[t] \in {"link", "push"} <=> job[t] # NULL
  /\ job[t] # NULL => self[t] = job[t]
  /\ pc[t] = "push" => word[job[t]] = old[t].handle
  /\ pc[t] \in {"scan", "steal"} => local[t] = NULL
  /\ pc[t] = "steal" => i[t] <= active[t] /\ top[owned[t][i[t]]].depth > 0
  /\ pc[t] \in {"madvise", "exit_madvise"} =>
       active[t] > 0 /\ top[Last(t)].depth = N - 1
  /\ pc[t] # "aborted"

CallState == \A t \in Threads : InCall(t)

(* ... and each slot has a kind of place, an owner if it is in a thread's  *)
(* hands, and on a list its rank, counted from the end.  The slots of a    *)
(* stack form a list as long as the depth says.                            *)
Kinds == {"none", "live", "push", "stack", "local"}

OnStack(kind, a) == {h \in Usable : kind[h] = "stack" /\ h[1] = a}

OnLocal(kind, owner, t) == {h \in Usable : kind[h] = "local" /\ owner[h] = t}

Placed(kind, owner) ==
  /\ kind  \in [Usable -> Kinds]
  /\ owner \in [Usable -> Threads \cup {NULL}]
  /\ \A h \in Usable :
       /\ kind[h] = "none" <=> h[1] \notin ActiveArenas
       /\ kind[h] = "live" <=> h \in live
       /\ kind[h] \in {"push", "local"} => owner[h] \in Threads
       /\ \A t \in Threads : kind[h] = "push" /\ owner[h] = t <=> job[t] = h

StackLinked(kind, rank, a) ==
  IF top[a].depth = 0
  THEN /\ OnStack(kind, a) = {}
       /\ top[a].handle \notin Usable
       /\ a \in ActiveArenas => top[a].handle = Sentinel(a)
  ELSE /\ IsList(OnStack(kind, a), top[a].handle, rank, word, Usable)
       /\ rank[top[a].handle] = top[a].depth

LocalLinked(kind, owner, rank, t) ==
  IF local[t] \in Usable
  THEN IsList(OnLocal(kind, owner, t), local[t], rank, word, Usable)
  ELSE OnLocal(kind, owner, t) = {}

SlotsPlaced(kind, owner, rank) ==
  /\ Placed(kind, owner)
  /\ rank \in [Usable -> Nat]
  /\ \A a \in Arenas : StackLinked(kind, rank, a)
  /\ \A t \in Threads : LocalLinked(kind, owner, rank, t)

\* Where each slot is, according to Homes.
Where ==
  LET homes == Homes IN
  [h \in Usable |-> IF \E p \in homes : p[1] = h
                    THEN CHOOSE p \in homes : p[1] = h ELSE <<h, "none", NULL>>]

(* The slots handed out and not given back are those with the clients and  *)
(* those in a free_slot, each handed out once.                             *)
InUse == live \cup {job[t] : t \in {u \in Threads : job[u] # NULL}}

OutIsInUse == out = [h \in Usable |-> IF h \in InUse THEN 1 ELSE 0]

(***************************************************************************)
(* The invariant that makes EverySlotOnce, DepthIsLength and the others    *)
(* true: an arena has one owner, what a call has read of the stacks is     *)
(* still so when it acts on it, a slot the clients have carries its own    *)
(* handle and has been handed out once, and all slots are accounted for,   *)
(* in lists whose links agree with the depths.                             *)
(***************************************************************************)
AllocatorInv ==
  /\ TypeOK /\ ArenasOwned /\ CallState /\ LiveKnowsItself /\ OutIsInUse
  /\ LET where == Where IN
     SlotsPlaced([h \in Usable |-> where[h][2]],
                 [h \in Usable |-> IF where[h][2] = "stack" THEN NULL ELSE where[h][3]],
                 [h \in Usable |-> Cardinality(Chain(h))])

(***************************************************************************)
(* A call that fails for lack of memory returns NULL and leaves the        *)
(* context as it was: its vectors can still be used.                       *)
(***************************************************************************)
FailureLeavesVectorsValid == \A t \in Threads : vector[t] = "valid"

(***************************************************************************)
(* alloc_slot and tls_destructor are wait-free: whatever the other threads *)
(* push meanwhile, neither goes on forever.  The call returns, unless it   *)
(* reads through a vector pointer that a half-failed growth has left       *)
(* dangling.                                                               *)
(***************************************************************************)
AllocReturns ==
  \A t \in Threads : []<>(pc[t] \in {"idle", "link", "push", "undefined"})

(***************************************************************************)
(* free_slot is lock-free: a push is retried forever only if the stack is  *)
(* changed by others again and again.                                      *)
(***************************************************************************)
PushLoopsOnlyUnderTraffic ==
  \A t \in Threads : <>[](job[t] # NULL) => []<><<top' # top>>_vars

\* A returned slot lies on a stack that alloc_slot scans for t; and the end of a
\* scan that found none.
Returned(t) == \E k \in 1 .. active[t] : top[owned[t][k]].depth > 0

ScansInVain(t) == pc[t] = "scan" /\ pc'[t] = "idle"

(***************************************************************************)
(* alloc_slot goes on finding returned slots, also after MAX_ARENAS has    *)
(* been reached and calls have failed: the calls of a context scan its     *)
(* arenas in vain again and again only if again and again no slot lies on  *)
(* their stacks.                                                           *)
(***************************************************************************)
ReturnedSlotIsFound ==
  \A t \in Threads : <>[]Returned(t) => ~[]<><<ScansInVain(t)>>_vars

(***************************************************************************)
(* The allocator implements the pool of version slots that the protocol of *)
(* Gate takes for granted: a pop hands out a slot that nobody has, and the *)
(* slot is given back once, by the CAS of free_slot.  A second hand-out of *)
(* a slot in use would count it twice in out, which no step of SlotPool    *)
(* does.                                                                   *)
(***************************************************************************)
Pool == INSTANCE SlotPool WITH Slots <- Usable

ImplementsPool == Pool!Spec
=============================================================================
