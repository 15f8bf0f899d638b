---------------------------- MODULE ArenaProofs -----------------------------
(***************************************************************************)
(* Proofs about Arena, for any number of contexts, arenas and slots: the   *)
(* slot allocator of atomsnap.c loses no slot, hands none out twice, drops *)
(* only unused arenas, and implements SlotPool.  First come the steps that *)
(* move at most one slot, then those that move a whole stack or arena,     *)
(* then counting, the theorems, and the refinement.                        *)
(***************************************************************************)
EXTENDS Arena, LinkedListProofs

\* The provers, in the order in which they try each step.
USE ZenonT(3), SMT, ZenonT(20), SMTT(60)

(***************************************************************************)
(* The inductive invariant: there is a way to place the slots.             *)
(***************************************************************************)
Inv ==
  /\ TypeOK /\ ArenasOwned /\ CallState /\ LiveKnowsItself
  /\ \E kind, owner, rank : SlotsPlaced(kind, owner, rank)

\* A stack as deep as its arena has slots holds all of them.
DepthCounts ==
  \A kind, owner, rank : SlotsPlaced(kind, owner, rank) =>
    \A a \in Arenas : top[a].depth = N - 1 =>
      \A h \in Usable : h[1] = a => kind[h] = "stack"

\* A context with an arena that is not active has less than MAX_ARENAS active ones.
RoomLeft ==
  \A t \in Threads : \A a \in Arenas :
    (\A k \in 1 .. active[t] : owned[t][k] # a) => active[t] < MaxArenas

-----------------------------------------------------------------------------
(* Handles and tops.                                                       *)
LEMMA HandleFacts ==
  /\ \A h \in Usable : h \in Handles /\ h[1] \in Arenas /\ h[2] \in 1 .. N - 1
  /\ \A h \in Handles : h \in Usable <=> h[2] # 0
  /\ \A a \in Arenas : /\ Sentinel(a) \in Handles /\ Sentinel(a) \notin Usable
                       /\ EmptyTop(a) \in Tops
  /\ Zero \in Handles /\ Zero \notin Usable /\ ZeroTop \in Tops
  /\ \A w \in Tops : w.depth \in 0 .. N - 1 /\ w.handle \in Handles
  /\ NULL \notin Usable
BY SizeAssumption, NullAssumption DEF Usable, Handles, Arenas, SlotIds, Sentinel,
   EmptyTop, Zero, ZeroTop, Tops

(***************************************************************************)
(* The active arenas of a context are arenas, and none of another one.     *)
(***************************************************************************)
LEMMA ActiveFacts ==
  ASSUME TypeOK, ArenasOwned, NEW t \in Threads, NEW k \in 1 .. active[t]
  PROVE  /\ k \in 1 .. Capacity(t)
         /\ owned[t][k] \in Arenas
         /\ owned[t][k] \in ActiveArenas
         /\ \A u \in Threads : \A l \in 1 .. active[u] :
              owned[u][l] = owned[t][k] => u = t /\ l = k
<1>1. \A u \in Threads : active[u] \in Nat /\ Capacity(u) \in Nat /\ active[u] <= Capacity(u)
  BY SizeAssumption DEF TypeOK, Capacity
<1>2. \A u \in Threads : \A l \in 1 .. active[u] : l \in 1 .. Capacity(u)
  BY <1>1
<1>3. owned[t][k] \in Arenas
  BY <1>2 DEF TypeOK, ArenasOwned, Capacity
<1> QED
  BY <1>2, <1>3 DEF ArenasOwned, ActiveArenas

\* The threads' vectors stay as they are.
LEMMA OwnedKept ==
  ASSUME ArenasOwned, UNCHANGED <<arenas, owned, active>>
  PROVE  ArenasOwned'
BY DEF ArenasOwned, Capacity

\* Where a slot is follows from the active arenas and the threads' calls.
LEMMA PlaceOf ==
  ASSUME NEW kind, NEW owner, NEW rank, SlotsPlaced(kind, owner, rank),
         NEW g \in Usable
  PROVE  /\ kind[g] = "none" <=> g[1] \notin ActiveArenas
         /\ kind[g] = "live" <=> g \in live
         /\ kind[g] \in {"push", "local"} => owner[g] \in Threads
         /\ \A u \in Threads : kind[g] = "push" /\ owner[g] = u <=> job[u] = g
BY DEF SlotsPlaced, Placed

\* A step that leaves these alone moves no slot.
LEMMA PlacedKept ==
  ASSUME NEW kind, NEW owner, NEW rank, SlotsPlaced(kind, owner, rank),
         ActiveArenas' = ActiveArenas, UNCHANGED <<live, job>>
  PROVE  Placed(kind, owner)'
BY DEF SlotsPlaced, Placed

\* What a thread in the middle of a call knows of its arenas.
LEMMA CallFacts ==
  ASSUME TypeOK, CallState, NEW u \in Threads
  PROVE  /\ pc[u] = "steal" => /\ local[u] = NULL /\ i[u] \in 1 .. active[u]
                               /\ top[owned[u][i[u]]].depth > 0
         /\ pc[u] \in {"madvise", "exit_madvise"} =>
              active[u] \in 1 .. active[u] /\ top[Last(u)].depth = N - 1
<1>1. InCall(u)
  BY DEF CallState
<1>2. i[u] \in 1 .. MaxArenas + 1 /\ active[u] \in 0 .. MaxArenas
  BY DEF TypeOK
<1>3. i[u] <= active[u] => i[u] \in 1 .. active[u]
  BY <1>2, SizeAssumption
<1>4. active[u] > 0 => active[u] \in 1 .. active[u]
  BY <1>2, SizeAssumption
<1> QED
  BY <1>1, <1>3, <1>4 DEF InCall

-----------------------------------------------------------------------------
(* What the operations on stacks do to lists.  A list whose elements keep  *)
(* their links and ranks stays a list.                                     *)
LEMMA ListKept ==
  ASSUME NEW nodes, NEW next, NEW next2, NEW L, NEW h, NEW rank, NEW rank2,
         IsList(L, h, rank, next, nodes),
         \A x \in L : next2[x] = next[x] /\ rank2[x] = rank[x]
  PROVE  IsList(L, h, rank2, next2, nodes)
BY DEF IsList

(***************************************************************************)
(* An element linked to the first becomes the first.                       *)
(***************************************************************************)
LEMMA ListPushed ==
  ASSUME NEW nodes, NEW next, NEW next2, NEW L, NEW h, NEW x, NEW rank, NEW rank2,
         IsList(L, h, rank, next, nodes), rank[h] \in Nat, x \notin L,
         next2[x] = h, rank2[x] = rank[h] + 1,
         \A y \in L : next2[y] = next[y] /\ rank2[y] = rank[y]
  PROVE  IsList(L \cup {x}, x, rank2, next2, nodes)
<1>1. \A y \in L : rank[y] \in 1 .. rank[h] /\ rank2[y] = rank[y] /\ rank2[y] # rank2[x]
  BY DEF IsList
<1>2. ASSUME NEW y \in L
      PROVE  /\ rank2[y] \in 1 .. rank2[x]
             /\ rank2[y] = 1 => next2[y] \notin nodes
             /\ rank2[y] > 1 => next2[y] \in L /\ rank2[next2[y]] = rank2[y] - 1
             /\ \A z \in L : rank2[y] = rank2[z] => y = z
  BY <1>1 DEF IsList
<1>3. /\ rank2[x] \in 1 .. rank2[x] /\ rank2[x] # 1
      /\ next2[x] \in L /\ rank2[next2[x]] = rank2[x] - 1
  BY <1>1 DEF IsList
<1> QED
  BY <1>1, <1>2, <1>3 DEF IsList

(***************************************************************************)
(* An element linked to no node is a list.                                 *)
(***************************************************************************)
LEMMA ListOfOne ==
  ASSUME NEW nodes, NEW next, NEW x, NEW rank, rank[x] = 1, next[x] \notin nodes
  PROVE  IsList({x}, x, rank, next, nodes)
BY DEF IsList

(***************************************************************************)
(* What follows the first element is a list, or the list ends with it.     *)
(***************************************************************************)
LEMMA ListPopped ==
  ASSUME NEW nodes, NEW next, NEW next2, NEW L, NEW h, NEW rank,
         IsList(L, h, rank, next, nodes), rank[h] \in Nat,
         \A y \in L \ {h} : next2[y] = next[y]
  PROVE  /\ rank[h] = 1 => L = {h} /\ next[h] \notin nodes
         /\ rank[h] # 1 => IsList(L \ {h}, next[h], rank, next2, nodes)
<1>1. \A y \in L : rank[y] \in 1 .. rank[h] /\ (rank[y] = rank[h] => y = h)
  BY DEF IsList
<1>2. CASE rank[h] = 1
  BY <1>1, <1>2 DEF IsList
<1>3. CASE rank[h] # 1
  <2>1. next[h] \in L \ {h} /\ rank[next[h]] = rank[h] - 1
    BY <1>1, <1>3 DEF IsList
  <2>2. ASSUME NEW y \in L \ {h}
        PROVE  /\ rank[y] \in 1 .. rank[next[h]]
               /\ rank[y] = 1 => next2[y] \notin nodes
               /\ rank[y] > 1 => next2[y] \in L \ {h} /\ rank[next2[y]] = rank[y] - 1
               /\ \A z \in L \ {h} : rank[y] = rank[z] => y = z
    <3>1. rank[y] \in 1 .. rank[h] - 1
      BY <1>1
    <3>2. rank[y] > 1 => next2[y] \in L /\ rank[next2[y]] = rank[y] - 1
      BY DEF IsList
    <3> QED
      BY <2>1, <3>1, <3>2 DEF IsList
  <2> QED
    BY <1>3, <2>1, <2>2 DEF IsList
<1> QED
  BY <1>2, <1>3

-----------------------------------------------------------------------------
(* Steps that leave the slots and the arenas where they are.               *)
LEMMA SlotsStay ==
  ASSUME NEW kind, NEW owner, NEW rank, SlotsPlaced(kind, owner, rank),
         UNCHANGED <<top, word, owned, active, local, live, job>>
  PROVE  SlotsPlaced(kind, owner, rank)'
<1>1. ActiveArenas' = ActiveArenas
  BY DEF ActiveArenas
<1>2. Placed(kind, owner)'
  BY <1>1 DEF SlotsPlaced, Placed
<1>3. \A a \in Arenas : StackLinked(kind, rank, a)'
  BY <1>1 DEF SlotsPlaced, StackLinked, OnStack
<1>4. \A u \in Threads : LocalLinked(kind, owner, rank, u)'
  BY DEF SlotsPlaced, LocalLinked, OnLocal
<1> QED
  BY <1>2, <1>3, <1>4 DEF SlotsPlaced

\* The steps that only read, or only move a thread on, keep the invariant.
LEMMA QuietInv ==
  ASSUME Inv, NEW t \in Threads,
         \/ AllocSlot(t) \/ ThreadExit(t) \/ ReclaimLoads(t)
         \/ ScanArena(t) \/ UseDangling(t) \/ PushRetries(t)
  PROVE  Inv'
<1> USE SizeAssumption
<1>1. /\ TypeOK /\ ArenasOwned /\ CallState /\ LiveKnowsItself
      /\ UNCHANGED <<top, word, arenas, owned, active, local, vector, live, job, self>>
  BY DEF Inv, AllocSlot, ThreadExit, ReclaimLoads, ScanArena, UseDangling,
     PushRetries
<1>2. allocs' \in [Threads -> 0 .. N - 1]
  <2>1. CASE AllocSlot(t)
    <3>1. (allocs[t] + 1) % N \in 0 .. N - 1
      BY <1>1 DEF TypeOK
    <3> QED
      BY <1>1, <2>1, <3>1 DEF TypeOK, AllocSlot
  <2>2. CASE allocs' = allocs
    BY <1>1, <2>2 DEF TypeOK
  <2> QED
    BY <2>1, <2>2 DEF ThreadExit, ReclaimLoads, ScanArena, UseDangling, PushRetries
<1>3. i' \in [Threads -> 1 .. MaxArenas + 1]
  <2>1. CASE ScanArena(t)
    <3>1. i[t] <= active[t] => i[t] + 1 \in 1 .. MaxArenas + 1
      BY <1>1 DEF TypeOK
    <3> QED
      BY <1>1, <2>1, <3>1 DEF TypeOK, ScanArena
  <2>2. CASE i' = i
    BY <1>1, <2>2 DEF TypeOK
  <2> QED
    BY <2>1, <2>2 DEF AllocSlot, ThreadExit, ReclaimLoads, UseDangling, PushRetries
<1>4. pc' \in [Threads -> PCs]
  BY <1>1 DEF TypeOK, PCs, Goto, AllocSlot, ThreadExit, ReclaimLoads, ScanArena,
     UseDangling, PushRetries
<1>5. old' \in [Threads -> Tops]
  <2>1. CASE PushRetries(t)
    <3>1. self[t] = job[t] /\ job[t] \in Usable
      BY <1>1, <2>1 DEF PushRetries, CallState, InCall, TypeOK
    <3>2. self[t][1] \in Arenas
      BY <3>1, HandleFacts
    <3> QED
      BY <1>1, <2>1, <3>2 DEF PushRetries, TypeOK
  <2>2. CASE old' = old
    BY <1>1, <2>2 DEF TypeOK
  <2> QED
    BY <2>1, <2>2 DEF AllocSlot, ThreadExit, ReclaimLoads, ScanArena, UseDangling
<1>6. TypeOK'
  BY <1>1, <1>2, <1>3, <1>4, <1>5 DEF TypeOK, Capacity
<1>7. ArenasOwned'
  BY <1>1, OwnedKept
<1>8. LiveKnowsItself'
  BY <1>1 DEF LiveKnowsItself
<1>9. \E kind, owner, rank : SlotsPlaced(kind, owner, rank)'
  BY <1>1, SlotsStay DEF Inv
<1>10. CallState'
  <2> SUFFICES ASSUME NEW u \in Threads
      PROVE /\ pc'[u] \in {"link", "push"} <=> job[u] # NULL
            /\ job[u] # NULL => self[u] = job[u]
            /\ pc'[u] = "push" => word[job[u]] = old'[u].handle
            /\ pc'[u] \in {"scan", "steal"} => local[u] = NULL
            /\ pc'[u] = "steal" => i'[u] <= active[u] /\ top[owned[u][i'[u]]].depth > 0
            /\ pc'[u] \in {"madvise", "exit_madvise"} =>
                 active[u] > 0 /\ top[Last(u)].depth = N - 1
            /\ pc'[u] # "aborted"
    BY <1>1 DEF CallState, InCall, Last
  <2>1. CASE u # t
    <3>1. pc'[u] = pc[u] /\ i'[u] = i[u] /\ old'[u] = old[u]
      BY <1>1, <2>1 DEF TypeOK, Goto, AllocSlot, ThreadExit, ReclaimLoads,
         ScanArena, UseDangling, PushRetries
    <3> QED
      BY <1>1, <3>1 DEF CallState, InCall
  <2>2. CASE u = t
    <3>1. CASE AllocSlot(t) \/ ThreadExit(t) \/ UseDangling(t) \/ PushRetries(t)
      <4>1. /\ pc[t] \notin {"link", "push"} => pc'[t] \in {"reclaim", "pop", "exit", "undefined"}
            /\ pc[t] \in {"link", "push"} => pc'[t] = "link"
        BY <1>1, <3>1 DEF TypeOK, Goto, AllocSlot, ThreadExit, UseDangling, PushRetries
      <4> QED
        BY <1>1, <2>2, <4>1 DEF CallState, InCall
    <3>2. CASE ReclaimLoads(t)
      <4>1. /\ pc[t] \in {"reclaim", "exit"}
            /\ pc'[t] \in {"madvise", "exit_madvise"} => LastIsFull(t)
            /\ pc'[t] \in {"madvise", "exit_madvise", "pop", "idle"}
        BY <1>1, <3>2 DEF TypeOK, Goto, ReclaimLoads
      <4> QED
        BY <1>1, <2>2, <4>1 DEF CallState, InCall, LastIsFull
    <3>3. CASE ScanArena(t)
      <4>1. /\ pc[t] = "scan" /\ pc'[t] \in {"scan", "steal"} /\ i[t] <= active[t]
            /\ i[t] \in 1 .. active[t]
            /\ pc'[t] = "steal" => /\ i'[t] = i[t]
                                   /\ top[owned[t][i[t]]].handle # Sentinel(owned[t][i[t]])
        BY <1>1, <3>3 DEF TypeOK, Goto, ScanArena
      <4>2. owned[t][i[t]] \in Arenas /\ owned[t][i[t]] \in ActiveArenas
        BY <1>1, <4>1, ActiveFacts
      <4>3. pc'[t] = "steal" => top[owned[t][i[t]]].depth # 0
        BY <4>1, <4>2 DEF Inv, SlotsPlaced, StackLinked
      <4>4. top[owned[t][i[t]]].depth \in 0 .. N - 1
        BY <1>1, <4>2, HandleFacts DEF TypeOK
      <4> QED
        BY <1>1, <2>2, <4>1, <4>3, <4>4 DEF CallState, InCall
    <3> QED
      BY <3>1, <3>2, <3>3
  <2> QED
    BY <2>1, <2>2
<1> QED
  BY <1>6, <1>7, <1>8, <1>9, <1>10 DEF Inv

(***************************************************************************)
(* alloc_slot gives up.                                                    *)
(***************************************************************************)
LEMMA FailInv ==
  ASSUME Inv, NEW t \in Threads,
         MaxArenasReached(t) \/ ArenaMemoryFails(t) \/ VectorMemoryFails(t)
  PROVE  Inv'
<1> USE SizeAssumption
<1>1. /\ TypeOK /\ ArenasOwned /\ CallState /\ LiveKnowsItself
      /\ UNCHANGED <<top, word, owned, active, local, allocs, live, i, job, self, old>>
      /\ pc[t] = "scan" /\ pc' = [pc EXCEPT ![t] = "idle"]
  BY DEF Inv, MaxArenasReached, ArenaMemoryFails, VectorMemoryFails, AllocFails,
     MustInit, Goto
<1>2. arenas' \in 0 .. MaxArenas /\ arenas <= arenas' /\ arenas \in Nat
  BY <1>1 DEF TypeOK, MaxArenasReached, ArenaMemoryFails, VectorMemoryFails
<1>3. vector' \in [Threads -> {"valid", "dangling"}]
  BY <1>1 DEF TypeOK, MaxArenasReached, ArenaMemoryFails, VectorMemoryFails
<1>4. pc' \in [Threads -> PCs]
  BY <1>1 DEF TypeOK, PCs
<1>5. TypeOK'
  BY <1>1, <1>2, <1>3, <1>4 DEF TypeOK, Capacity
<1>6. ArenasOwned'
  <2>1. \A u \in Threads : \A k \in 1 .. Capacity(u) :
          owned[u][k] # NULL => owned[u][k] < arenas'
    <3> TAKE u \in Threads
    <3> TAKE k \in 1 .. Capacity(u)
    <3>1. owned[u][k] # NULL => owned[u][k] \in Arenas /\ owned[u][k] < arenas
      BY <1>1 DEF ArenasOwned, TypeOK, Capacity
    <3> QED
      BY <1>2, <3>1 DEF Arenas
  <2> QED
    BY <1>1, <2>1 DEF ArenasOwned, Capacity
<1>7. CallState'
  BY <1>1 DEF CallState, InCall, Last, TypeOK
<1>8. LiveKnowsItself'
  BY <1>1 DEF LiveKnowsItself
<1>9. \E kind, owner, rank : SlotsPlaced(kind, owner, rank)'
  BY <1>1, SlotsStay DEF Inv
<1> QED
  BY <1>5, <1>6, <1>7, <1>8, <1>9 DEF Inv

(***************************************************************************)
(* pop_local finds the private list empty.                                 *)
(***************************************************************************)
LEMMA PopEmptyInv ==
  ASSUME Inv, NEW t \in Threads, PopEmpty(t)
  PROVE  Inv'
<1> USE SizeAssumption
<1>1. /\ TypeOK /\ ArenasOwned /\ CallState /\ LiveKnowsItself
      /\ UNCHANGED <<top, word, arenas, owned, active, allocs, vector, live, job,
                     self, old>>
      /\ local' = [local EXCEPT ![t] = NULL] /\ i' = [i EXCEPT ![t] = 1]
      /\ pc[t] = "pop" /\ pc' = [pc EXCEPT ![t] = "scan"]
  BY DEF Inv, PopEmpty, Goto
<1>2. local[t] \notin Usable
  BY HandleFacts DEF PopEmpty, IsSlot
<1>3. TypeOK'
  <2>1. i' \in [Threads -> 1 .. MaxArenas + 1] /\ pc' \in [Threads -> PCs]
    BY <1>1 DEF TypeOK, PCs
  <2>2. local' \in [Threads -> Handles \cup {NULL}]
    BY <1>1 DEF TypeOK
  <2> QED
    BY <1>1, <2>1, <2>2 DEF TypeOK, Capacity
<1>4. ArenasOwned' /\ LiveKnowsItself'
  BY <1>1, OwnedKept DEF LiveKnowsItself
<1>5. CallState'
  BY <1>1 DEF CallState, InCall, Last, TypeOK
<1>6. PICK kind, owner, rank : SlotsPlaced(kind, owner, rank)
  BY DEF Inv
<1>7. SlotsPlaced(kind, owner, rank)'
  <2>1. ActiveArenas' = ActiveArenas
    BY <1>1 DEF ActiveArenas
  <2>2. Placed(kind, owner)'
    BY <1>1, <1>6, <2>1 DEF SlotsPlaced, Placed
  <2>3. \A a \in Arenas : StackLinked(kind, rank, a)'
    BY <1>1, <1>6, <2>1 DEF SlotsPlaced, StackLinked, OnStack
  <2>4. \A u \in Threads : LocalLinked(kind, owner, rank, u)'
    BY <1>1, <1>2, <1>6, HandleFacts DEF SlotsPlaced, LocalLinked, OnLocal, TypeOK
  <2> QED
    BY <1>6, <2>2, <2>3, <2>4 DEF SlotsPlaced
<1> QED
  BY <1>3, <1>4, <1>5, <1>7 DEF Inv

(***************************************************************************)
(* A stack, or a private list, that a step leaves alone.                   *)
(***************************************************************************)
LEMMA StackKept ==
  ASSUME NEW kind, NEW kind2, NEW rank, NEW rank2, NEW a \in Arenas,
         StackLinked(kind, rank, a), OnStack(kind2, a) = OnStack(kind, a),
         top'[a] = top[a], a \in ActiveArenas' => a \in ActiveArenas,
         \A h \in OnStack(kind, a) : word'[h] = word[h] /\ rank2[h] = rank[h]
  PROVE  StackLinked(kind2, rank2, a)'
<1>1. OnStack(kind2, a)' = OnStack(kind, a)
  BY DEF OnStack
<1>2. CASE top[a].depth = 0
  BY <1>1, <1>2 DEF StackLinked
<1>3. CASE top[a].depth # 0
  <2>1. /\ IsList(OnStack(kind, a), top[a].handle, rank, word, Usable)
        /\ rank[top[a].handle] = top[a].depth
    BY <1>3 DEF StackLinked
  <2>2. IsList(OnStack(kind, a), top[a].handle, rank2, word', Usable)
    BY <2>1, ListKept
  <2>3. rank2[top[a].handle] = top[a].depth
    BY <2>1 DEF IsList
  <2> QED
    BY <1>1, <1>3, <2>2, <2>3 DEF StackLinked
<1> QED
  BY <1>2, <1>3

\* A private list whose links stay as they are stays a list.
LEMMA LocalKept ==
  ASSUME NEW kind, NEW kind2, NEW owner, NEW owner2, NEW rank, NEW rank2,
         NEW t \in Threads, LocalLinked(kind, owner, rank, t),
         OnLocal(kind2, owner2, t) = OnLocal(kind, owner, t), local'[t] = local[t],
         \A h \in OnLocal(kind, owner, t) : word'[h] = word[h] /\ rank2[h] = rank[h]
  PROVE  LocalLinked(kind2, owner2, rank2, t)'
<1>1. OnLocal(kind2, owner2, t)' = OnLocal(kind, owner, t)
  BY DEF OnLocal
<1>2. CASE local[t] \notin Usable
  BY <1>1, <1>2 DEF LocalLinked
<1>3. CASE local[t] \in Usable
  <2>1. IsList(OnLocal(kind, owner, t), local[t], rank, word, Usable)
    BY <1>3 DEF LocalLinked
  <2>2. IsList(OnLocal(kind, owner, t), local[t], rank2, word', Usable)
    BY <2>1, ListKept
  <2> QED
    BY <1>1, <1>3, <2>2 DEF LocalLinked
<1> QED
  BY <1>2, <1>3

(***************************************************************************)
(* free_slot writes the link of its slot, which is on no list.             *)
(***************************************************************************)
LEMMA LinkSlotInv ==
  ASSUME Inv, NEW t \in Threads, LinkSlot(t)
  PROVE  Inv'
<1> USE SizeAssumption
<1>1. /\ TypeOK /\ ArenasOwned /\ CallState /\ LiveKnowsItself
      /\ UNCHANGED <<top, arenas, owned, active, local, allocs, vector, live, i,
                     job, self, old>>
      /\ word' = [word EXCEPT ![job[t]] = old[t].handle]
      /\ pc[t] = "link" /\ pc' = [pc EXCEPT ![t] = "push"]
  BY DEF Inv, LinkSlot, Goto
<1>2. job[t] \in Usable /\ job[t] \in Handles /\ old[t].handle \in Handles
  BY <1>1, HandleFacts DEF CallState, InCall, TypeOK
<1>3. PICK kind, owner, rank : SlotsPlaced(kind, owner, rank)
  BY DEF Inv
<1>4. kind[job[t]] = "push" /\ owner[job[t]] = t
  BY <1>2, <1>3 DEF SlotsPlaced, Placed
<1>5. TypeOK'
  <2>1. word' \in [Handles -> Handles \cup {NULL}] /\ pc' \in [Threads -> PCs]
    BY <1>1, <1>2 DEF TypeOK, PCs
  <2> QED
    BY <1>1, <2>1 DEF TypeOK, Capacity
<1>6. ArenasOwned'
  BY <1>1, OwnedKept
<1>7. \A h \in Usable : kind[h] # "push" => word'[h] = word[h]
  BY <1>1, <1>2, <1>4, HandleFacts DEF TypeOK
<1>8. LiveKnowsItself'
  <2>1. \A h \in live : h \in Usable /\ kind[h] = "live"
    BY <1>1, <1>3 DEF TypeOK, SlotsPlaced, Placed
  <2> QED
    BY <1>1, <1>7, <2>1 DEF LiveKnowsItself
<1>9. CallState'
  <2> SUFFICES ASSUME NEW u \in Threads PROVE InCall(u)'
    BY DEF CallState
  <2>1. CASE u = t
    BY <1>1, <1>2, <2>1, HandleFacts DEF CallState, InCall, Last, TypeOK
  <2>2. CASE u # t
    <3>1. pc[u] = "push" => job[u] \in Usable /\ job[u] # job[t]
      <4>1. pc[u] = "push" => job[u] \in Usable
        BY <1>1 DEF CallState, InCall, TypeOK
      <4> QED
        BY <1>2, <1>3, <1>4, <2>2, <4>1, PlaceOf
    <3>2. pc[u] = "push" => word'[job[u]] = word[job[u]]
      BY <1>1, <3>1, HandleFacts DEF TypeOK
    <3>3. pc'[u] = pc[u]
      BY <1>1, <2>2 DEF TypeOK
    <3> QED
      BY <1>1, <3>2, <3>3 DEF CallState, InCall, Last
  <2> QED
    BY <2>1, <2>2
<1>10. SlotsPlaced(kind, owner, rank)'
  <2>1. ActiveArenas' = ActiveArenas
    BY <1>1 DEF ActiveArenas
  <2>2. Placed(kind, owner)'
    BY <1>1, <1>3, <2>1, PlacedKept
  <2>3. \A a \in Arenas : StackLinked(kind, rank, a)'
    <3> TAKE a \in Arenas
    <3>1. \A h \in OnStack(kind, a) : word'[h] = word[h]
      BY <1>7 DEF OnStack
    <3> QED
      BY <1>1, <1>3, <2>1, <3>1, StackKept DEF SlotsPlaced
  <2>4. \A u \in Threads : LocalLinked(kind, owner, rank, u)'
    <3> TAKE u \in Threads
    <3>1. \A h \in OnLocal(kind, owner, u) : word'[h] = word[h]
      BY <1>7 DEF OnLocal
    <3> QED
      BY <1>1, <1>3, <3>1, LocalKept DEF SlotsPlaced
  <2> QED
    BY <1>3, <2>2, <2>3, <2>4 DEF SlotsPlaced
<1> QED
  BY <1>5, <1>6, <1>8, <1>9, <1>10 DEF Inv

(***************************************************************************)
(* free_slot takes the slot out of the client's hands.                     *)
(***************************************************************************)
LEMMA FreeSlotInv ==
  ASSUME Inv, NEW t \in Threads, NEW h \in live, FreeSlot(t, h)
  PROVE  Inv'
<1> USE SizeAssumption
<1>1. /\ TypeOK /\ ArenasOwned /\ CallState /\ LiveKnowsItself
      /\ UNCHANGED <<top, word, arenas, owned, active, local, allocs, vector, i>>
      /\ live' = live \ {h} /\ job' = [job EXCEPT ![t] = h]
      /\ self' = [self EXCEPT ![t] = word[h]]
      /\ old' = [old EXCEPT ![t] = top[word[h][1]]]
      /\ pc[t] = "idle" /\ pc' = [pc EXCEPT ![t] = "link"]
  BY DEF Inv, FreeSlot, Goto
<1>2. h \in Usable /\ h \in Handles /\ h[1] \in Arenas /\ word[h] = h /\ h # NULL
  BY <1>1, HandleFacts DEF TypeOK, LiveKnowsItself
<1>3. PICK kind, owner, rank : SlotsPlaced(kind, owner, rank)
  BY DEF Inv
<1>4. kind[h] = "live" /\ job[t] = NULL
  BY <1>1, <1>2, <1>3 DEF SlotsPlaced, Placed, CallState, InCall
<1>5. TypeOK'
  <2>1. /\ live' \in SUBSET Usable /\ job' \in [Threads -> Usable \cup {NULL}]
        /\ self' \in [Threads -> Handles \cup {NULL}]
    BY <1>1, <1>2 DEF TypeOK
  <2>2. old' \in [Threads -> Tops] /\ pc' \in [Threads -> PCs]
    BY <1>1, <1>2 DEF TypeOK, PCs
  <2> QED
    BY <1>1, <2>1, <2>2 DEF TypeOK, Capacity
<1>6. ArenasOwned' /\ LiveKnowsItself'
  BY <1>1, OwnedKept DEF LiveKnowsItself
<1>7. CallState'
  <2> SUFFICES ASSUME NEW u \in Threads PROVE InCall(u)'
    BY DEF CallState
  <2>1. CASE u = t
    BY <1>1, <1>2, <2>1 DEF InCall, TypeOK
  <2>2. CASE u # t
    <3>1. pc'[u] = pc[u] /\ job'[u] = job[u] /\ self'[u] = self[u] /\ old'[u] = old[u]
      BY <1>1, <2>2 DEF TypeOK
    <3> QED
      BY <1>1, <3>1 DEF CallState, InCall, Last
  <2> QED
    BY <2>1, <2>2
<1>8. PICK kind2 : kind2 = [kind EXCEPT ![h] = "push"]
  OBVIOUS
<1>9. PICK owner2 : owner2 = [owner EXCEPT ![h] = t]
  OBVIOUS
<1>10. /\ kind2[h] = "push" /\ owner2[h] = t
       /\ \A g \in Usable : g # h => kind2[g] = kind[g] /\ owner2[g] = owner[g]
  BY <1>2, <1>3, <1>8, <1>9 DEF SlotsPlaced, Placed
<1>11. SlotsPlaced(kind2, owner2, rank)'
  <2>1. ActiveArenas' = ActiveArenas
    BY <1>1 DEF ActiveArenas
  <2>2. Placed(kind2, owner2)'
    <3>1. kind2 \in [Usable -> Kinds] /\ owner2 \in [Usable -> Threads \cup {NULL}]
      BY <1>2, <1>3, <1>8, <1>9 DEF SlotsPlaced, Placed, Kinds
    <3>2. ASSUME NEW g \in Usable
          PROVE  /\ kind2[g] = "none" <=> g[1] \notin ActiveArenas'
                 /\ kind2[g] = "live" <=> g \in live'
                 /\ kind2[g] \in {"push", "local"} => owner2[g] \in Threads
                 /\ \A u \in Threads : kind2[g] = "push" /\ owner2[g] = u <=> job'[u] = g
      <4>1. CASE g = h
        BY <1>1, <1>2, <1>3, <1>4, <1>10, <2>1, <4>1 DEF SlotsPlaced, Placed, TypeOK
      <4>2. CASE g # h
        <5>1. g \in live' <=> g \in live
          BY <1>1, <4>2
        <5>2. \A u \in Threads : job'[u] = g <=> job[u] = g
          BY <1>1, <1>4, <4>2, HandleFacts DEF TypeOK
        <5> QED
          BY <1>3, <1>10, <2>1, <4>2, <5>1, <5>2, PlaceOf
      <4> QED
        BY <4>1, <4>2
    <3> QED
      BY <3>1, <3>2 DEF Placed
  <2>3. \A a \in Arenas : StackLinked(kind2, rank, a)'
    <3> TAKE a \in Arenas
    <3>1. OnStack(kind2, a) = OnStack(kind, a)
      BY <1>4, <1>10 DEF OnStack
    <3> QED
      BY <1>1, <1>3, <2>1, <3>1, StackKept DEF SlotsPlaced
  <2>4. \A u \in Threads : LocalLinked(kind2, owner2, rank, u)'
    <3> TAKE u \in Threads
    <3>1. OnLocal(kind2, owner2, u) = OnLocal(kind, owner, u)
      BY <1>4, <1>10 DEF OnLocal
    <3> QED
      BY <1>1, <1>3, <3>1, LocalKept DEF SlotsPlaced
  <2> QED
    BY <1>3, <2>2, <2>3, <2>4 DEF SlotsPlaced
<1> QED
  BY <1>5, <1>6, <1>7, <1>11 DEF Inv

(***************************************************************************)
(* The CAS of free_slot finds the top that the slot is linked to: the slot *)
(* joins the stack of its arena.                                           *)
(***************************************************************************)
LEMMA PushSucceedsInv ==
  ASSUME Inv, DepthCounts, NEW t \in Threads, PushSucceeds(t)
  PROVE  Inv'
<1> USE SizeAssumption
<1>0. TypeOK /\ ArenasOwned /\ CallState /\ LiveKnowsItself
  BY DEF Inv
<1>1. PICK h \in Usable : h = job[t]
  BY <1>0 DEF PushSucceeds, CallState, InCall, TypeOK
<1>2. PICK a \in Arenas : a = h[1]
  BY HandleFacts
<1>3. PICK d : d = top[a].depth
  OBVIOUS
<1>4. /\ UNCHANGED <<word, arenas, owned, active, local, allocs, vector, live, i>>
      /\ top' = [top EXCEPT ![a] = [depth |-> d + 1, handle |-> h]]
      /\ job' = [job EXCEPT ![t] = NULL]
      /\ self' = [self EXCEPT ![t] = NULL]
      /\ old' = [old EXCEPT ![t] = ZeroTop]
      /\ pc[t] = "push" /\ pc' = [pc EXCEPT ![t] = "idle"]
      /\ word[h] = top[a].handle
  <2>1. pc[t] = "push" /\ self[t] = h /\ word[h] = old[t].handle
    BY <1>0, <1>1, HandleFacts DEF PushSucceeds, CallState, InCall
  <2>2. top[a] = old[t] /\ top' = [top EXCEPT ![a] = Pushed(old[t], h)]
    BY <1>2, <2>1 DEF PushSucceeds
  <2> QED
    BY <1>3, <2>1, <2>2 DEF PushSucceeds, Pushed, Goto
<1>5. PICK kind, owner, rank : SlotsPlaced(kind, owner, rank)
  BY DEF Inv
<1>6. /\ kind[h] = "push" /\ owner[h] = t
      /\ \A u \in Threads : job[u] = h => u = t
  BY <1>1, <1>5 DEF SlotsPlaced, Placed
<1>7. d \in 0 .. N - 2 /\ d + 1 \in 1 .. N - 1
  <2>1. d \in 0 .. N - 1
    BY <1>0, <1>3, HandleFacts DEF TypeOK
  <2>2. d # N - 1
    BY <1>2, <1>3, <1>5, <1>6 DEF DepthCounts
  <2> QED
    BY <2>1, <2>2
<1>8. TypeOK'
  <2>1. [depth |-> d + 1, handle |-> h] \in Tops
    BY <1>7, HandleFacts DEF Tops
  <2>2. top' \in [Arenas -> Tops]
    BY <1>0, <1>4, <2>1 DEF TypeOK
  <2>3. /\ job' \in [Threads -> Usable \cup {NULL}]
        /\ self' \in [Threads -> Handles \cup {NULL}]
        /\ old' \in [Threads -> Tops] /\ pc' \in [Threads -> PCs]
    BY <1>0, <1>4, HandleFacts DEF TypeOK, PCs
  <2> QED
    BY <1>0, <1>4, <2>2, <2>3 DEF TypeOK, Capacity
<1>9. ArenasOwned' /\ LiveKnowsItself'
  BY <1>0, <1>4, OwnedKept DEF LiveKnowsItself
<1>10. /\ top'[a].depth = d + 1 /\ top'[a].handle = h
       /\ \A b \in Arenas : b # a => top'[b] = top[b]
  BY <1>0, <1>4 DEF TypeOK
<1>11. CallState'
  <2> SUFFICES ASSUME NEW u \in Threads PROVE InCall(u)'
    BY DEF CallState
  <2>1. CASE u = t
    BY <1>0, <1>4, <2>1 DEF InCall, TypeOK
  <2>2. CASE u # t
    <3>1. pc'[u] = pc[u] /\ job'[u] = job[u] /\ self'[u] = self[u] /\ old'[u] = old[u]
      BY <1>0, <1>4, <2>2 DEF TypeOK
    <3>2. UNCHANGED <<word, i, local, owned, active>> /\ InCall(u)
      BY <1>0, <1>4 DEF CallState
    <3>3. pc[u] = "steal" => top'[owned[u][i[u]]].depth > 0
      <4>1. CASE pc[u] = "steal"
        <5>1. i[u] \in 1 .. active[u] /\ top[owned[u][i[u]]].depth > 0
          BY <1>0, <4>1, CallFacts
        <5>2. PICK b \in Arenas : b = owned[u][i[u]]
          BY <1>0, <5>1, ActiveFacts
        <5>3. d + 1 > 0
          BY <1>7
        <5> QED
          BY <1>10, <5>1, <5>2, <5>3
      <4> QED
        BY <4>1
    <3>4. pc[u] \in {"madvise", "exit_madvise"} => top'[Last(u)] = top[Last(u)]
      <4>1. CASE pc[u] \in {"madvise", "exit_madvise"}
        <5>1. active[u] \in 1 .. active[u]
          BY <1>0, <4>1, CallFacts
        <5>2. top[Last(u)].depth = N - 1 /\ Last(u) \in Arenas
          BY <1>0, <4>1, <5>1, ActiveFacts, CallFacts DEF Last
        <5>3. Last(u) # a
          BY <1>3, <1>7, <5>2
        <5> QED
          BY <1>10, <5>2, <5>3
      <4> QED
        BY <4>1
    <3> QED
      BY <3>1, <3>2, <3>3, <3>4 DEF InCall, Last
  <2> QED
    BY <2>1, <2>2
<1>12. PICK kind2 : kind2 = [kind EXCEPT ![h] = "stack"]
  OBVIOUS
<1>13. PICK rank2 : rank2 = [rank EXCEPT ![h] = d + 1]
  OBVIOUS
<1>14. /\ kind2[h] = "stack" /\ rank2[h] = d + 1
       /\ \A g \in Usable : g # h => kind2[g] = kind[g] /\ rank2[g] = rank[g]
  BY <1>5, <1>12, <1>13 DEF SlotsPlaced, Placed
<1>15. SlotsPlaced(kind2, owner, rank2)'
  <2>1. ActiveArenas' = ActiveArenas
    BY <1>4 DEF ActiveArenas
  <2>2. Placed(kind2, owner)'
    <3>1. kind2 \in [Usable -> Kinds] /\ owner \in [Usable -> Threads \cup {NULL}]
      BY <1>5, <1>12 DEF SlotsPlaced, Placed, Kinds
    <3>2. ASSUME NEW g \in Usable
          PROVE  /\ kind2[g] = "none" <=> g[1] \notin ActiveArenas'
                 /\ kind2[g] = "live" <=> g \in live'
                 /\ kind2[g] \in {"push", "local"} => owner[g] \in Threads
                 /\ \A u \in Threads : kind2[g] = "push" /\ owner[g] = u <=> job'[u] = g
      <4>0. /\ live' = live /\ g # NULL /\ job'[t] = NULL /\ job[t] = h
            /\ \A u \in Threads : u # t => job'[u] = job[u]
        BY <1>0, <1>1, <1>4, HandleFacts DEF TypeOK
      <4>1. CASE g = h
        BY <1>5, <1>6, <1>14, <2>1, <4>0, <4>1 DEF SlotsPlaced, Placed
      <4>2. CASE g # h
        BY <1>5, <1>14, <2>1, <4>0, <4>2 DEF SlotsPlaced, Placed
      <4> QED
        BY <4>1, <4>2
    <3> QED
      BY <3>1, <3>2 DEF Placed
  <2>3. \A b \in Arenas : StackLinked(kind2, rank2, b)'
    <3> TAKE b \in Arenas
    <3>1. CASE b # a
      <4>1. OnStack(kind2, b) = OnStack(kind, b)
        BY <1>2, <1>6, <1>14, <3>1 DEF OnStack
      <4>2. \A g \in OnStack(kind, b) : rank2[g] = rank[g]
        BY <1>6, <1>14 DEF OnStack
      <4> QED
        BY <1>4, <1>5, <1>10, <2>1, <3>1, <4>1, <4>2, StackKept DEF SlotsPlaced
    <3>2. CASE b = a
      <4>1. OnStack(kind2, a)' = OnStack(kind, a) \cup {h} /\ h \notin OnStack(kind, a)
        BY <1>2, <1>6, <1>14 DEF OnStack
      <4>2. \A g \in OnStack(kind, a) : rank2[g] = rank[g]
        BY <1>6, <1>14 DEF OnStack
      <4>3. IsList(OnStack(kind, a) \cup {h}, h, rank2, word, Usable)
        <5>1. CASE d = 0
          <6>1. OnStack(kind, a) = {} /\ top[a].handle \notin Usable
            BY <1>3, <1>5, <5>1 DEF SlotsPlaced, StackLinked
          <6> QED
            BY <1>4, <1>14, <5>1, <6>1, ListOfOne
        <5>2. CASE d # 0
          <6>1. /\ IsList(OnStack(kind, a), top[a].handle, rank, word, Usable)
                /\ rank[top[a].handle] = d
            BY <1>3, <1>5, <5>2 DEF SlotsPlaced, StackLinked
          <6>2. d \in Nat /\ rank2[h] = d + 1
            BY <1>7, <1>14
          <6>3. PICK l : l = top[a].handle
            OBVIOUS
          <6>4. /\ IsList(OnStack(kind, a), l, rank, word, Usable)
                /\ rank[l] \in Nat /\ rank2[h] = rank[l] + 1 /\ word[h] = l
            BY <1>4, <6>1, <6>2, <6>3
          <6> QED
            BY <4>1, <4>2, <6>4, ListPushed
        <5> QED
          BY <5>1, <5>2
      <4> QED
        BY <1>4, <1>7, <1>10, <1>14, <3>2, <4>1, <4>3 DEF StackLinked
    <3> QED
      BY <3>1, <3>2
  <2>4. \A u \in Threads : LocalLinked(kind2, owner, rank2, u)'
    <3> TAKE u \in Threads
    <3>1. OnLocal(kind2, owner, u) = OnLocal(kind, owner, u)
      BY <1>6, <1>14 DEF OnLocal
    <3>2. \A g \in OnLocal(kind, owner, u) : rank2[g] = rank[g]
      BY <1>6, <1>14 DEF OnLocal
    <3> QED
      BY <1>4, <1>5, <3>1, <3>2, LocalKept DEF SlotsPlaced
  <2>5. rank2 \in [Usable -> Nat]
    BY <1>5, <1>7, <1>13 DEF SlotsPlaced
  <2> QED
    BY <2>2, <2>3, <2>4, <2>5 DEF SlotsPlaced
<1> QED
  BY <1>8, <1>9, <1>11, <1>15 DEF Inv

-----------------------------------------------------------------------------
(* Steps of alloc_slot that hand out a slot.  The other threads' calls do  *)
(* not notice a step that changes nothing of their arenas and slots.       *)
LEMMA OthersInCall ==
  ASSUME TypeOK, CallState, NEW u \in Threads,
         UNCHANGED <<job, self, old, i>>,
         pc'[u] = pc[u], local'[u] = local[u],
         owned'[u] = owned[u], active'[u] = active[u],
         job[u] # NULL => word'[job[u]] = word[job[u]],
         \A k \in 1 .. active[u] : top'[owned[u][k]] = top[owned[u][k]]
  PROVE  InCall(u)'
<1>1. InCall(u)
  BY DEF CallState
<1>2. pc[u] = "steal" => top'[owned[u][i[u]]] = top[owned[u][i[u]]]
  BY CallFacts
<1>3. pc[u] \in {"madvise", "exit_madvise"} =>
        top'[owned[u][active[u]]] = top[owned[u][active[u]]]
  BY CallFacts
<1> QED
  BY <1>1, <1>2, <1>3 DEF InCall, Last

(***************************************************************************)
(* What pop_local leaves of the list with first slot h.                    *)
(***************************************************************************)
LEMMA RestOfList ==
  ASSUME TypeOK, NEW t \in Threads, NEW h \in Usable,
         NEW w \in [Handles -> Handles \cup {NULL}], NEW L \in SUBSET Usable,
         NEW rank, rank[h] \in Nat, IsList(L, h, rank, w, Usable),
         local' = [local EXCEPT ![t] = w[h]], word' = [w EXCEPT ![h] = h],
         NEW kind, NEW owner, OnLocal(kind, owner, t) = L \ {h}
  PROVE  LocalLinked(kind, owner, rank, t)'
<1>1. OnLocal(kind, owner, t)' = L \ {h} /\ local'[t] = w[h]
  BY DEF OnLocal, TypeOK
<1>2. \A y \in L \ {h} : word'[y] = w[y]
  BY HandleFacts
<1>3. CASE rank[h] = 1
  BY <1>1, <1>2, <1>3, ListPopped DEF LocalLinked
<1>4. CASE rank[h] # 1
  <2>1. IsList(L \ {h}, w[h], rank, word', Usable)
    BY <1>2, <1>4, ListPopped
  <2>2. w[h] \in Usable
    BY <2>1 DEF IsList
  <2> QED
    BY <1>1, <2>1, <2>2 DEF LocalLinked
<1> QED
  BY <1>3, <1>4

(***************************************************************************)
(* pop_local, with a slot in the private list.                             *)
(***************************************************************************)
LEMMA PopLocalInv ==
  ASSUME Inv, NEW t \in Threads, PopLocal(t)
  PROVE  Inv'
<1> USE SizeAssumption
<1>0. TypeOK /\ ArenasOwned /\ CallState /\ LiveKnowsItself
  BY DEF Inv
<1>1. PICK h \in Usable : h = local[t]
  BY <1>0, HandleFacts DEF PopLocal, IsSlot, TypeOK
<1>2. /\ UNCHANGED <<top, arenas, owned, active, allocs, vector, i, job, self, old>>
      /\ local' = [local EXCEPT ![t] = word[h]]
      /\ word' = [word EXCEPT ![h] = h] /\ live' = live \cup {h}
      /\ pc[t] = "pop" /\ pc' = [pc EXCEPT ![t] = "idle"]
  BY <1>1 DEF PopLocal, Pop, Goto
<1>3. PICK kind, owner, rank : SlotsPlaced(kind, owner, rank)
  BY DEF Inv
<1>4. /\ IsList(OnLocal(kind, owner, t), h, rank, word, Usable)
      /\ h \in OnLocal(kind, owner, t) /\ rank[h] \in Nat
  BY <1>1, <1>3 DEF SlotsPlaced, LocalLinked, IsList
<1>5. kind[h] = "local" /\ owner[h] = t
  BY <1>4 DEF OnLocal
<1>6. h \in Handles /\ \A g \in Usable : g # h => word'[g] = word[g]
  BY <1>0, <1>2, HandleFacts DEF TypeOK
<1>7. TypeOK'
  <2>1. /\ local' \in [Threads -> Handles \cup {NULL}]
        /\ word' \in [Handles -> Handles \cup {NULL}]
    BY <1>0, <1>2, <1>6 DEF TypeOK
  <2>2. live' \in SUBSET Usable /\ pc' \in [Threads -> PCs]
    BY <1>0, <1>2 DEF TypeOK, PCs
  <2> QED
    BY <1>0, <1>2, <2>1, <2>2 DEF TypeOK, Capacity
<1>8. ArenasOwned'
  BY <1>0, <1>2, OwnedKept
<1>9. LiveKnowsItself'
  BY <1>0, <1>2, <1>6 DEF LiveKnowsItself, TypeOK
<1>10. CallState'
  <2> SUFFICES ASSUME NEW u \in Threads PROVE InCall(u)'
    BY DEF CallState
  <2>1. CASE u = t
    BY <1>0, <1>2, <2>1 DEF CallState, InCall, TypeOK
  <2>2. CASE u # t
    <3>1. pc'[u] = pc[u] /\ local'[u] = local[u]
      BY <1>0, <1>2, <2>2 DEF TypeOK
    <3>2. job[u] # NULL => job[u] \in Usable /\ job[u] # h
      BY <1>0, <1>3, <1>5 DEF TypeOK, SlotsPlaced, Placed
    <3>3. job[u] # NULL => word'[job[u]] = word[job[u]]
      BY <1>6, <3>2
    <3> QED
      BY <1>0, <1>2, <3>1, <3>3, OthersInCall
  <2> QED
    BY <2>1, <2>2
<1>11. PICK kind2 : kind2 = [kind EXCEPT ![h] = "live"]
  OBVIOUS
<1>12. kind2[h] = "live" /\ \A g \in Usable : g # h => kind2[g] = kind[g]
  BY <1>3, <1>11 DEF SlotsPlaced, Placed
<1>13. SlotsPlaced(kind2, owner, rank)'
  <2>1. ActiveArenas' = ActiveArenas
    BY <1>2 DEF ActiveArenas
  <2>2. Placed(kind2, owner)'
    <3>1. kind2 \in [Usable -> Kinds]
      BY <1>3, <1>11 DEF SlotsPlaced, Placed, Kinds
    <3> QED
      BY <1>2, <1>3, <1>5, <1>12, <2>1, <3>1 DEF SlotsPlaced, Placed
  <2>3. \A a \in Arenas : StackLinked(kind2, rank, a)'
    <3> TAKE a \in Arenas
    <3>1. OnStack(kind2, a) = OnStack(kind, a)
      BY <1>5, <1>12 DEF OnStack
    <3>2. \A g \in OnStack(kind, a) : word'[g] = word[g]
      BY <1>5, <1>6 DEF OnStack
    <3> QED
      BY <1>2, <1>3, <2>1, <3>1, <3>2, StackKept DEF SlotsPlaced
  <2>4. \A u \in Threads : LocalLinked(kind2, owner, rank, u)'
    <3> TAKE u \in Threads
    <3>1. CASE u # t
      <4>1. OnLocal(kind2, owner, u) = OnLocal(kind, owner, u)
        BY <1>5, <1>12, <3>1 DEF OnLocal
      <4>2. \A g \in OnLocal(kind, owner, u) : word'[g] = word[g]
        BY <1>5, <1>6, <3>1 DEF OnLocal
      <4>3. local'[u] = local[u]
        BY <1>0, <1>2, <3>1 DEF TypeOK
      <4> QED
        BY <1>3, <4>1, <4>2, <4>3, LocalKept DEF SlotsPlaced
    <3>2. CASE u = t
      <4>1. OnLocal(kind2, owner, t) = OnLocal(kind, owner, t) \ {h}
        BY <1>12 DEF OnLocal
      <4>2. OnLocal(kind, owner, t) \in SUBSET Usable
        BY DEF OnLocal
      <4>3. word \in [Handles -> Handles \cup {NULL}]
        BY <1>0 DEF TypeOK
      <4> QED
        BY <1>0, <1>2, <1>4, <3>2, <4>1, <4>2, <4>3, RestOfList
    <3> QED
      BY <3>1, <3>2
  <2> QED
    BY <1>3, <2>2, <2>3, <2>4 DEF SlotsPlaced
<1> QED
  BY <1>7, <1>8, <1>9, <1>10, <1>13 DEF Inv

(***************************************************************************)
(* A thread about to exchange a stack's head looks at one of its own       *)
(* active arenas, whose stack is not empty, and has no private slot left.  *)
(***************************************************************************)
LEMMA StealSource ==
  ASSUME TypeOK, ArenasOwned, CallState, NEW t \in Threads, pc[t] = "steal"
  PROVE  /\ i[t] \in 1 .. active[t] /\ owned[t][i[t]] \in Arenas
         /\ top[owned[t][i[t]]].depth > 0 /\ local[t] = NULL
<1>1. /\ local[t] = NULL /\ i[t] \in 1 .. active[t]
      /\ top[owned[t][i[t]]].depth > 0
  BY CallFacts
<1> QED
  BY <1>1, ActiveFacts

(***************************************************************************)
(* A stack that is not empty is a list.                                    *)
(***************************************************************************)
LEMMA DeepStack ==
  ASSUME NEW kind, NEW owner, NEW rank, SlotsPlaced(kind, owner, rank),
         NEW a \in Arenas, top[a].depth > 0
  PROVE  /\ IsList(OnStack(kind, a), top[a].handle, rank, word, Usable)
         /\ top[a].handle \in OnStack(kind, a)
<1>1. StackLinked(kind, rank, a) /\ top[a].depth # 0
  BY DEF SlotsPlaced
<1>2. IsList(OnStack(kind, a), top[a].handle, rank, word, Usable)
  BY <1>1 DEF StackLinked
<1> QED
  BY <1>2 DEF IsList

-----------------------------------------------------------------------------
(***************************************************************************)
(* The exchange takes a stack that cannot have become empty since it was   *)
(* looked at: all of it but the first slot becomes the private list.       *)
(***************************************************************************)
LEMMA StealBatchInv ==
  ASSUME Inv, NEW t \in Threads, StealBatch(t)
  PROVE  Inv'
<1> USE SizeAssumption
<1>0. /\ TypeOK /\ ArenasOwned /\ CallState /\ LiveKnowsItself
      /\ pc[t] = "steal" /\ i[t] \in 1 .. active[t] /\ local[t] = NULL
      /\ top[owned[t][i[t]]].depth > 0
  <2>1. TypeOK /\ ArenasOwned /\ CallState /\ LiveKnowsItself /\ pc[t] = "steal"
    BY DEF Inv, StealBatch
  <2> QED
    BY <2>1, StealSource
<1>1. PICK a \in Arenas : a = owned[t][i[t]]
  BY <1>0, StealSource
<1>2. PICK kind, owner, rank : SlotsPlaced(kind, owner, rank)
  BY DEF Inv
<1>3. /\ IsList(OnStack(kind, a), top[a].handle, rank, word, Usable)
      /\ top[a].handle \in OnStack(kind, a)
  BY <1>0, <1>1, <1>2, DeepStack
<1>4. PICK h \in Usable : h = top[a].handle
  BY <1>3 DEF OnStack
<1>5. kind[h] = "stack" /\ h[1] = a /\ rank[h] \in Nat
  BY <1>2, <1>3, <1>4 DEF OnStack, SlotsPlaced
<1>6. /\ UNCHANGED <<arenas, owned, active, allocs, vector, i, job, self, old>>
      /\ top' = [top EXCEPT ![a] = EmptyTop(a)]
      /\ local' = [local EXCEPT ![t] = word[h]]
      /\ word' = [word EXCEPT ![h] = h] /\ live' = live \cup {h}
      /\ pc' = [pc EXCEPT ![t] = "idle"]
  <2>1. top[a].handle # Sentinel(a)
    BY <1>4, HandleFacts
  <2> QED
    BY <1>1, <1>4, <2>1 DEF StealBatch, Pop, Goto
<1>7. h \in Handles /\ \A g \in Usable : g # h => word'[g] = word[g]
  BY <1>0, <1>6, HandleFacts DEF TypeOK
<1>8. TypeOK'
  <2>1. /\ local' \in [Threads -> Handles \cup {NULL}]
        /\ word' \in [Handles -> Handles \cup {NULL}]
    BY <1>0, <1>6, <1>7 DEF TypeOK
  <2>2. live' \in SUBSET Usable /\ pc' \in [Threads -> PCs]
    BY <1>0, <1>6 DEF TypeOK, PCs
  <2>3. top' \in [Arenas -> Tops]
    BY <1>0, <1>6, HandleFacts DEF TypeOK
  <2> QED
    BY <1>0, <1>6, <2>1, <2>2, <2>3 DEF TypeOK, Capacity
<1>9. ArenasOwned'
  BY <1>0, <1>6, OwnedKept
<1>10. LiveKnowsItself'
  BY <1>0, <1>6, <1>7 DEF LiveKnowsItself, TypeOK
<1>11. \A b \in Arenas : b # a => top'[b] = top[b]
  BY <1>0, <1>6 DEF TypeOK
<1>12. CallState'
  <2> SUFFICES ASSUME NEW u \in Threads PROVE InCall(u)'
    BY DEF CallState
  <2>1. CASE u = t
    BY <1>0, <1>6, <2>1 DEF CallState, InCall, TypeOK
  <2>2. CASE u # t
    <3>1. pc'[u] = pc[u] /\ local'[u] = local[u]
      BY <1>0, <1>6, <2>2 DEF TypeOK
    <3>2. job[u] # NULL => job[u] \in Usable /\ job[u] # h
      BY <1>0, <1>2, <1>5 DEF TypeOK, SlotsPlaced, Placed
    <3>3. job[u] # NULL => word'[job[u]] = word[job[u]]
      BY <1>7, <3>2
    <3>4. \A k \in 1 .. active[u] : owned[u][k] \in Arenas /\ owned[u][k] # a
      BY <1>0, <1>1, <2>2, ActiveFacts
    <3>5. \A k \in 1 .. active[u] : top'[owned[u][k]] = top[owned[u][k]]
      BY <1>11, <3>4
    <3> QED
      BY <1>0, <1>6, <3>1, <3>3, <3>5, OthersInCall
  <2> QED
    BY <2>1, <2>2
<1>13. PICK kind2 : kind2 = [g \in Usable |->
                      IF g = h THEN "live"
                      ELSE IF kind[g] = "stack" /\ g[1] = a THEN "local" ELSE kind[g]]
  OBVIOUS
<1>14. PICK owner2 : owner2 = [g \in Usable |->
                      IF kind[g] = "stack" /\ g[1] = a THEN t ELSE owner[g]]
  OBVIOUS
<1>15. SlotsPlaced(kind2, owner2, rank)'
  <2>1. ActiveArenas' = ActiveArenas
    BY <1>6 DEF ActiveArenas
  <2>2. Placed(kind2, owner2)'
    <3>1. kind2 \in [Usable -> Kinds] /\ owner2 \in [Usable -> Threads \cup {NULL}]
      BY <1>2, <1>13, <1>14 DEF SlotsPlaced, Placed, Kinds
    <3>2. ASSUME NEW g \in Usable
          PROVE  /\ kind2[g] = "none" <=> g[1] \notin ActiveArenas'
                 /\ kind2[g] = "live" <=> g \in live'
                 /\ kind2[g] \in {"push", "local"} => owner2[g] \in Threads
                 /\ \A u \in Threads : kind2[g] = "push" /\ owner2[g] = u <=> job'[u] = g
      <4>1. CASE kind[g] = "stack" /\ g[1] = a
        BY <1>2, <1>5, <1>6, <1>13, <1>14, <2>1, <4>1 DEF SlotsPlaced, Placed
      <4>2. CASE ~(kind[g] = "stack" /\ g[1] = a)
        <5>1. kind2[g] = kind[g] /\ owner2[g] = owner[g] /\ g # h
          BY <1>5, <1>13, <1>14, <4>2
        <5>2. job' = job /\ live' = live \cup {h}
          BY <1>6
        <5> QED
          BY <1>2, <2>1, <5>1, <5>2, PlaceOf
      <4> QED
        BY <4>1, <4>2
    <3> QED
      BY <3>1, <3>2 DEF Placed
  <2>3. \A b \in Arenas : StackLinked(kind2, rank, b)'
    <3> TAKE b \in Arenas
    <3>1. CASE b # a
      <4>1. OnStack(kind2, b) = OnStack(kind, b)
        BY <1>5, <1>13, <3>1 DEF OnStack
      <4>2. \A g \in OnStack(kind, b) : word'[g] = word[g]
        BY <1>5, <1>7, <3>1 DEF OnStack
      <4> QED
        BY <1>2, <1>11, <2>1, <3>1, <4>1, <4>2, StackKept DEF SlotsPlaced
    <3>2. CASE b = a
      <4>1. OnStack(kind2, a)' = {}
        BY <1>13 DEF OnStack
      <4>2. top'[a].depth = 0 /\ top'[a].handle = Sentinel(a)
        BY <1>0, <1>6 DEF TypeOK, EmptyTop
      <4> QED
        BY <3>2, <4>1, <4>2, HandleFacts DEF StackLinked
    <3> QED
      BY <3>1, <3>2
  <2>4. \A u \in Threads : LocalLinked(kind2, owner2, rank, u)'
    <3> TAKE u \in Threads
    <3>1. CASE u # t
      <4>1. OnLocal(kind2, owner2, u) = OnLocal(kind, owner, u)
        BY <1>5, <1>13, <1>14, <3>1 DEF OnLocal
      <4>2. \A g \in OnLocal(kind, owner, u) : word'[g] = word[g]
        BY <1>5, <1>7 DEF OnLocal
      <4>3. local'[u] = local[u]
        BY <1>0, <1>6, <3>1 DEF TypeOK
      <4> QED
        BY <1>2, <4>1, <4>2, <4>3, LocalKept DEF SlotsPlaced
    <3>2. CASE u = t
      <4>1. OnLocal(kind, owner, t) = {}
        BY <1>0, <1>2, HandleFacts DEF SlotsPlaced, LocalLinked
      <4>2. OnLocal(kind2, owner2, t) = OnStack(kind, a) \ {h}
        BY <1>13, <1>14, <4>1 DEF OnLocal, OnStack
      <4>3. OnStack(kind, a) \in SUBSET Usable
        BY DEF OnStack
      <4>4. word \in [Handles -> Handles \cup {NULL}]
        BY <1>0 DEF TypeOK
      <4> QED
        BY <1>0, <1>3, <1>4, <1>5, <1>6, <3>2, <4>2, <4>3, <4>4, RestOfList
    <3> QED
      BY <3>1, <3>2
  <2> QED
    BY <1>2, <2>2, <2>3, <2>4 DEF SlotsPlaced
<1> QED
  BY <1>8, <1>9, <1>10, <1>12, <1>15 DEF Inv

-----------------------------------------------------------------------------
(***************************************************************************)
(* An arena is active when some thread's vector holds it below its active  *)
(* count.                                                                  *)
(***************************************************************************)
LEMMA ActiveArena ==
  ASSUME NEW b \in ActiveArenas
  PROVE  \E u \in Threads : \E k \in 1 .. active[u] : b = owned[u][k]
<1>1. PICK S \in {{owned[u][k] : k \in 1 .. active[u]} : u \in Threads} : b \in S
  BY DEF ActiveArenas
<1>2. PICK u \in Threads : S = {owned[u][k] : k \in 1 .. active[u]}
  BY <1>1
<1>3. \E k \in 1 .. active[u] : b = owned[u][k]
  BY <1>1, <1>2
<1> QED
  BY <1>3

\* ... and the other way round, after a step.
LEMMA NowActive ==
  ASSUME NEW u \in Threads, NEW k \in 1 .. active'[u]
  PROVE  owned'[u][k] \in ActiveArenas'
BY DEF ActiveArenas

(***************************************************************************)
(* setup_arena_stack links all slots of an arena, from N - 1 down to 1.    *)
(***************************************************************************)
LEMMA LinkedFacts ==
  ASSUME TypeOK, NEW a \in Arenas
  PROVE  /\ Linked(a) \in [Handles -> Handles \cup {NULL}]
         /\ \A h \in Handles : h[1] # a => Linked(a)[h] = word[h]
         /\ \A h \in Usable : h[1] = a =>
              /\ Linked(a)[h] = <<a, h[2] - 1>>
              /\ h[2] = 1 => Linked(a)[h] \notin Usable
              /\ h[2] > 1 => Linked(a)[h] \in Usable
         /\ <<a, N - 1>> \in Usable
<1> USE SizeAssumption
<1>1. ASSUME NEW h \in Handles
      PROVE  Linked(a)[h] = IF h[1] # a THEN word[h]
                            ELSE IF h = Sentinel(a) THEN NULL ELSE <<a, h[2] - 1>>
  <2>1. CASE h[1] # a
    BY <2>1 DEF Linked, Sentinel
  <2>2. CASE h[1] = a /\ h = Sentinel(a)
    BY <2>2 DEF Linked
  <2>3. CASE h[1] = a /\ h # Sentinel(a)
    BY <2>3 DEF Linked
  <2> QED
    BY <2>1, <2>2, <2>3
<1>2. ASSUME NEW h \in Handles
      PROVE  /\ h[1] \in Arenas /\ h[2] \in 0 .. N - 1
             /\ h[1] = a /\ h # Sentinel(a) => h[2] # 0 /\ <<a, h[2] - 1>> \in Handles
             /\ h[1] = a /\ h[2] # 0 => h # Sentinel(a)
  BY DEF Handles, SlotIds, Sentinel
<1>3. \A h \in Handles : Linked(a)[h] \in Handles \cup {NULL}
  BY <1>1, <1>2 DEF TypeOK
<1>4. Linked(a) \in [Handles -> Handles \cup {NULL}]
  BY <1>3 DEF Linked
<1>5. ASSUME NEW h \in Usable, h[1] = a
      PROVE  /\ Linked(a)[h] = <<a, h[2] - 1>>
             /\ h[2] = 1 => Linked(a)[h] \notin Usable
             /\ h[2] > 1 => Linked(a)[h] \in Usable
  <2>1. Linked(a)[h] = <<a, h[2] - 1>> /\ h[2] \in 1 .. N - 1
    BY <1>1, <1>2, <1>5, HandleFacts
  <2> QED
    BY <2>1 DEF Usable
<1>6. <<a, N - 1>> \in Usable
  BY DEF Usable
<1> QED
  BY <1>1, <1>4, <1>5, <1>6

(***************************************************************************)
(* init_arena, once the arena a has its place right behind the active ones *)
(* of the context: its slots come into being.                              *)
(***************************************************************************)
LEMMA SetupInv ==
  ASSUME Inv, RoomLeft, NEW t \in Threads, NEW a \in Arenas, a \notin ActiveArenas,
         pc[t] = "scan", Setup(t, a),
         UNCHANGED <<allocs, vector, i, job, self, old>>,
         ArenasOwned', arenas' \in 0 .. MaxArenas,
         owned' \in [Threads -> Seq(Arenas \cup {NULL})],
         active[t] + 1 <= Len(owned'[t]), owned'[t][active[t] + 1] = a,
         \A k \in 1 .. active[t] : owned'[t][k] = owned[t][k],
         \A u \in Threads : u # t => owned'[u] = owned[u]
  PROVE  Inv'
<1> USE SizeAssumption
<1>0. /\ TypeOK /\ ArenasOwned /\ CallState /\ LiveKnowsItself /\ local[t] = NULL
      /\ active[t] \in Nat
  BY DEF Inv, CallState, InCall, TypeOK
<1>1. PICK h \in Usable : h = <<a, N - 1>>
  BY <1>0, LinkedFacts
<1>2. PICK w \in [Handles -> Handles \cup {NULL}] : w = Linked(a)
  BY <1>0, LinkedFacts
<1>3. /\ top' = [top EXCEPT ![a] = EmptyTop(a)]
      /\ active' = [active EXCEPT ![t] = active[t] + 1]
      /\ local' = [local EXCEPT ![t] = w[h]]
      /\ word' = [w EXCEPT ![h] = h] /\ live' = live \cup {h}
      /\ pc' = [pc EXCEPT ![t] = "idle"]
  BY <1>1, <1>2 DEF Setup, Pop, Goto
<1>4. PICK kind, owner, rank : SlotsPlaced(kind, owner, rank)
  BY DEF Inv
<1>5. h[1] = a /\ \A g \in Usable : g[1] = a <=> (g[1] = a /\ kind[g] = "none")
  BY <1>1, <1>4 DEF SlotsPlaced, Placed
<1>6. /\ h \in Handles /\ word'[h] = h
      /\ \A g \in Usable : g[1] # a => word'[g] = word[g]
      /\ \A g \in Usable : g[1] = a =>
           /\ w[g] = <<a, g[2] - 1>>
           /\ g[2] = 1 => w[g] \notin Usable
           /\ g[2] > 1 => w[g] \in Usable
  <2>1. h \in Handles /\ word'[h] = h
    BY <1>3, HandleFacts
  <2>2. ASSUME NEW g \in Usable, g[1] # a PROVE word'[g] = word[g]
    BY <1>0, <1>1, <1>2, <1>3, <2>2, HandleFacts, LinkedFacts
  <2>3. \A g \in Usable : g[1] = a =>
           /\ w[g] = <<a, g[2] - 1>>
           /\ g[2] = 1 => w[g] \notin Usable
           /\ g[2] > 1 => w[g] \in Usable
    BY <1>0, <1>2, LinkedFacts
  <2> QED
    BY <2>1, <2>2, <2>3
<1>7. active[t] < MaxArenas
  <2>1. \A k \in 1 .. active[t] : owned[t][k] # a
    BY <1>0, ActiveFacts
  <2> QED
    BY <2>1 DEF RoomLeft
<1>8. TypeOK'
  <2>1. /\ local' \in [Threads -> Handles \cup {NULL}]
        /\ word' \in [Handles -> Handles \cup {NULL}]
    BY <1>0, <1>3, <1>6 DEF TypeOK
  <2>2. live' \in SUBSET Usable /\ pc' \in [Threads -> PCs]
    BY <1>0, <1>3 DEF TypeOK, PCs
  <2>3. top' \in [Arenas -> Tops]
    BY <1>0, <1>3, HandleFacts DEF TypeOK
  <2>4. active' \in [Threads -> 0 .. MaxArenas]
    BY <1>0, <1>3, <1>7 DEF TypeOK
  <2>5. \A u \in Threads : active'[u] <= Len(owned'[u])
    BY <1>0, <1>3 DEF TypeOK, Capacity
  <2> QED
    BY <1>0, <2>1, <2>2, <2>3, <2>4, <2>5 DEF TypeOK, Capacity
<1>9. LiveKnowsItself'
  <2>1. \A g \in live : g \in Usable /\ g[1] # a
    BY <1>0, <1>4, <1>5 DEF TypeOK, SlotsPlaced, Placed
  <2> QED
    BY <1>0, <1>3, <1>6, <2>1 DEF LiveKnowsItself
<1>10. \A b \in Arenas : b # a => top'[b] = top[b]
  BY <1>0, <1>3 DEF TypeOK
<1>11. CallState'
  <2> SUFFICES ASSUME NEW u \in Threads PROVE InCall(u)'
    BY DEF CallState
  <2>1. CASE u = t
    BY <1>0, <1>3, <2>1 DEF CallState, InCall, TypeOK
  <2>2. CASE u # t
    <3>1. pc'[u] = pc[u] /\ local'[u] = local[u] /\ active'[u] = active[u]
      BY <1>0, <1>3, <2>2 DEF TypeOK
    <3>2. job[u] # NULL => job[u] \in Usable /\ job[u][1] # a
      <4>1. job[u] # NULL => job[u] \in Usable
        BY <1>0 DEF TypeOK
      <4>2. job[u] # NULL => kind[job[u]] = "push"
        BY <1>4, <4>1 DEF SlotsPlaced, Placed
      <4> QED
        BY <1>5, <4>1, <4>2
    <3>3. job[u] # NULL => word'[job[u]] = word[job[u]]
      BY <1>6, <3>2
    <3>4. \A k \in 1 .. active[u] : owned[u][k] \in Arenas /\ owned[u][k] # a
      BY <1>0, ActiveFacts
    <3>5. \A k \in 1 .. active[u] : top'[owned[u][k]] = top[owned[u][k]]
      BY <1>10, <3>4
    <3> QED
      BY <1>0, <2>2, <3>1, <3>3, <3>5, OthersInCall
  <2> QED
    BY <2>1, <2>2
<1>12. ActiveArenas' = ActiveArenas \cup {a}
  <2>1. ASSUME NEW u \in Threads, u # t
        PROVE  active'[u] = active[u] /\ owned'[u] = owned[u]
    BY <1>0, <1>3, <2>1 DEF TypeOK
  <2>2. active'[t] = active[t] + 1
    BY <1>0, <1>3 DEF TypeOK
  <2>3. ASSUME NEW b, b \in ActiveArenas' PROVE b \in ActiveArenas \cup {a}
    <3>1. PICK u \in Threads : \E k \in 1 .. active'[u] : b = owned'[u][k]
      BY <2>3 DEF ActiveArenas
    <3>2. CASE u # t
      BY <2>1, <3>1, <3>2 DEF ActiveArenas
    <3>3. CASE u = t
      <4>0. PICK k \in 1 .. active'[t] : b = owned'[t][k]
        BY <3>1, <3>3
      <4>1. k \in 1 .. active[t] \/ k = active[t] + 1
        BY <1>0, <2>2, <4>0
      <4> QED
        BY <4>0, <4>1 DEF ActiveArenas
    <3> QED
      BY <3>2, <3>3
  <2>4. ASSUME NEW b \in ActiveArenas PROVE b \in ActiveArenas'
    <3>1. PICK u \in Threads : \E k \in 1 .. active[u] : b = owned[u][k]
      BY <2>4, ActiveArena
    <3>2. CASE u # t
      <4>1. PICK k \in 1 .. active'[u] : b = owned'[u][k]
        BY <2>1, <3>1, <3>2
      <4> QED
        BY <4>1, NowActive
    <3>3. CASE u = t
      <4>1. PICK k \in 1 .. active[t] : b = owned[t][k]
        BY <3>1, <3>3
      <4>2. k \in 1 .. active'[t]
        BY <1>0, <2>2, <4>1
      <4>3. owned'[t][k] = b
        BY <1>0, <4>1
      <4> QED
        BY <4>2, <4>3, NowActive
    <3> QED
      BY <3>2, <3>3
  <2>5. a \in ActiveArenas'
    <3>1. active[t] + 1 \in 1 .. active'[t]
      BY <1>0, <2>2
    <3> QED
      BY <3>1 DEF ActiveArenas
  <2> QED
    BY <2>3, <2>4, <2>5
<1>13. PICK kind2 : kind2 = [g \in Usable |-> IF g = h THEN "live"
                              ELSE IF g[1] = a THEN "local" ELSE kind[g]]
  OBVIOUS
<1>14. PICK owner2 : owner2 = [g \in Usable |-> IF g[1] = a THEN t ELSE owner[g]]
  OBVIOUS
<1>15. PICK rank2 : rank2 = [g \in Usable |-> IF g[1] = a THEN g[2] ELSE rank[g]]
  OBVIOUS
<1>16. SlotsPlaced(kind2, owner2, rank2)'
  <2>2. Placed(kind2, owner2)'
    <3>1. kind2 \in [Usable -> Kinds] /\ owner2 \in [Usable -> Threads \cup {NULL}]
      BY <1>4, <1>13, <1>14 DEF SlotsPlaced, Placed, Kinds
    <3>2. ASSUME NEW g \in Usable
          PROVE  /\ kind2[g] = "none" <=> g[1] \notin ActiveArenas'
                 /\ kind2[g] = "live" <=> g \in live'
                 /\ kind2[g] \in {"push", "local"} => owner2[g] \in Threads
                 /\ \A u \in Threads : kind2[g] = "push" /\ owner2[g] = u <=> job'[u] = g
      <4>1. CASE g[1] = a
        BY <1>3, <1>4, <1>5, <1>12, <1>13, <1>14, <4>1 DEF SlotsPlaced, Placed
      <4>2. CASE g[1] # a
        <5>1. kind2[g] = kind[g] /\ owner2[g] = owner[g] /\ g # h
          BY <1>5, <1>13, <1>14, <4>2
        <5> QED
          BY <1>3, <1>4, <1>12, <4>2, <5>1 DEF SlotsPlaced, Placed
      <4> QED
        BY <4>1, <4>2
    <3> QED
      BY <3>1, <3>2 DEF Placed
  <2>3. \A b \in Arenas : StackLinked(kind2, rank2, b)'
    <3> TAKE b \in Arenas
    <3>1. CASE b # a
      <4>1. OnStack(kind2, b) = OnStack(kind, b)
        BY <1>5, <1>13, <3>1 DEF OnStack
      <4>2. \A g \in OnStack(kind, b) : word'[g] = word[g] /\ rank2[g] = rank[g]
        BY <1>6, <1>15, <3>1 DEF OnStack
      <4> QED
        BY <1>4, <1>10, <1>12, <3>1, <4>1, <4>2, StackKept DEF SlotsPlaced
    <3>2. CASE b = a
      <4>1. OnStack(kind2, a)' = {}
        BY <1>13 DEF OnStack
      <4>2. top'[a].depth = 0 /\ top'[a].handle = Sentinel(a)
        BY <1>0, <1>3 DEF TypeOK, EmptyTop
      <4> QED
        BY <3>2, <4>1, <4>2, HandleFacts DEF StackLinked
    <3> QED
      BY <3>1, <3>2
  <2>4. \A u \in Threads : LocalLinked(kind2, owner2, rank2, u)'
    <3> TAKE u \in Threads
    <3>1. CASE u # t
      <4>1. OnLocal(kind2, owner2, u) = OnLocal(kind, owner, u)
        BY <1>5, <1>13, <1>14, <3>1 DEF OnLocal
      <4>2. \A g \in OnLocal(kind, owner, u) : word'[g] = word[g] /\ rank2[g] = rank[g]
        BY <1>5, <1>6, <1>15 DEF OnLocal
      <4>3. local'[u] = local[u]
        BY <1>0, <1>3, <3>1 DEF TypeOK
      <4> QED
        BY <1>4, <4>1, <4>2, <4>3, LocalKept DEF SlotsPlaced
    <3>2. CASE u = t
      <4> DEFINE L == {g \in Usable : g[1] = a}
      <4>1. OnLocal(kind, owner, t) = {}
        BY <1>0, <1>4, HandleFacts DEF SlotsPlaced, LocalLinked
      <4>2. OnLocal(kind2, owner2, t) = L \ {h}
        BY <1>13, <1>14, <4>1 DEF OnLocal
      <4>3. h \in L /\ rank2[h] = N - 1 /\ \A g \in L : rank2[g] = g[2] /\ g[2] \in 1 .. N - 1
        BY <1>1, <1>5, <1>15, HandleFacts
      <4>4. ASSUME NEW g \in L
            PROVE  /\ rank2[g] \in 1 .. rank2[h]
                   /\ rank2[g] = 1 => w[g] \notin Usable
                   /\ rank2[g] > 1 => w[g] \in L /\ rank2[w[g]] = rank2[g] - 1
                   /\ \A f \in L : rank2[g] = rank2[f] => g = f
        <5>1. /\ w[g] = <<a, g[2] - 1>> /\ (g[2] = 1 => w[g] \notin Usable)
              /\ (g[2] > 1 => w[g] \in Usable)
          BY <1>6
        <5>2. rank2[g] > 1 => w[g] \in L /\ rank2[w[g]] = rank2[g] - 1
          BY <4>3, <5>1
        <5>3. \A f \in L : g[2] = f[2] => g = f
          BY DEF Usable
        <5> QED
          BY <4>3, <5>1, <5>2, <5>3
      <4>5. IsList(L, h, rank2, w, Usable)
        BY <4>3, <4>4 DEF IsList
      <4>6. rank2[h] \in Nat /\ L \in SUBSET Usable
        BY <4>3
      <4> HIDE DEF L
      <4> QED
        BY <1>0, <1>3, <3>2, <4>2, <4>5, <4>6, RestOfList
    <3> QED
      BY <3>1, <3>2
  <2>5. rank2 \in [Usable -> Nat]
    BY <1>4, <1>15, HandleFacts DEF SlotsPlaced
  <2> QED
    BY <2>2, <2>3, <2>4, <2>5 DEF SlotsPlaced
<1> QED
  BY <1>8, <1>9, <1>11, <1>16 DEF Inv

\* init_arena sets up again an arena that the context dropped before.
LEMMA ReuseArenaInv ==
  ASSUME Inv, RoomLeft, NEW t \in Threads, ReuseArena(t)
  PROVE  Inv'
<1> USE SizeAssumption
<1>0. /\ TypeOK /\ ArenasOwned /\ active[t] \in Nat
      /\ \A u \in Threads : active[u] \in Nat /\ Capacity(u) \in Nat /\ active[u] <= Capacity(u)
      /\ pc[t] = "scan" /\ active[t] < Capacity(t) /\ owned[t][active[t] + 1] # NULL
      /\ UNCHANGED <<arenas, owned, allocs, vector, i, job, self, old>>
  BY DEF Inv, ReuseArena, MustInit, CanReuse, TypeOK, Capacity
<1>1. PICK n \in 1 .. Capacity(t) : n = active[t] + 1
  BY <1>0
<1>2. PICK a \in Arenas : a = owned[t][n]
  BY <1>0, <1>1 DEF TypeOK, Capacity
<1>3. Setup(t, a) /\ active'[t] = n
  BY <1>0, <1>1, <1>2 DEF ReuseArena, Setup, TypeOK
<1>4. a \notin ActiveArenas
  <2>1. \A u \in Threads : \A k \in 1 .. active[u] : owned[u][k] # a
    BY <1>0, <1>1, <1>2 DEF ArenasOwned
  <2> QED
    BY <2>1 DEF ActiveArenas
<1>5. ArenasOwned'
  <2>1. \A u \in Threads : u # t => active'[u] = active[u]
    BY <1>0, <1>3 DEF Setup, TypeOK
  <2>2. \A k \in 1 .. n : owned[t][k] # NULL
    BY <1>0, <1>1 DEF ArenasOwned
  <2>3. \A u \in Threads : \A k \in 1 .. active'[u] : owned[u][k] # NULL
    BY <1>0, <1>3, <2>1, <2>2 DEF ArenasOwned
  <2> QED
    BY <1>0, <2>3 DEF ArenasOwned, Capacity
<1>6. /\ arenas' \in 0 .. MaxArenas
      /\ owned' \in [Threads -> Seq(Arenas \cup {NULL})]
      /\ active[t] + 1 <= Len(owned'[t]) /\ owned'[t][active[t] + 1] = a
  BY <1>0, <1>1, <1>2 DEF TypeOK, Capacity
<1> QED
  BY <1>0, <1>3, <1>4, <1>5, <1>6, SetupInv

(***************************************************************************)
(* ensure_vector_capacity keeps the entries there are and makes room for   *)
(* one more.                                                               *)
(***************************************************************************)
LEMMA GrownFacts ==
  ASSUME TypeOK, NEW t \in Threads
  PROVE  /\ Grown(t) \in Seq(Arenas \cup {NULL})
         /\ Capacity(t) <= Len(Grown(t)) /\ active[t] + 1 \in 1 .. Len(Grown(t))
         /\ \A k \in 1 .. Capacity(t) : Grown(t)[k] = owned[t][k]
         /\ \A k \in 1 .. Len(Grown(t)) : k > Capacity(t) => Grown(t)[k] = NULL
<1>1. PICK c \in Nat : c = Capacity(t)
  BY DEF TypeOK, Capacity
<1>2. PICK o \in [1 .. c -> Arenas \cup {NULL}] : o = owned[t]
  BY <1>1 DEF TypeOK, Capacity
<1>3. PICK m \in Nat : m = NewCapacity(t)
  BY <1>1, SizeAssumption DEF NewCapacity
<1>4. c <= m /\ active[t] + 1 \in 1 .. m
  BY <1>1, <1>3, SizeAssumption DEF NewCapacity, TypeOK
<1>5. PICK g : g = [k \in 1 .. m |-> IF k <= c THEN o[k] ELSE NULL]
  BY Zenon
<1>6. g \in [1 .. m -> Arenas \cup {NULL}]
  BY <1>4, <1>5
<1>7. g \in Seq(Arenas \cup {NULL}) /\ Len(g) = m
  BY <1>6
<1>8. /\ \A k \in 1 .. c : g[k] = o[k]
      /\ \A k \in 1 .. m : k > c => g[k] = NULL
  BY <1>4, <1>5
<1>9. Grown(t) = g
  BY <1>1, <1>2, <1>3, <1>5 DEF Grown
<1> QED
  BY <1>1, <1>2, <1>4, <1>7, <1>8, <1>9

\* init_arena takes a new arena, growing the vectors if they are full.
LEMMA NewArenaInv ==
  ASSUME Inv, RoomLeft, NEW t \in Threads, NewArena(t)
  PROVE  Inv'
<1> USE SizeAssumption
<1>0. /\ TypeOK /\ ArenasOwned /\ active[t] \in Nat
      /\ \A u \in Threads : active[u] \in Nat /\ Capacity(u) \in Nat /\ active[u] <= Capacity(u)
      /\ pc[t] = "scan" /\ arenas \in Nat /\ arenas < MaxArenas /\ arenas' = arenas + 1
      /\ UNCHANGED <<allocs, vector, i, job, self, old>>
  <2>1. TypeOK /\ ArenasOwned
    BY DEF Inv
  <2>2. /\ pc[t] = "scan" /\ arenas < MaxArenas /\ arenas' = arenas + 1
        /\ UNCHANGED <<allocs, vector, i, job, self, old>>
    BY DEF NewArena, MustInit
  <2>3. arenas \in Nat /\ active[t] \in Nat
    BY <2>1 DEF TypeOK
  <2>4. \A u \in Threads : active[u] \in Nat /\ Capacity(u) \in Nat /\ active[u] <= Capacity(u)
    BY <2>1 DEF TypeOK, Capacity
  <2> QED
    BY <2>1, <2>2, <2>3, <2>4
<1>1. PICK a \in Arenas : a = arenas
  BY <1>0 DEF Arenas
<1>2. PICK g \in Seq(Arenas \cup {NULL}) : g = Grown(t)
  BY <1>0, GrownFacts
<1>3. PICK n \in 1 .. Len(g) : n = active[t] + 1
  BY <1>0, <1>2, GrownFacts
<1>4. /\ Len(g) \in Nat /\ Capacity(t) <= Len(g)
      /\ \A k \in 1 .. Capacity(t) : g[k] = owned[t][k]
      /\ \A k \in 1 .. Len(g) : k > Capacity(t) => g[k] = NULL
  BY <1>0, <1>2, GrownFacts
<1>5. PICK o \in Seq(Arenas \cup {NULL}) : o = [g EXCEPT ![n] = a] /\ Len(o) = Len(g)
  <2>1. PICK m \in Nat : m = Len(g)
    BY <1>2
  <2>2. g \in [1 .. m -> Arenas \cup {NULL}]
    BY <1>2, <2>1
  <2>3. PICK o \in [1 .. m -> Arenas \cup {NULL}] : o = [g EXCEPT ![n] = a]
    BY <2>2
  <2>4. o \in Seq(Arenas \cup {NULL}) /\ Len(o) = m
    BY <2>3
  <2> QED
    BY <2>1, <2>3, <2>4
<1>6. /\ Len(o) = Len(g) /\ o[n] = a /\ \A k \in 1 .. Len(g) : k # n => o[k] = g[k]
  BY <1>3, <1>5
<1>7. /\ Setup(t, a) /\ owned' = [owned EXCEPT ![t] = o]
      /\ active' = [active EXCEPT ![t] = n]
  BY <1>0, <1>1, <1>2, <1>3, <1>5 DEF NewArena, Setup
<1>8. /\ owned' \in [Threads -> Seq(Arenas \cup {NULL})]
      /\ owned'[t] = o /\ active'[t] = n
      /\ \A u \in Threads : u # t => owned'[u] = owned[u] /\ active'[u] = active[u]
  BY <1>0, <1>7 DEF TypeOK
<1>9. a \notin ActiveArenas
  <2>1. \A u \in Threads : \A k \in 1 .. active[u] : owned[u][k] \in Arenas /\ owned[u][k] < a
    BY <1>0, <1>1, ActiveFacts, NullAssumption DEF ArenasOwned
  <2> QED
    BY <1>1, <2>1 DEF ActiveArenas, Arenas
<1>10. ASSUME NEW u \in Threads, NEW k \in 1 .. Len(owned'[u]), owned'[u][k] # NULL
       PROVE  \/ u = t /\ k = n /\ owned'[u][k] = a
              \/ k \in 1 .. Capacity(u) /\ owned'[u][k] = owned[u][k] /\ owned[u][k] < a
  <2>1. CASE u # t
    BY <1>0, <1>1, <1>8, <1>10, <2>1 DEF ArenasOwned, Capacity
  <2>2. CASE u = t /\ k # n
    <3>1. k \in 1 .. Len(g) /\ o[k] = g[k] /\ owned'[u][k] = g[k]
      BY <1>6, <1>8, <2>2
    <3>2. k \in 1 .. Capacity(u)
      BY <1>0, <1>4, <1>10, <2>2, <3>1
    <3> QED
      BY <1>0, <1>1, <1>4, <1>10, <2>2, <3>1, <3>2 DEF ArenasOwned
  <2> QED
    BY <1>6, <1>8, <2>1, <2>2
<1>11. ArenasOwned'
  <2>1. ASSUME NEW u \in Threads, NEW k \in 1 .. Len(owned'[u]), owned'[u][k] # NULL
        PROVE  owned'[u][k] < arenas'
    <3>1. CASE u = t /\ k = n /\ owned'[u][k] = a
      BY <1>0, <1>1, <3>1
    <3>2. CASE k \in 1 .. Capacity(u) /\ owned'[u][k] = owned[u][k] /\ owned[u][k] < a
      <4>1. owned[u][k] \in Arenas
        BY <1>0, <2>1, <3>2 DEF TypeOK, Capacity
      <4> QED
        BY <1>0, <1>1, <3>2, <4>1 DEF Arenas
    <3> QED
      BY <1>10, <2>1, <3>1, <3>2
  <2>2. ASSUME NEW u \in Threads, NEW v \in Threads,
               NEW k \in 1 .. Len(owned'[u]), NEW l \in 1 .. Len(owned'[v]),
               owned'[u][k] # NULL, owned'[u][k] = owned'[v][l]
        PROVE  u = v /\ k = l
    <3>1. a \in Int /\ ~(a < a)
      BY <1>1 DEF Arenas
    <3>2. \/ u = t /\ k = n /\ owned'[u][k] = a
          \/ k \in 1 .. Capacity(u) /\ owned'[u][k] = owned[u][k] /\ owned[u][k] < a
      BY <1>10, <2>2
    <3>3. \/ v = t /\ l = n /\ owned'[v][l] = a
          \/ l \in 1 .. Capacity(v) /\ owned'[v][l] = owned[v][l] /\ owned[v][l] < a
      BY <1>10, <2>2
    <3>4. CASE owned'[u][k] = a
      BY <2>2, <3>1, <3>2, <3>3, <3>4
    <3>5. CASE owned'[u][k] # a
      BY <1>0, <2>2, <3>2, <3>3, <3>5 DEF ArenasOwned
    <3> QED
      BY <3>4, <3>5
  <2>3. ASSUME NEW u \in Threads, NEW k \in 1 .. active'[u]
        PROVE  owned'[u][k] # NULL
    <3>1. CASE u # t
      BY <1>0, <1>8, <3>1 DEF ArenasOwned
    <3>2. CASE u = t /\ k = n
      BY <1>1, <1>6, <1>8, <3>2, NullAssumption
    <3>3. CASE u = t /\ k # n
      <4>1. k \in 1 .. active[t] /\ k \in 1 .. Capacity(t) /\ k \in 1 .. Len(g)
        BY <1>0, <1>3, <1>4, <1>8, <2>3, <3>3
      <4> QED
        BY <1>0, <1>4, <1>6, <1>8, <3>3, <4>1 DEF ArenasOwned
    <3> QED
      BY <3>1, <3>2, <3>3
  <2> QED
    BY <2>1, <2>2, <2>3 DEF ArenasOwned, Capacity
<1>12. /\ arenas' \in 0 .. MaxArenas
       /\ active[t] + 1 <= Len(owned'[t]) /\ owned'[t][active[t] + 1] = a
  BY <1>0, <1>3, <1>6, <1>8
<1>13. \A k \in 1 .. active[t] : owned'[t][k] = owned[t][k]
  <2> TAKE k \in 1 .. active[t]
  <2>1. k \in 1 .. Capacity(t) /\ k \in 1 .. Len(g) /\ k # n
    BY <1>0, <1>3, <1>4
  <2> QED
    BY <1>4, <1>6, <1>8, <2>1
<1> QED
  BY <1>0, <1>7, <1>8, <1>9, <1>11, <1>12, <1>13, SetupInv

(***************************************************************************)
(* reclaim_last_arena_if_empty drops the pages of an arena all slots of    *)
(* which are on its stack, nothing else is in an arena of depth N - 1.     *)
(***************************************************************************)
LEMMA MadviseInv ==
  ASSUME Inv, DepthCounts, NEW t \in Threads, Madvise(t)
  PROVE  Inv'
<1> USE SizeAssumption
<1>0. /\ TypeOK /\ ArenasOwned /\ CallState /\ LiveKnowsItself
      /\ UNCHANGED <<arenas, owned, local, allocs, vector, live, i, job, self, old>>
      /\ pc[t] \in {"madvise", "exit_madvise"}
      /\ pc' = [pc EXCEPT ![t] = IF pc[t] = "madvise" THEN "pop" ELSE "exit"]
  BY DEF Inv, Madvise, Goto
<1>1. active[t] \in Nat /\ active[t] > 0 /\ top[Last(t)].depth = N - 1
  BY <1>0, CallFacts DEF TypeOK
<1>2. PICK n \in 1 .. active[t] : n = active[t]
  BY <1>1
<1>3. PICK a \in Arenas : a = owned[t][n]
  BY <1>0, <1>2, ActiveFacts
<1>4. /\ top[a].depth = N - 1 /\ a \in ActiveArenas
      /\ \A u \in Threads : \A k \in 1 .. active[u] : owned[u][k] = a => u = t /\ k = n
  BY <1>0, <1>1, <1>2, <1>3, ActiveFacts DEF Last
<1>5. /\ top' = [top EXCEPT ![a] = ZeroTop]
      /\ active' = [active EXCEPT ![t] = n - 1]
      /\ word' = [g \in Handles |-> IF g[1] = a THEN Zero ELSE word[g]]
  BY <1>2, <1>3 DEF Madvise, Last, Zeroed
<1>6. PICK kind, owner, rank : SlotsPlaced(kind, owner, rank)
  BY DEF Inv
<1>7. \A g \in Usable : g[1] = a => kind[g] = "stack"
  BY <1>4, <1>6 DEF DepthCounts
<1>8. \A g \in Usable : g[1] # a => word'[g] = word[g]
  BY <1>5, HandleFacts
<1>9. \A b \in Arenas : b # a => top'[b] = top[b]
  BY <1>0, <1>5 DEF TypeOK
<1>10. /\ active'[t] = n - 1 /\ pc'[t] \in {"pop", "exit"}
       /\ \A u \in Threads : u # t => active'[u] = active[u] /\ pc'[u] = pc[u]
       /\ active' \in [Threads -> 0 .. MaxArenas]
  <2>1. n - 1 \in 0 .. MaxArenas
    BY <1>0, <1>2 DEF TypeOK
  <2> QED
    BY <1>0, <1>5, <2>1 DEF TypeOK
<1>11. TypeOK'
  <2>1. word' \in [Handles -> Handles \cup {NULL}] /\ top' \in [Arenas -> Tops]
    BY <1>0, <1>5, HandleFacts DEF TypeOK
  <2>2. pc' \in [Threads -> PCs]
    BY <1>0 DEF TypeOK, PCs
  <2>3. ASSUME NEW u \in Threads PROVE active'[u] <= Len(owned[u])
    <3>1. PICK c \in Nat : c = Len(owned[u])
      BY <1>0 DEF TypeOK
    <3>2. active[u] \in Nat /\ active[u] <= c
      BY <1>0, <3>1 DEF TypeOK, Capacity
    <3>3. CASE u # t
      BY <1>10, <3>1, <3>2, <3>3
    <3>4. CASE u = t
      BY <1>2, <1>10, <3>1, <3>2, <3>4
    <3> QED
      BY <3>3, <3>4
  <2> QED
    BY <1>0, <1>10, <2>1, <2>2, <2>3 DEF TypeOK, Capacity
<1>12. ArenasOwned'
  <2>1. \A u \in Threads : \A k \in 1 .. active'[u] : owned[u][k] # NULL
    BY <1>0, <1>2, <1>10 DEF ArenasOwned
  <2> QED
    BY <1>0, <2>1 DEF ArenasOwned, Capacity
<1>13. LiveKnowsItself'
  <2>1. \A g \in live : g \in Usable /\ g[1] # a
    BY <1>0, <1>6, <1>7 DEF TypeOK, SlotsPlaced, Placed
  <2> QED
    BY <1>0, <1>8, <2>1 DEF LiveKnowsItself
<1>14. CallState'
  <2> SUFFICES ASSUME NEW u \in Threads PROVE InCall(u)'
    BY DEF CallState
  <2>1. CASE u = t
    BY <1>0, <1>10, <2>1 DEF CallState, InCall
  <2>2. CASE u # t
    <3>2. job[u] # NULL => job[u] \in Usable /\ job[u][1] # a
      <4>1. job[u] # NULL => job[u] \in Usable
        BY <1>0 DEF TypeOK
      <4>2. job[u] # NULL => kind[job[u]] = "push"
        BY <1>6, <4>1 DEF SlotsPlaced, Placed
      <4> QED
        BY <1>7, <4>1, <4>2
    <3>3. job[u] # NULL => word'[job[u]] = word[job[u]]
      BY <1>8, <3>2
    <3>4. \A k \in 1 .. active[u] : owned[u][k] \in Arenas /\ owned[u][k] # a
      BY <1>0, <1>4, <2>2, ActiveFacts
    <3>5. \A k \in 1 .. active[u] : top'[owned[u][k]] = top[owned[u][k]]
      BY <1>9, <3>4
    <3> QED
      BY <1>0, <1>10, <2>2, <3>3, <3>5, OthersInCall
  <2> QED
    BY <2>1, <2>2
<1>15. ActiveArenas' = ActiveArenas \ {a}
  <2>1. ASSUME NEW b, b \in ActiveArenas' PROVE b \in ActiveArenas \ {a}
    <3>1. PICK u \in Threads : \E k \in 1 .. active'[u] : b = owned[u][k]
      BY <1>0, <2>1 DEF ActiveArenas
    <3>2. CASE u # t
      BY <1>4, <1>10, <3>1, <3>2 DEF ActiveArenas
    <3>3. CASE u = t
      <4>1. PICK k \in 1 .. n - 1 : b = owned[t][k]
        BY <1>10, <3>1, <3>3
      <4>2. k \in 1 .. active[t] /\ k # n
        BY <1>2, <4>1
      <4> QED
        BY <1>4, <4>1, <4>2 DEF ActiveArenas
    <3> QED
      BY <3>2, <3>3
  <2>2. ASSUME NEW b \in ActiveArenas, b # a PROVE b \in ActiveArenas'
    <3>1. PICK u \in Threads : \E k \in 1 .. active[u] : b = owned[u][k]
      BY <2>2 DEF ActiveArenas
    <3>2. CASE u # t
      BY <1>0, <1>10, <3>1, <3>2 DEF ActiveArenas
    <3>3. CASE u = t
      <4>1. PICK k \in 1 .. active[t] : b = owned[t][k]
        BY <3>1, <3>3
      <4>2. k \in 1 .. active'[t]
        BY <1>2, <1>3, <1>10, <2>2, <4>1
      <4> QED
        BY <1>0, <4>1, <4>2 DEF ActiveArenas
    <3> QED
      BY <3>2, <3>3
  <2> QED
    BY <2>1, <2>2
<1>16. PICK kind2 : kind2 = [g \in Usable |-> IF g[1] = a THEN "none" ELSE kind[g]]
  OBVIOUS
<1>17. SlotsPlaced(kind2, owner, rank)'
  <2>1. Placed(kind2, owner)'
    <3>1. kind2 \in [Usable -> Kinds]
      BY <1>6, <1>16 DEF SlotsPlaced, Placed, Kinds
    <3>2. ASSUME NEW g \in Usable
          PROVE  /\ kind2[g] = "none" <=> g[1] \notin ActiveArenas'
                 /\ kind2[g] = "live" <=> g \in live'
                 /\ kind2[g] \in {"push", "local"} => owner[g] \in Threads
                 /\ \A u \in Threads : kind2[g] = "push" /\ owner[g] = u <=> job'[u] = g
      <4>1. CASE g[1] = a
        BY <1>0, <1>6, <1>7, <1>15, <1>16, <4>1 DEF SlotsPlaced, Placed
      <4>2. CASE g[1] # a
        BY <1>0, <1>6, <1>15, <1>16, <4>2 DEF SlotsPlaced, Placed
      <4> QED
        BY <4>1, <4>2
    <3> QED
      BY <1>6, <3>1, <3>2 DEF Placed, SlotsPlaced
  <2>2. \A b \in Arenas : StackLinked(kind2, rank, b)'
    <3> TAKE b \in Arenas
    <3>1. CASE b # a
      <4>1. OnStack(kind2, b) = OnStack(kind, b)
        BY <1>16, <3>1 DEF OnStack
      <4>2. \A g \in OnStack(kind, b) : word'[g] = word[g]
        BY <1>8, <3>1 DEF OnStack
      <4> QED
        BY <1>6, <1>9, <1>15, <3>1, <4>1, <4>2, StackKept DEF SlotsPlaced
    <3>2. CASE b = a
      <4>1. OnStack(kind2, a)' = {}
        BY <1>16 DEF OnStack
      <4>2. top'[a].depth = 0 /\ top'[a].handle = Zero
        BY <1>0, <1>5 DEF TypeOK, ZeroTop
      <4> QED
        BY <1>15, <3>2, <4>1, <4>2, HandleFacts DEF StackLinked
    <3> QED
      BY <3>1, <3>2
  <2>3. \A u \in Threads : LocalLinked(kind2, owner, rank, u)'
    <3> TAKE u \in Threads
    <3>1. OnLocal(kind2, owner, u) = OnLocal(kind, owner, u)
      BY <1>7, <1>16 DEF OnLocal
    <3>2. \A g \in OnLocal(kind, owner, u) : word'[g] = word[g]
      BY <1>7, <1>8 DEF OnLocal
    <3> QED
      BY <1>0, <1>6, <3>1, <3>2, LocalKept DEF SlotsPlaced
  <2> QED
    BY <1>6, <2>1, <2>2, <2>3 DEF SlotsPlaced
<1> QED
  BY <1>11, <1>12, <1>13, <1>14, <1>17 DEF Inv

\* Without arenas, every slot is nowhere.
LEMMA InitInv == Init => Inv
<1> SUFFICES ASSUME Init PROVE Inv
  OBVIOUS
<1> USE SizeAssumption DEF Init
<1>1. TypeOK
  <2>1. Zero \in Handles /\ ZeroTop \in Tops
    BY HandleFacts
  <2> QED
    BY <2>1 DEF TypeOK, Capacity, PCs
<1>2. ArenasOwned /\ CallState /\ LiveKnowsItself
  BY DEF ArenasOwned, CallState, InCall, LiveKnowsItself, Capacity
<1>3. ActiveArenas = {}
  BY DEF ActiveArenas
<1>4. PICK kind : kind = [h \in Usable |-> "none"]
  OBVIOUS
<1>5. PICK owner : owner = [h \in Usable |-> NULL]
  OBVIOUS
<1>6. PICK rank : rank = [h \in Usable |-> 0]
  OBVIOUS
<1>7. Placed(kind, owner)
  BY <1>3, <1>4, <1>5, HandleFacts DEF Placed, Kinds
<1>8. \A a \in Arenas : StackLinked(kind, rank, a)
  BY <1>3, <1>4, HandleFacts DEF StackLinked, OnStack, ZeroTop
<1>9. \A t \in Threads : LocalLinked(kind, owner, rank, t)
  BY <1>4, HandleFacts DEF LocalLinked, OnLocal
<1>10. SlotsPlaced(kind, owner, rank)
  BY <1>6, <1>7, <1>8, <1>9 DEF SlotsPlaced
<1> QED
  BY <1>1, <1>2, <1>10 DEF Inv

-----------------------------------------------------------------------------
(***************************************************************************)
(* The slots of an arena, and of all arenas, are finitely many.            *)
(***************************************************************************)
LEMMA ArenaSlots ==
  ASSUME NEW a \in Arenas
  PROVE  /\ IsFiniteSet({h \in Usable : h[1] = a})
         /\ Cardinality({h \in Usable : h[1] = a}) = N - 1
         /\ IsFiniteSet(Usable)
<1> DEFINE S == {h \in Usable : h[1] = a}
           f == [k \in 1 .. N - 1 |-> <<a, k>>]
<1>1. IsFiniteSet(1 .. N - 1) /\ Cardinality(1 .. N - 1) = N - 1
  BY SizeAssumption, FS_Interval
<1>2. f \in [1 .. N - 1 -> S]
  BY DEF Usable
<1>3. \A k, l \in 1 .. N - 1 : f[k] = f[l] => k = l
  OBVIOUS
<1>4. \A h \in S : \E k \in 1 .. N - 1 : f[k] = h
  BY DEF Usable
<1>5. PICK n \in Nat : n = N - 1
  BY SizeAssumption
<1>6. IsFiniteSet(S) /\ Cardinality(S) = N - 1
  <2> HIDE DEF S, f
  <2>1. PICK g \in [1 .. n -> S] : g = f
    BY <1>2, <1>5
  <2>2. /\ \A k, l \in 1 .. n : g[k] = g[l] => k = l
        /\ \A h \in S : \E k \in 1 .. n : g[k] = h
    BY <1>3, <1>4, <1>5, <2>1
  <2>3. IsFiniteSet(S) /\ Cardinality(S) = n
    BY <2>2, CountedBy
  <2> QED
    BY <1>5, <2>3
<1>7. IsFiniteSet(Usable)
  <2>1. IsFiniteSet(Arenas)
    BY SizeAssumption, FS_Interval DEF Arenas
  <2> QED
    BY <1>1, <2>1, FS_Product DEF Usable
<1> QED
  BY <1>6, <1>7

(***************************************************************************)
(* The depth of a stack is the number of slots on it; it is N - 1 only if  *)
(* all slots of the arena are there.                                       *)
(***************************************************************************)
LEMMA StackSize ==
  ASSUME TypeOK, NEW kind, NEW owner, NEW rank, SlotsPlaced(kind, owner, rank),
         NEW a \in Arenas
  PROVE  /\ IsFiniteSet(OnStack(kind, a))
         /\ Cardinality(OnStack(kind, a)) = top[a].depth
         /\ top[a].depth = N - 1 => \A h \in Usable : h[1] = a => kind[h] = "stack"
<1> DEFINE S == {h \in Usable : h[1] = a}
<1>1. top[a].depth \in 0 .. N - 1
  BY HandleFacts DEF TypeOK
<1>2. IsFiniteSet(OnStack(kind, a)) /\ Cardinality(OnStack(kind, a)) = top[a].depth
  <2>1. CASE top[a].depth = 0
    BY <2>1, FS_EmptySet DEF SlotsPlaced, StackLinked
  <2>2. CASE top[a].depth # 0
    <3>1. /\ IsList(OnStack(kind, a), top[a].handle, rank, word, Usable)
          /\ rank[top[a].handle] = top[a].depth
      BY <2>2 DEF SlotsPlaced, StackLinked
    <3> QED
      BY <1>1, <3>1, ListLength
  <2> QED
    BY <2>1, <2>2
<1>3. OnStack(kind, a) \in SUBSET S
  BY DEF OnStack
<1>4. IsFiniteSet(S) /\ Cardinality(S) = N - 1
  BY ArenaSlots
<1>5. top[a].depth = N - 1 => OnStack(kind, a) = S
  <2> HIDE DEF S
  <2> QED
    BY <1>2, <1>3, <1>4, FS_Subset
<1> QED
  BY <1>2, <1>5 DEF OnStack

(***************************************************************************)
(* What the links lead to are the slots placed on the stack, or the list.  *)
(***************************************************************************)
LEMMA Chains ==
  ASSUME TypeOK, NEW kind, NEW owner, NEW rank, SlotsPlaced(kind, owner, rank)
  PROVE  /\ \A a \in Arenas : Chain(top[a].handle) = OnStack(kind, a)
         /\ \A t \in Threads : Chain(local[t]) = OnLocal(kind, owner, t)
<1>1. ASSUME NEW L \in SUBSET Usable, NEW h, IsList(L, h, rank, word, Usable)
      PROVE  Chain(h) = L
  <2>1. h \in Usable /\ rank[h] \in Nat
    BY <1>1 DEF IsList, SlotsPlaced
  <2>2. h[1] \in Arenas
    BY <2>1, HandleFacts
  <2>3. IsFiniteSet(Usable)
    BY <2>2, ArenaSlots
  <2> QED
    BY <1>1, <2>1, <2>3, ReachedNodes DEF Chain
<1>2. ASSUME NEW a \in Arenas PROVE Chain(top[a].handle) = OnStack(kind, a)
  <2>1. OnStack(kind, a) \in SUBSET Usable
    BY DEF OnStack
  <2>2. CASE top[a].depth = 0
    BY <2>2 DEF SlotsPlaced, StackLinked, Chain
  <2>3. CASE top[a].depth # 0
    BY <1>1, <2>1, <2>3 DEF SlotsPlaced, StackLinked
  <2> QED
    BY <2>2, <2>3
<1>3. ASSUME NEW t \in Threads PROVE Chain(local[t]) = OnLocal(kind, owner, t)
  <2>1. OnLocal(kind, owner, t) \in SUBSET Usable
    BY DEF OnLocal
  <2>2. CASE local[t] \notin Usable
    BY <2>2 DEF SlotsPlaced, LocalLinked, Chain
  <2>3. CASE local[t] \in Usable
    BY <1>1, <2>1, <2>3 DEF SlotsPlaced, LocalLinked
  <2> QED
    BY <2>2, <2>3
<1> QED
  BY <1>2, <1>3

(***************************************************************************)
(* A context with an arena that is not active has less than MAX_ARENAS     *)
(* active ones.                                                            *)
(***************************************************************************)
LEMMA ActiveRoom ==
  ASSUME TypeOK, ArenasOwned, NEW t \in Threads, NEW a \in Arenas,
         \A k \in 1 .. active[t] : owned[t][k] # a
  PROVE  active[t] < MaxArenas
<1> DEFINE S == 1 .. active[t]
           A == Arenas \ {a}
           f == [k \in S |-> owned[t][k]]
<1>1. active[t] \in Nat
  BY SizeAssumption DEF TypeOK
<1>2. IsFiniteSet(S) /\ Cardinality(S) = active[t]
  BY <1>1, FS_Interval
<1>3. IsFiniteSet(Arenas) /\ Cardinality(Arenas) = MaxArenas
  BY SizeAssumption, FS_Interval DEF Arenas
<1>4. IsFiniteSet(A) /\ Cardinality(A) = MaxArenas - 1
  BY <1>3, FS_RemoveElement
<1>5. f \in [S -> A] /\ \A k, l \in S : f[k] = f[l] => k = l
  BY ActiveFacts
<1>6. f \in Injection(S, A)
  BY <1>5 DEF Injection, IsInjective
<1>7. Cardinality(S) <= Cardinality(A)
  <2> HIDE DEF f, A, S
  <2> QED
    BY <1>4, <1>6, FS_Injection
<1> QED
  BY <1>1, <1>2, <1>4, <1>7, SizeAssumption

-----------------------------------------------------------------------------
(***************************************************************************)
(* The invariant of the allocator, for any number of contexts, arenas and  *)
(* slots per arena: every step of alloc_slot, free_slot, init_arena and    *)
(* reclaim_last_arena_if_empty leaves all slots accounted for.             *)
(***************************************************************************)
THEOREM ArenaInvariant == Spec => []Inv
<1>1. Inv /\ [Next]_vars => Inv'
  <2> SUFFICES ASSUME Inv, [Next]_vars PROVE Inv'
    OBVIOUS
  <2>0. DepthCounts /\ RoomLeft
    BY StackSize, ActiveRoom DEF Inv, DepthCounts, RoomLeft
  <2>1. CASE UNCHANGED vars
    <3>1. PICK kind, owner, rank : SlotsPlaced(kind, owner, rank)
      BY DEF Inv
    <3>2. UNCHANGED <<top, word, owned, active, local, live, job>>
      BY <2>1 DEF vars
    <3>3. SlotsPlaced(kind, owner, rank)'
      BY <3>1, <3>2, SlotsStay
    <3>4. (TypeOK /\ ArenasOwned)'
      BY <2>1 DEF Inv, vars, TypeOK, ArenasOwned, Capacity
    <3>5. (CallState /\ LiveKnowsItself)'
      BY <2>1 DEF Inv, vars, CallState, InCall, LiveKnowsItself, Last
    <3> QED
      BY <3>3, <3>4, <3>5 DEF Inv
  <2>2. CASE Next
    <3>1. PICK t \in Threads : \/ AllocSlot(t) \/ ThreadExit(t) \/ AllocStep(t)
                               \/ \E h \in live : FreeSlot(t, h)
                               \/ FreeStep(t)
      BY <2>2 DEF Next
    <3>2. CASE AllocSlot(t) \/ ThreadExit(t)
      BY <3>2, QuietInv
    <3>3. CASE AllocStep(t)
      BY <2>0, <3>3, QuietInv, MadviseInv, PopLocalInv, PopEmptyInv, StealBatchInv,
         ReuseArenaInv, NewArenaInv, FailInv DEF AllocStep
    <3>4. CASE \E h \in live : FreeSlot(t, h)
      BY <3>4, FreeSlotInv
    <3>5. CASE FreeStep(t)
      BY <2>0, <3>5, QuietInv, LinkSlotInv, PushSucceedsInv DEF FreeStep
    <3> QED
      BY <3>1, <3>2, <3>3, <3>4, <3>5
  <2> QED
    BY <2>1, <2>2
<1> QED
  BY <1>1, InitInv, PTL DEF Spec

(***************************************************************************)
(* All variables of the allocator keep their types: the depths fit their   *)
(* field, the indices stay within MAX_ARENAS and the vectors.              *)
(***************************************************************************)
THEOREM ArenaTypeCorrect == Spec => []TypeOK
<1>1. Inv => TypeOK
  BY DEF Inv
<1> QED
  BY <1>1, ArenaInvariant, PTL

(***************************************************************************)
(* The depth that free_slot counts in top_handle is the number of slots on *)
(* the stack.                                                              *)
(***************************************************************************)
THEOREM ArenaDepths == Spec => []DepthIsLength
<1>1. ASSUME Inv PROVE DepthIsLength
  <2>1. TypeOK /\ \E kind, owner, rank : SlotsPlaced(kind, owner, rank)
    BY <1>1 DEF Inv
  <2> QED
    BY <2>1, StackSize, Chains DEF DepthIsLength
<1> QED
  BY <1>1, ArenaInvariant, PTL

(***************************************************************************)
(* When reclaim_last_arena_if_empty drops the pages of an arena, all slots *)
(* of it are on its own stack, and nobody is about to push one.            *)
(***************************************************************************)
THEOREM ArenaDropsUnused == Spec => []DroppedArenaIsUnused
<1>1. ASSUME Inv PROVE DroppedArenaIsUnused
  <2> SUFFICES ASSUME NEW t \in Threads, pc[t] \in {"madvise", "exit_madvise"}
               PROVE  Chain(top[Last(t)].handle) = {Last(t)} \X (1 .. N - 1)
    BY DEF DroppedArenaIsUnused
  <2>1. TypeOK /\ ArenasOwned
    BY <1>1 DEF Inv
  <2>2. active[t] \in Nat /\ active[t] > 0 /\ top[Last(t)].depth = N - 1
    BY <1>1, SizeAssumption DEF Inv, CallState, InCall, TypeOK
  <2>3. PICK n \in 1 .. active[t] : n = active[t]
    BY <2>2
  <2>4. PICK a \in Arenas : a = Last(t)
    BY <2>1, <2>3, ActiveFacts DEF Last
  <2>5. PICK kind, owner, rank : SlotsPlaced(kind, owner, rank)
    BY <1>1 DEF Inv
  <2>6. \A h \in Usable : h[1] = a => kind[h] = "stack"
    BY <2>1, <2>2, <2>4, <2>5, StackSize
  <2>7. Chain(top[a].handle) = OnStack(kind, a)
    BY <2>1, <2>4, <2>5, Chains
  <2>8. OnStack(kind, a) = {a} \X (1 .. N - 1)
    BY <2>4, <2>6 DEF OnStack, Usable
  <2> QED
    BY <2>4, <2>7, <2>8
<1> QED
  BY <1>1, ArenaInvariant, PTL

(***************************************************************************)
(* The assertion of alloc_slot holds: the exchange never finds an empty    *)
(* stack where the load before it found slots.                             *)
(***************************************************************************)
THEOREM ArenaSteals == Spec => []StealFindsSlots
<1>1. Inv => StealFindsSlots
  BY DEF Inv, CallState, InCall, StealFindsSlots
<1> QED
  BY <1>1, ArenaInvariant, PTL

(***************************************************************************)
(* A slot the clients have carries its own handle.                         *)
(***************************************************************************)
THEOREM ArenaSelfHandles == Spec => []LiveKnowsItself
<1>1. Inv => LiveKnowsItself
  BY DEF Inv
<1> QED
  BY <1>1, ArenaInvariant, PTL

(***************************************************************************)
(* The entries of Homes are the places of the slots.                       *)
(***************************************************************************)
Home(kind, owner, h) ==
  <<h, kind[h], CASE kind[h] = "stack" -> h[1]
                  [] kind[h] \in {"push", "local"} -> owner[h]
                  [] OTHER -> NULL>>

\* Every entry of Homes is the place of its slot ...
LEMMA HomeIsPlace ==
  ASSUME TypeOK, NEW kind, NEW owner, NEW rank, SlotsPlaced(kind, owner, rank),
         NEW p \in Homes
  PROVE  p[1] \in Usable /\ kind[p[1]] # "none" /\ p = Home(kind, owner, p[1])
<1>1. Placed(kind, owner)
  BY DEF SlotsPlaced
<1>2. CASE \E h \in live : p = <<h, "live", NULL>>
  BY <1>1, <1>2 DEF TypeOK, Placed, Home
<1>3. CASE \E t \in Threads : job[t] # NULL /\ p = <<job[t], "push", t>>
  BY <1>1, <1>3 DEF TypeOK, Placed, Home
<1>4. CASE \E a \in Arenas : \E h \in Chain(top[a].handle) : p = <<h, "stack", a>>
  <2>1. PICK a \in Arenas : \E h \in Chain(top[a].handle) : p = <<h, "stack", a>>
    BY <1>4
  <2>2. Chain(top[a].handle) = OnStack(kind, a)
    BY Chains
  <2> QED
    BY <2>1, <2>2 DEF OnStack, Home
<1>5. CASE \E t \in Threads : \E h \in Chain(local[t]) : p = <<h, "local", t>>
  <2>1. PICK t \in Threads : \E h \in Chain(local[t]) : p = <<h, "local", t>>
    BY <1>5
  <2>2. Chain(local[t]) = OnLocal(kind, owner, t)
    BY Chains
  <2> QED
    BY <2>1, <2>2 DEF OnLocal, Home
<1>6. \/ p \in {<<h, "live", NULL>> : h \in live}
      \/ p \in {<<job[t], "push", t>> : t \in {u \in Threads : job[u] # NULL}}
      \/ p \in UNION {{<<h, "stack", a>> : h \in Chain(top[a].handle)} : a \in Arenas}
      \/ p \in UNION {{<<h, "local", t>> : h \in Chain(local[t])} : t \in Threads}
  BY DEF Homes
<1>7. CASE p \in {<<h, "live", NULL>> : h \in live}
  BY <1>2, <1>7
<1>8. CASE p \in {<<job[t], "push", t>> : t \in {u \in Threads : job[u] # NULL}}
  BY <1>3, <1>8
<1>9. CASE p \in UNION {{<<h, "stack", a>> : h \in Chain(top[a].handle)} : a \in Arenas}
  <2>1. \E a \in Arenas : p \in {<<h, "stack", a>> : h \in Chain(top[a].handle)}
    BY <1>9, Zenon
  <2> QED
    BY <1>4, <2>1
<1>10. CASE p \in UNION {{<<h, "local", t>> : h \in Chain(local[t])} : t \in Threads}
  <2>1. \E t \in Threads : p \in {<<h, "local", t>> : h \in Chain(local[t])}
    BY <1>10, Zenon
  <2> QED
    BY <1>5, <2>1
<1> QED
  BY <1>6, <1>7, <1>8, <1>9, <1>10

\* ... and every slot that has a place has its entry.
LEMMA PlaceIsHome ==
  ASSUME TypeOK, NEW kind, NEW owner, NEW rank, SlotsPlaced(kind, owner, rank),
         NEW h \in Usable, kind[h] # "none"
  PROVE  Home(kind, owner, h) \in Homes
<1>1. Placed(kind, owner)
  BY DEF SlotsPlaced
<1>2. CASE kind[h] = "live"
  <2>1. h \in live /\ Home(kind, owner, h) = <<h, "live", NULL>>
    BY <1>1, <1>2 DEF Placed, Home
  <2> QED
    BY <2>1 DEF Homes
<1>3. CASE kind[h] = "push"
  <2>1. /\ owner[h] \in Threads /\ job[owner[h]] = h
        /\ Home(kind, owner, h) = <<h, "push", owner[h]>>
    BY <1>1, <1>3 DEF Placed, Home
  <2>2. h # NULL
    BY HandleFacts
  <2> QED
    BY <2>1, <2>2 DEF Homes
<1>4. CASE kind[h] = "stack"
  <2>1. h[1] \in Arenas /\ Home(kind, owner, h) = <<h, "stack", h[1]>>
    BY <1>4, HandleFacts DEF Home
  <2>2. h \in Chain(top[h[1]].handle)
    BY <1>4, <2>1, Chains DEF OnStack
  <2>3. <<h, "stack", h[1]>> \in {<<g, "stack", h[1]>> : g \in Chain(top[h[1]].handle)}
    BY <2>2
  <2>4. <<h, "stack", h[1]>> \in
          UNION {{<<g, "stack", a>> : g \in Chain(top[a].handle)} : a \in Arenas}
    BY <2>1, <2>3, Zenon
  <2> QED
    BY <2>1, <2>4 DEF Homes
<1>5. CASE kind[h] = "local"
  <2>1. owner[h] \in Threads /\ Home(kind, owner, h) = <<h, "local", owner[h]>>
    BY <1>1, <1>5 DEF Placed, Home
  <2>2. h \in Chain(local[owner[h]])
    BY <1>5, <2>1, Chains DEF OnLocal
  <2>3. <<h, "local", owner[h]>> \in {<<g, "local", owner[h]>> : g \in Chain(local[owner[h]])}
    BY <2>2
  <2>4. <<h, "local", owner[h]>> \in
          UNION {{<<g, "local", t>> : g \in Chain(local[t])} : t \in Threads}
    BY <2>1, <2>3, Zenon
  <2> QED
    BY <2>1, <2>4 DEF Homes
<1> QED
  BY <1>1, <1>2, <1>3, <1>4, <1>5 DEF Placed, Kinds

(***************************************************************************)
(* No slot is lost and none is handed out twice: each slot of an active    *)
(* arena is with a client, in a push, on one stack or on one private list, *)
(* and no slot of a reclaimed arena is anywhere.                           *)
(***************************************************************************)
THEOREM ArenaEverySlotOnce == Spec => []EverySlotOnce
<1>1. ASSUME Inv PROVE EverySlotOnce
  <2> SUFFICES ASSUME NEW h \in Usable
               PROVE  Cardinality({p \in Homes : p[1] = h})
                        = IF h[1] \in ActiveArenas THEN 1 ELSE 0
    BY DEF EverySlotOnce
  <2>1. TypeOK
    BY <1>1 DEF Inv
  <2>2. PICK kind, owner, rank : SlotsPlaced(kind, owner, rank)
    BY <1>1 DEF Inv
  <2>3. kind[h] = "none" <=> h[1] \notin ActiveArenas
    BY <2>2 DEF SlotsPlaced, Placed
  <2>4. \A p \in Homes : p[1] = h => kind[h] # "none" /\ p = Home(kind, owner, h)
    BY <2>1, <2>2, HomeIsPlace
  <2>5. CASE kind[h] = "none"
    <3>1. {p \in Homes : p[1] = h} = {}
      BY <2>4, <2>5
    <3> QED
      BY <2>3, <2>5, <3>1, FS_EmptySet
  <2>6. CASE kind[h] # "none"
    <3>1. Home(kind, owner, h) \in Homes /\ Home(kind, owner, h)[1] = h
      BY <2>1, <2>2, <2>6, PlaceIsHome DEF Home
    <3>2. {p \in Homes : p[1] = h} = {Home(kind, owner, h)}
      BY <2>4, <3>1
    <3>3. Cardinality({Home(kind, owner, h)}) = 1
      BY FS_Singleton
    <3> QED
      BY <2>3, <2>6, <3>2, <3>3
  <2> QED
    BY <2>5, <2>6
<1> QED
  BY <1>1, ArenaInvariant, PTL

-----------------------------------------------------------------------------
(* What a step does to the slots in use, live or in a push.  A slot that   *)
(* is not in use has not been handed out: a pop is its only hand-out.      *)
LEMMA Taken ==
  ASSUME OutIsInUse, NEW t \in Threads, NEW h \in Usable, NEW w, Pop(t, h, w),
         h \notin live, \A u \in Threads : job[u] # h, UNCHANGED job
  PROVE  OutIsInUse' /\ Pool!Take(h)
<1>1. h \notin InUse /\ InUse' = InUse \cup {h}
  BY DEF Pop, InUse
<1>2. out[h] = 0 /\ out' = [out EXCEPT ![h] = 1]
  BY <1>1 DEF OutIsInUse, Pop
<1>3. OutIsInUse'
  BY <1>1, <1>2 DEF OutIsInUse
<1> QED
  BY <1>2, <1>3 DEF Pool!Take

(***************************************************************************)
(* Each step of the allocator is a step of SlotPool or changes nothing     *)
(* there: those that pop a slot take it, the CAS of free_slot gives it     *)
(* back.  The slots in use remain those that have been handed out once.    *)
(***************************************************************************)
LEMMA PoolStep ==
  ASSUME Inv, OutIsInUse, [Next]_vars
  PROVE  OutIsInUse' /\ [Pool!Next]_out
<1> SUFFICES ASSUME ~ UNCHANGED <<live, job, out>>
             PROVE  OutIsInUse' /\ [Pool!Next]_out
  BY DEF OutIsInUse, InUse
<1>1. PICK kind, owner, rank : SlotsPlaced(kind, owner, rank)
  BY DEF Inv
<1>2. /\ TypeOK /\ ArenasOwned /\ CallState /\ Placed(kind, owner)
  BY <1>1 DEF Inv, SlotsPlaced
<1>3. ASSUME NEW h \in Usable, kind[h] \notin {"live", "push"}
      PROVE  h \notin live /\ \A u \in Threads : job[u] # h
  BY <1>2, <1>3 DEF Placed
<1>5. PICK t \in Threads : \/ AllocSlot(t) \/ ThreadExit(t) \/ AllocStep(t)
                           \/ \E h \in live : FreeSlot(t, h)
                           \/ FreeStep(t)
  BY DEF Next, vars
<1>6. \/ PopLocal(t) \/ StealBatch(t) \/ ReuseArena(t) \/ NewArena(t)
      \/ \E h \in live : FreeSlot(t, h)
      \/ PushSucceeds(t)
  BY <1>5 DEF AllocSlot, ThreadExit, AllocStep, FreeStep, ReclaimLoads, Madvise,
     PopEmpty, ScanArena, MaxArenasReached, ArenaMemoryFails, VectorMemoryFails,
     AllocFails, UseDangling, LinkSlot, PushRetries
<1>7. ASSUME NEW h \in Usable, NEW w, Pop(t, h, w), UNCHANGED job,
             kind[h] \notin {"live", "push"}
      PROVE  OutIsInUse' /\ [Pool!Next]_out
  BY <1>3, <1>7, Taken DEF Pool!Next
<1>8. CASE PopLocal(t)
  <2>1. local[t] \in Usable /\ Pop(t, local[t], word) /\ UNCHANGED job
    BY <1>2, <1>8, HandleFacts DEF PopLocal, IsSlot, TypeOK
  <2>2. kind[local[t]] = "local"
    BY <1>1, <2>1 DEF SlotsPlaced, LocalLinked, IsList, OnLocal
  <2> QED
    BY <1>7, <2>1, <2>2
<1>9. CASE StealBatch(t)
  <2>1. PICK n \in 1 .. active[t] : n = i[t]
    BY <1>2, <1>9, StealSource DEF StealBatch
  <2>2. PICK a \in Arenas : a = owned[t][n]
    BY <1>2, <2>1, ActiveFacts
  <2>3. top[a].depth > 0
    BY <1>2, <1>9, <2>1, <2>2, StealSource DEF StealBatch
  <2>4. top[a].handle \in OnStack(kind, a)
    BY <1>1, <2>3, DeepStack
  <2>5. top[a].handle \in Usable /\ kind[top[a].handle] = "stack"
    BY <2>4 DEF OnStack
  <2>6. Pop(t, top[a].handle, word) /\ UNCHANGED job
    BY <1>9, <2>1, <2>2, <2>5, HandleFacts DEF StealBatch
  <2> QED
    BY <1>7, <2>5, <2>6
<1>10. ASSUME NEW a \in Arenas, a \notin ActiveArenas, Setup(t, a), UNCHANGED job
       PROVE  OutIsInUse' /\ [Pool!Next]_out
  <2>1. <<a, N - 1>> \in Usable /\ Pop(t, <<a, N - 1>>, Linked(a))
    BY <1>2, <1>10, LinkedFacts DEF Setup
  <2>2. kind[<<a, N - 1>>] = "none"
    BY <1>2, <1>10, <2>1 DEF Placed
  <2> QED
    BY <1>7, <1>10, <2>1, <2>2
<1>11. CASE ReuseArena(t)
  <2>1. PICK n \in 1 .. Capacity(t) : n = active[t] + 1
    BY <1>2, <1>11, SizeAssumption DEF ReuseArena, CanReuse, TypeOK, Capacity
  <2>2. PICK a \in Arenas : a = owned[t][n]
    BY <1>2, <1>11, <2>1 DEF TypeOK, Capacity, ReuseArena, CanReuse
  <2>3. \A u \in Threads : \A k \in 1 .. active[u] : owned[u][k] # a
    <3>1. \A u \in Threads : \A k \in 1 .. active[u] : k \in 1 .. Capacity(u)
      BY <1>2, ActiveFacts
    <3>2. n \notin 1 .. active[t] /\ a # NULL
      BY <1>2, <2>1, <2>2, SizeAssumption, NullAssumption DEF TypeOK
    <3> QED
      BY <1>2, <2>2, <3>1, <3>2 DEF ArenasOwned
  <2>4. a \notin ActiveArenas
    BY <2>3 DEF ActiveArenas
  <2> QED
    BY <1>10, <1>11, <2>1, <2>2, <2>4 DEF ReuseArena
<1>12. CASE NewArena(t)
  <2>1. arenas \in Arenas
    BY <1>2, <1>12, SizeAssumption DEF NewArena, TypeOK, Arenas
  <2>2. \A u \in Threads : \A k \in 1 .. active[u] : owned[u][k] \in Arenas /\ owned[u][k] < arenas
    BY <1>2, ActiveFacts, NullAssumption DEF ArenasOwned
  <2>3. \A u \in Threads : \A k \in 1 .. active[u] : owned[u][k] # arenas
    BY <2>1, <2>2 DEF Arenas
  <2>4. arenas \notin ActiveArenas
    BY <2>3 DEF ActiveArenas
  <2> QED
    BY <1>10, <1>12, <2>1, <2>4 DEF NewArena
<1>13. CASE \E h \in live : FreeSlot(t, h)
  <2>1. PICK h \in live : FreeSlot(t, h)
    BY <1>13
  <2>2. job[t] = NULL /\ h # NULL
    BY <1>2, <2>1, HandleFacts DEF FreeSlot, CallState, InCall, TypeOK
  <2>3. live' = live \ {h} /\ job' = [job EXCEPT ![t] = h]
    BY <2>1 DEF FreeSlot
  <2>4. job'[t] = h /\ \A u \in Threads : u # t => job'[u] = job[u]
    BY <1>2, <2>3 DEF TypeOK
  <2>5. InUse' = InUse /\ out' = out
    BY <2>1, <2>2, <2>3, <2>4 DEF InUse, FreeSlot
  <2> QED
    BY <2>5 DEF OutIsInUse
<1>14. CASE PushSucceeds(t)
  <2>1. PICK h \in Usable : h = job[t]
    BY <1>2, <1>14 DEF PushSucceeds, CallState, InCall, TypeOK
  <2>2. live' = live /\ job' = [job EXCEPT ![t] = NULL] /\ h # NULL
    BY <1>14, HandleFacts DEF PushSucceeds
  <2>3. job'[t] = NULL /\ \A u \in Threads : u # t => job'[u] = job[u] /\ job[u] # h
    BY <1>2, <2>1, <2>2 DEF TypeOK, Placed
  <2>4. h \notin live
    BY <1>2, <2>1 DEF Placed
  <2>5. InUse' = InUse \ {h} /\ h \in InUse
    BY <2>1, <2>2, <2>3, <2>4 DEF InUse
  <2>6. out[h] = 1 /\ out' = [out EXCEPT ![h] = 0]
    <3>1. out[h] = 1
      BY <2>1, <2>5 DEF OutIsInUse
    <3>2. out' = [out EXCEPT ![h] = out[h] - 1]
      BY <1>14, <2>1 DEF PushSucceeds
    <3> QED
      BY <3>1, <3>2
  <2>7. OutIsInUse'
    BY <2>5, <2>6 DEF OutIsInUse
  <2> QED
    BY <2>6, <2>7 DEF Pool!Next, Pool!Give
<1> QED
  BY <1>6, <1>8, <1>9, <1>11, <1>12, <1>13, <1>14

(***************************************************************************)
(* No slot is handed out again before free_slot has pushed it back: out    *)
(* counts one hand-out for each slot in use and none for the others.       *)
(***************************************************************************)
THEOREM HandedOutOnce == Spec => []OutIsInUse
<1>1. Init => OutIsInUse
  BY DEF Init, OutIsInUse, InUse
<1>2. Inv /\ OutIsInUse /\ [Next]_vars => OutIsInUse'
  BY PoolStep
<1> QED
  BY <1>1, <1>2, ArenaInvariant, PTL DEF Spec

(***************************************************************************)
(* The allocator implements SlotPool, where a hand-out is visible: each    *)
(* step that pops a slot hands out one that nobody has, the CAS of         *)
(* free_slot gives it back, all others hand out and give back nothing.     *)
(***************************************************************************)
THEOREM ArenaImplementsPool == Spec => ImplementsPool
<1>1. Init => Pool!Init
  BY DEF Init, Pool!Init
<1>2. Inv /\ OutIsInUse /\ [Next]_vars => [Pool!Next]_out
  BY PoolStep
<1> QED
  BY <1>1, <1>2, ArenaInvariant, HandedOutOnce, PTL DEF Spec, ImplementsPool, Pool!Spec

-----------------------------------------------------------------------------
(***************************************************************************)
(* The invariant as it is computed from a state: the places of the slots   *)
(* are those of Homes, their ranks the lengths of the lists they begin.    *)
(***************************************************************************)
THEOREM ArenaAllocatorInv == Spec => []AllocatorInv
<1>1. ASSUME Inv, OutIsInUse PROVE AllocatorInv
  <2>1. TypeOK /\ ArenasOwned /\ CallState /\ LiveKnowsItself
    BY <1>1 DEF Inv
  <2>2. PICK kind, owner, rank : SlotsPlaced(kind, owner, rank)
    BY <1>1 DEF Inv
  <2>3. ASSUME NEW h \in Usable
        PROVE  Where[h] = IF kind[h] = "none" THEN <<h, "none", NULL>>
                          ELSE Home(kind, owner, h)
    <3>1. \A p \in Homes : p[1] = h => kind[h] # "none" /\ p = Home(kind, owner, h)
      BY <2>1, <2>2, HomeIsPlace
    <3>2. Where[h] = IF \E p \in Homes : p[1] = h
                     THEN CHOOSE p \in Homes : p[1] = h ELSE <<h, "none", NULL>>
      BY DEF Where
    <3>3. CASE kind[h] = "none"
      BY <3>1, <3>2, <3>3
    <3>4. CASE kind[h] # "none"
      <4>1. Home(kind, owner, h) \in Homes /\ Home(kind, owner, h)[1] = h
        BY <2>1, <2>2, <3>4, PlaceIsHome DEF Home
      <4>2. (CHOOSE p \in Homes : p[1] = h) = Home(kind, owner, h)
        BY <3>1, <4>1
      <4> QED
        BY <3>2, <3>4, <4>1, <4>2
    <3> QED
      BY <3>3, <3>4
  <2>4. PICK where : where = Where
    OBVIOUS
  <2>5. PICK kind2 : kind2 = [h \in Usable |-> where[h][2]]
    BY Zenon
  <2>6. PICK owner2 : owner2 = [h \in Usable |-> IF where[h][2] = "stack" THEN NULL
                                                 ELSE where[h][3]]
    BY Zenon
  <2>7. PICK rank2 : rank2 = [h \in Usable |-> Cardinality(Chain(h))]
    BY Zenon
  <2>8. /\ kind \in [Usable -> Kinds] /\ owner \in [Usable -> Threads \cup {NULL}]
        /\ \A h \in Usable : kind[h] \in {"push", "local"} => owner[h] \in Threads
    BY <2>2 DEF SlotsPlaced, Placed
  <2>9. ASSUME NEW h \in Usable
        PROVE  /\ kind2[h] = kind[h]
               /\ kind[h] \in {"push", "local"} => owner2[h] = owner[h]
               /\ kind[h] \notin {"push", "local"} => owner2[h] = NULL
    <3>1. /\ kind2[h] = where[h][2]
          /\ owner2[h] = IF where[h][2] = "stack" THEN NULL ELSE where[h][3]
      BY <2>5, <2>6
    <3>2. CASE kind[h] = "none"
      <4>1. where[h] = <<h, "none", NULL>>
        BY <2>3, <2>4, <3>2, Zenon
      <4> QED
        BY <3>1, <3>2, <4>1
    <3>3. CASE kind[h] = "stack"
      <4>1. where[h] = <<h, "stack", h[1]>>
        BY <2>3, <2>4, <3>3, Zenon DEF Home
      <4> QED
        BY <3>1, <3>3, <4>1
    <3>4. CASE kind[h] \in {"push", "local"}
      <4>1. where[h] = <<h, kind[h], owner[h]>>
        BY <2>3, <2>4, <3>4, Zenon DEF Home
      <4> QED
        BY <3>1, <3>4, <4>1
    <3>5. CASE kind[h] = "live"
      <4>1. where[h] = <<h, "live", NULL>>
        BY <2>3, <2>4, <3>5, Zenon DEF Home
      <4> QED
        BY <3>1, <3>5, <4>1
    <3> QED
      BY <2>8, <3>2, <3>3, <3>4, <3>5 DEF Kinds
  <2>10. kind2 = kind
    BY <2>5, <2>8, <2>9
  <2>11. Placed(kind, owner2)
    <3>1. owner2 \in [Usable -> Threads \cup {NULL}]
      BY <2>6, <2>8, <2>9
    <3> QED
      BY <2>2, <2>9, <3>1 DEF SlotsPlaced, Placed
  <2>12. rank2 \in [Usable -> Nat] /\ (Usable # {} => IsFiniteSet(Usable))
    <3>1. Usable # {} => IsFiniteSet(Usable)
      BY ArenaSlots, HandleFacts, Zenon
    <3>2. ASSUME NEW h \in Usable PROVE Cardinality(Chain(h)) \in Nat
      <4>1. Chain(h) \in SUBSET Usable /\ IsFiniteSet(Usable)
        BY <3>1 DEF Chain
      <4> QED
        BY <4>1, FS_Subset, FS_CardinalityType
    <3> QED
      BY <2>7, <3>1, <3>2
  <2>13. ASSUME NEW L \in SUBSET Usable, NEW h, IsList(L, h, rank, word, Usable)
         PROVE  IsList(L, h, rank2, word, Usable) /\ rank2[h] = rank[h]
    <3>1. h \in L /\ rank[h] \in Nat /\ IsFiniteSet(Usable)
      BY <2>2, <2>12, <2>13 DEF IsList, SlotsPlaced
    <3>2. ASSUME NEW g \in L PROVE rank2[g] = rank[g]
      <4>1. Cardinality(Reach(g, word, Usable) \cap Usable) = rank[g]
        BY <2>13, <3>1, RankIsLength
      <4> QED
        BY <2>7, <4>1 DEF Chain
    <3> QED
      BY <2>13, <3>1, <3>2, ListKept
  <2>14. ASSUME NEW a \in Arenas PROVE StackLinked(kind, rank2, a)
    <3>1. OnStack(kind, a) \in SUBSET Usable /\ StackLinked(kind, rank, a)
      BY <2>2 DEF OnStack, SlotsPlaced
    <3> QED
      BY <2>13, <3>1 DEF StackLinked
  <2>15. ASSUME NEW t \in Threads PROVE LocalLinked(kind, owner2, rank2, t)
    <3>1. OnLocal(kind, owner, t) \in SUBSET Usable /\ LocalLinked(kind, owner, rank, t)
      BY <2>2 DEF OnLocal, SlotsPlaced
    <3>2. OnLocal(kind, owner2, t) = OnLocal(kind, owner, t)
      BY <2>9 DEF OnLocal
    <3> QED
      BY <2>13, <3>1, <3>2 DEF LocalLinked
  <2>16. SlotsPlaced(kind2, owner2, rank2)
    BY <2>10, <2>11, <2>12, <2>14, <2>15 DEF SlotsPlaced
  <2> QED
    BY <1>1, <2>1, <2>4, <2>5, <2>6, <2>7, <2>16 DEF AllocatorInv
<1> QED
  BY <1>1, ArenaInvariant, HandedOutOnce, PTL
=============================================================================
