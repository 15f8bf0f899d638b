----------------------------- MODULE GateProofs -----------------------------
(***************************************************************************)
(* Proofs that the reference-counting protocol of Gate keeps its safety    *)
(* properties for any number of threads, versions and control blocks, and  *)
(* any counter width that can count the threads, and that it implements    *)
(* VersionStore: facts about counters and sets of holders, a lemma for     *)
(* each action, the theorems, the refinement, and what the programs that   *)
(* use a gate need to know of it.                                          *)
(***************************************************************************)
EXTENDS GateRefinement, GateClient, FiniteSetTheorems, TLAPS

\* The provers, in the order in which they try each step.
USE ZenonT(3), SMT, ZenonT(20), SMTT(60)

-----------------------------------------------------------------------------
(***************************************************************************)
(* Unsigned arithmetic modulo M.                                           *)
(***************************************************************************)

\* M is a positive number, since it exceeds a cardinality.
LEMMA ModulusPositive == M \in Nat /\ M > 0
  BY CountAssumption, FS_CardinalityType

\* Inc (a counter's fetch_add) stays in range and wraps only at M.
LEMMA IncValue ==
  ASSUME NEW x \in Counters
  PROVE  /\ Inc(x) \in Counters
         /\ Inc(x) = IF x + 1 = M THEN 0 ELSE x + 1
  BY ModulusPositive DEF Counters, Inc

\* Sub (the uint32_t subtraction of detach_and_adjust) stays in range.
LEMMA SubValue ==
  ASSUME NEW x \in Counters, NEW y \in Counters
  PROVE  /\ Sub(x, y) \in Counters
         /\ Sub(x, y) = IF x >= y THEN x - y ELSE x - y + M
  BY ModulusPositive DEF Counters, Sub

\* An acquire raises the difference of the two counters by one.
LEMMA SubIncLeft ==
  ASSUME NEW x \in Counters, NEW y \in Counters, Sub(x, y) + 1 < M
  PROVE  Sub(Inc(x), y) = Sub(x, y) + 1
  <1>1. /\ Inc(x) \in Counters
        /\ Inc(x) = IF x + 1 = M THEN 0 ELSE x + 1
    BY IncValue
  <1>2. Sub(x, y) = IF x >= y THEN x - y ELSE x - y + M
    BY SubValue
  <1>3. Sub(Inc(x), y) = IF Inc(x) >= y THEN Inc(x) - y ELSE Inc(x) - y + M
    BY <1>1, SubValue
  <1> QED
    BY <1>1, <1>2, <1>3, ModulusPositive DEF Counters

\* A release lowers it by one.
LEMMA SubIncRight ==
  ASSUME NEW x \in Counters, NEW y \in Counters, Sub(x, y) # 0
  PROVE  Sub(x, Inc(y)) = Sub(x, y) - 1
  <1>1. /\ Inc(y) \in Counters
        /\ Inc(y) = IF y + 1 = M THEN 0 ELSE y + 1
    BY IncValue
  <1>2. Sub(x, y) = IF x >= y THEN x - y ELSE x - y + M
    BY SubValue
  <1>3. Sub(x, Inc(y)) = IF x >= Inc(y) THEN x - Inc(y) ELSE x - Inc(y) + M
    BY <1>1, SubValue
  <1> QED
    BY <1>1, <1>2, <1>3, ModulusPositive DEF Counters

\* Subtracting the outer count leaves the difference to go down to zero.
LEMMA SubFlip ==
  ASSUME NEW x \in Counters, NEW y \in Counters
  PROVE  Sub(0, Sub(y, x)) = Sub(x, y)
  <1>1. 0 \in Counters
    BY ModulusPositive DEF Counters
  <1>2. /\ Sub(y, x) \in Counters
        /\ Sub(y, x) = IF y >= x THEN y - x ELSE y - x + M
    BY SubValue
  <1>3. Sub(x, y) = IF x >= y THEN x - y ELSE x - y + M
    BY SubValue
  <1>4. Sub(0, Sub(y, x)) = IF 0 >= Sub(y, x) THEN 0 - Sub(y, x)
                                              ELSE 0 - Sub(y, x) + M
    BY <1>1, <1>2, SubValue
  <1> QED
    BY <1>2, <1>3, <1>4, ModulusPositive DEF Counters

\* The counter is zero exactly when the difference is.
LEMMA SubZero ==
  ASSUME NEW y \in Counters
  PROVE  Sub(0, y) = 0 <=> y = 0
  <1>1. 0 \in Counters
    BY ModulusPositive DEF Counters
  <1>2. Sub(0, y) = IF 0 >= y THEN 0 - y ELSE 0 - y + M
    BY <1>1, SubValue
  <1> QED
    BY <1>2, ModulusPositive DEF Counters

-----------------------------------------------------------------------------
(***************************************************************************)
(* The number of holders of a version.                                     *)
(***************************************************************************)

\* There are at most as many holders as threads, and zero means nobody.
LEMMA HolderCount ==
  ASSUME NEW v
  PROVE  /\ NumHolders(v) \in Nat
         /\ NumHolders(v) < M
         /\ NumHolders(v) = 0 <=> \A t \in Threads : held[t] # v
  <1>1. Holders(v) \in SUBSET Threads
    BY DEF Holders
  <1>2. IsFiniteSet(Holders(v)) /\ Cardinality(Holders(v)) <= Cardinality(Threads)
    BY <1>1, FS_Subset, CountAssumption
  <1>3. Cardinality(Holders(v)) \in Nat /\ Cardinality(Threads) \in Nat
    BY <1>2, FS_CardinalityType, CountAssumption
  <1>4. Cardinality(Holders(v)) = 0 <=> Holders(v) = {}
    BY <1>2, FS_EmptySet
  <1>5. Holders(v) = {} <=> \A t \in Threads : held[t] # v
    BY DEF Holders
  <1> QED
    BY <1>2, <1>3, <1>4, <1>5, CountAssumption DEF NumHolders

\* A step that leaves held alone leaves every count alone.
LEMMA SameHolders ==
  ASSUME held' = held
  PROVE  \A v : NumHolders(v)' = NumHolders(v)
  BY DEF NumHolders, Holders

\* A conjunct of IInv is preserved by a step that leaves alone what it reads.
LEMMA FrameHome ==
  ASSUME OneHome, UNCHANGED <<pool, held, mine, job, cb>>
  PROVE  OneHome'
  BY DEF OneHome

\* The same for the versions that threads have to themselves ...
LEMMA FrameFresh ==
  ASSUME PrivateIsFresh, UNCHANGED <<mine, inner>>
  PROVE  PrivateIsFresh'
  BY DEF PrivateIsFresh

\* ... the counts of those in a slot ...
LEMMA FrameCurrent ==
  ASSUME CurrentCount, UNCHANGED <<cb, inner, held>>
  PROVE  CurrentCount'
  BY SameHolders DEF CurrentCount

\* ... of those being detached ...
LEMMA FrameDetaching ==
  ASSUME DetachingCount, UNCHANGED <<job, pc, refs, inner, held>>
  PROVE  DetachingCount'
  BY SameHolders DEF DetachingCount

\* ... of those that wait for their last release ...
LEMMA FrameWaiting ==
  ASSUME WaitingCount, UNCHANGED <<pool, mine, job, cb, inner, held>>
  PROVE  WaitingCount'
  <1>1. \A v \in Versions : Waiting(v)' <=> Waiting(v)
    BY DEF Waiting
  <1> QED
    BY <1>1, SameHolders DEF WaitingCount

\* ... and those being reclaimed.
LEMMA FrameReclaiming ==
  ASSUME ReclaimingIsUnheld, UNCHANGED <<job, pc, inner, held>>
  PROVE  ReclaimingIsUnheld'
  BY SameHolders DEF ReclaimingIsUnheld

\* OneHome is preserved too by a step that only ends some thread's job.
LEMMA FewerJobs ==
  ASSUME OneHome, UNCHANGED <<pool, held, mine, cb>>, NULL \notin pool,
         \A t \in Threads : job'[t] = job[t] \/ job'[t] = NULL
  PROVE  OneHome'
  <1>1. \A t, u \in Threads : job'[t] # NULL /\ job'[t] = job'[u] => t = u
    BY DEF OneHome
  <1>2. \A t \in Threads :
          mine[t] \notin pool /\ job'[t] \notin pool /\ held[t] \notin pool
    BY DEF OneHome
  <1>3. \A t, u \in Threads :
          mine[t] # NULL => mine[t] # job'[u] /\ mine[t] # held[u]
    BY DEF OneHome
  <1>4. \A t \in Threads, c \in Slots :
          /\ mine[t] # NULL => mine[t] # cb[c].handle
          /\ job'[t] # NULL => job'[t] # cb[c].handle
    BY DEF OneHome
  <1> QED
    BY <1>1, <1>2, <1>3, <1>4 DEF OneHome

\* Acquiring v adds one holder to v and none to any other version.
LEMMA OneMoreHolder ==
  ASSUME held \in [Threads -> Handles], NEW t \in Threads, NEW v,
         held[t] = NULL, v # NULL, held' = [held EXCEPT ![t] = v]
  PROVE  /\ NumHolders(v)' = NumHolders(v) + 1
         /\ NumHolders(v)' < M
         /\ \A w : w # v /\ w # NULL => NumHolders(w)' = NumHolders(w)
  <1>1. IsFiniteSet(Holders(v))
    BY FS_Subset, CountAssumption DEF Holders
  <1>2. Holders(v)' = Holders(v) \cup {t} /\ t \notin Holders(v)
    BY DEF Holders
  <1>3. NumHolders(v)' = NumHolders(v) + 1
    BY <1>1, <1>2, FS_AddElement, SMTT(30) DEF NumHolders
  <1>4. ASSUME NEW w, w # v, w # NULL
        PROVE  NumHolders(w)' = NumHolders(w)
    <2>1. Holders(w)' = Holders(w)
      BY <1>4 DEF Holders
    <2> QED
      BY <2>1 DEF NumHolders
  <1>5. NumHolders(v)' < M
    <2>1. Holders(v)' \in SUBSET Threads
      BY DEF Holders
    <2>2. Cardinality(Holders(v)') <= Cardinality(Threads)
      BY <2>1, FS_Subset, CountAssumption
    <2>3. IsFiniteSet(Holders(v)')
      BY <2>1, FS_Subset, CountAssumption
    <2> QED
      BY <2>2, <2>3, FS_CardinalityType, CountAssumption DEF NumHolders
  <1> QED
    BY <1>3, <1>4, <1>5

\* Releasing v takes one holder from v and none from any other version.
LEMMA OneLessHolder ==
  ASSUME held \in [Threads -> Handles], NEW t \in Threads,
         held[t] # NULL, held' = [held EXCEPT ![t] = NULL]
  PROVE  /\ NumHolders(held[t]) # 0
         /\ \A v : v = held[t] => NumHolders(v)' = NumHolders(v) - 1
         /\ \A w : w # held[t] /\ w # NULL => NumHolders(w)' = NumHolders(w)
  <1>0. NumHolders(held[t]) # 0
    BY HolderCount
  <1>1. ASSUME NEW v, v = held[t]
        PROVE  NumHolders(v)' = NumHolders(v) - 1
    <2>1. IsFiniteSet(Holders(v))
      BY FS_Subset, CountAssumption DEF Holders
    <2>2. Holders(v)' = Holders(v) \ {t} /\ t \in Holders(v)
      BY <1>1 DEF Holders
    <2> QED
      BY <2>1, <2>2, FS_RemoveElement, Zenon DEF NumHolders
  <1>2. ASSUME NEW w, w # held[t], w # NULL
        PROVE  NumHolders(w)' = NumHolders(w)
    <2>1. Holders(w)' = Holders(w)
      BY <1>2 DEF Holders
    <2> QED
      BY <2>1 DEF NumHolders
  <1> QED
    BY <1>0, <1>1, <1>2

-----------------------------------------------------------------------------
(***************************************************************************)
(* The inductive invariant holds initially ...                             *)
(***************************************************************************)

\* With every version in the pool and no thread in a call, IInv holds.
LEMMA InitInv == Init => IInv
  <1> SUFFICES ASSUME Init PROVE IInv
    OBVIOUS
  <1>1. TypeOK
    BY ModulusPositive DEF Init, TypeOK, ControlBlocks, InnerStates, Counters,
       Handles, Flags, PCs, EmptyBlock, FreshInner
  <1>2. OneHome /\ CallState /\ PrivateIsFresh
    BY NullAssumption DEF Init, OneHome, CallState, PrivateIsFresh, EmptyBlock
  <1>3. CurrentCount /\ DetachingCount /\ WaitingCount
    BY NullAssumption DEF Init, CurrentCount, DetachingCount, WaitingCount,
       Waiting, EmptyBlock
  <1>4. ReclaimingIsUnheld /\ FreedIsGone
    BY NullAssumption DEF Init, ReclaimingIsUnheld, FreedIsGone
  <1> QED
    BY <1>1, <1>2, <1>3, <1>4 DEF IInv

(***************************************************************************)
(* ... and every action preserves it.                                      *)
(***************************************************************************)

\* atomsnap_init_gate preserves IInv.
LEMMA InitGateInv ==
  ASSUME IInv, InitGate
  PROVE  IInv'
  <1>0. /\ gate' = "open"
        /\ cb' = [c \in Slots |-> EmptyBlock]
        /\ UNCHANGED <<inner, object, pool, held, mine, pc, job, refs, cur,
                       slot, val>>
        /\ \A c \in Slots : cb[c].handle = NULL
    BY DEF InitGate, IInv, CallState
  <1>1. TypeOK'
    BY <1>0, ModulusPositive DEF IInv, TypeOK, ControlBlocks, Counters, Handles,
       EmptyBlock
  <1>2. OneHome' /\ CallState'
    BY <1>0, NullAssumption DEF IInv, OneHome, CallState, EmptyBlock, TypeOK
  <1>3. CurrentCount' /\ DetachingCount'
    BY <1>0, SameHolders, NullAssumption DEF IInv, CurrentCount, DetachingCount,
       EmptyBlock
  <1>4. WaitingCount'
    BY <1>0, SameHolders, NullAssumption DEF IInv, WaitingCount, Waiting,
       EmptyBlock
  <1>5. PrivateIsFresh' /\ ReclaimingIsUnheld' /\ FreedIsGone'
    BY <1>0, SameHolders DEF IInv, PrivateIsFresh, ReclaimingIsUnheld, FreedIsGone
  <1> QED
    BY <1>1, <1>2, <1>3, <1>4, <1>5 DEF IInv

\* atomsnap_make_version preserves IInv.
LEMMA MakeVersionInv ==
  ASSUME IInv, NEW t \in Threads, NEW v \in Versions, MakeVersion(t, v)
  PROVE  IInv'
  <1>1. TypeOK'
    BY ModulusPositive DEF IInv, MakeVersion, TypeOK, InnerStates, Counters,
       Handles, Flags, FreshInner
  <1>2. OneHome'
    BY NullAssumption DEF IInv, MakeVersion, MayCall, OneHome, TypeOK, Handles
  <1>3. CallState' /\ PrivateIsFresh'
    BY NullAssumption DEF IInv, MakeVersion, MayCall, CallState, PrivateIsFresh,
       OneHome, TypeOK, Handles
  <1>4. CurrentCount' /\ DetachingCount'
    <2>1. /\ \A w \in Versions \ {v} : inner'[w] = inner[w]
          /\ \A c \in Slots : cb[c].handle # v
          /\ \A u \in Threads : job[u] # v
      BY DEF IInv, MakeVersion, OneHome, TypeOK
    <2> QED
      BY <2>1, SameHolders DEF IInv, MakeVersion, CurrentCount, DetachingCount
  <1>5. WaitingCount'
    <2> SUFFICES ASSUME NEW w \in Versions, Waiting(w)'
                 PROVE  w # v /\ Waiting(w)
      BY SameHolders DEF IInv, MakeVersion, WaitingCount, TypeOK
    <2> QED
      BY NullAssumption DEF IInv, MakeVersion, Waiting, TypeOK
  <1>6. ReclaimingIsUnheld' /\ FreedIsGone'
    BY SameHolders DEF IInv, MakeVersion, OneHome, ReclaimingIsUnheld,
       FreedIsGone, TypeOK
  <1> QED
    BY <1>1, <1>2, <1>3, <1>4, <1>5, <1>6 DEF IInv

\* atomsnap_destroy_gate preserves IInv.
LEMMA DestroyGateInv ==
  ASSUME IInv, DestroyGate
  PROVE  IInv'
  <1>1. TypeOK' /\ FreedIsGone'
    BY DEF IInv, DestroyGate, TypeOK, FreedIsGone
  <1>2. CallState'
    BY DEF IInv, DestroyGate, CallState
  <1>3. OneHome' /\ PrivateIsFresh'
    BY FrameHome, FrameFresh DEF IInv, DestroyGate
  <1>4. CurrentCount' /\ DetachingCount' /\ WaitingCount' /\ ReclaimingIsUnheld'
    BY FrameCurrent, FrameDetaching, FrameWaiting, FrameReclaiming
       DEF IInv, DestroyGate
  <1> QED
    BY <1>1, <1>2, <1>3, <1>4 DEF IInv

\* atomsnap_set_object preserves IInv: it sets the object of a version that
\* no other thread can reach.
LEMMA SetObjectInv ==
  ASSUME IInv, NEW t \in Threads, SetObject(t)
  PROVE  IInv'
  <1>1. TypeOK'
    BY Zenon DEF IInv, SetObject, TypeOK
  <1>2. CallState'
    BY DEF IInv, SetObject, CallState
  <1>3. OneHome' /\ PrivateIsFresh'
    BY FrameHome, FrameFresh DEF IInv, SetObject
  <1>4. CurrentCount' /\ DetachingCount' /\ WaitingCount' /\ ReclaimingIsUnheld'
    BY FrameCurrent, FrameDetaching, FrameWaiting, FrameReclaiming
       DEF IInv, SetObject
  <1>5. FreedIsGone'
    BY DEF IInv, SetObject, FreedIsGone, TypeOK
  <1> QED
    BY <1>1, <1>2, <1>3, <1>4, <1>5 DEF IInv

\* atomsnap_free_version, begun, preserves IInv: nobody holds a version that
\* was never published.
LEMMA FreeVersionInv ==
  ASSUME IInv, NEW t \in Threads, FreeVersion(t)
  PROVE  IInv'
  <1>0. /\ mine[t] \in Versions
        /\ job[t] = NULL
        /\ gate = "open"
        /\ \A u \in Threads : held[u] # mine[t]
    BY DEF IInv, FreeVersion, MayCall, OneHome, CallState, TypeOK, Handles
  <1>1. TypeOK'
    BY DEF IInv, FreeVersion, Goto, TypeOK, Handles, PCs
  <1>2. OneHome'
    BY <1>0 DEF IInv, FreeVersion, OneHome, TypeOK
  <1>3. CallState' /\ PrivateIsFresh'
    BY <1>0, NullAssumption DEF IInv, FreeVersion, MayCall, Goto, CallState,
       PrivateIsFresh, TypeOK
  <1>4. CurrentCount' /\ DetachingCount'
    <2>1. /\ pc'[t] = "callback"
          /\ \A u \in Threads \ {t} : pc'[u] = pc[u] /\ job'[u] = job[u]
      BY DEF IInv, FreeVersion, Goto, TypeOK
    <2>2. CurrentCount'
      BY SameHolders DEF IInv, FreeVersion, CurrentCount
    <2>3. DetachingCount'
      BY <2>1, SameHolders DEF IInv, FreeVersion, DetachingCount
    <2> QED
      BY <2>2, <2>3
  <1>5. WaitingCount'
    <2> SUFFICES ASSUME NEW w \in Versions, Waiting(w)'
                 PROVE  Waiting(w)
      BY SameHolders DEF IInv, FreeVersion, WaitingCount
    <2> QED
      BY <1>0, NullAssumption DEF IInv, FreeVersion, Waiting, TypeOK
  <1>6. ReclaimingIsUnheld'
    <2>1. NumHolders(mine[t]) = 0
      BY <1>0, HolderCount
    <2> QED
      BY <1>0, <2>1, SameHolders DEF IInv, FreeVersion, Goto, ReclaimingIsUnheld,
         TypeOK
  <1>7. FreedIsGone'
    BY <1>0, NullAssumption DEF IInv, FreeVersion, Goto, FreedIsGone, TypeOK
  <1> QED
    BY <1>1, <1>2, <1>3, <1>4, <1>5, <1>6, <1>7 DEF IInv

\* atomsnap_acquire_version_slot preserves IInv: the outer count of the
\* current version and the number of its holders go up together.
LEMMA AcquireVersionInv ==
  ASSUME IInv, NEW t \in Threads, NEW c \in Slots, AcquireVersion(t, c)
  PROVE  IInv'
  <1>1. TypeOK'
    BY IncValue, SMTT(30) DEF IInv, AcquireVersion, Acquired, TypeOK,
       ControlBlocks
  <1>2. \A d \in Slots : cb'[d].handle = cb[d].handle
    BY DEF IInv, AcquireVersion, Acquired, TypeOK, ControlBlocks
  <1>3. OneHome'
    BY <1>2, NullAssumption, SMTT(30) DEF IInv, AcquireVersion, OneHome,
       TypeOK, Handles
  <1>4. CallState' /\ PrivateIsFresh' /\ FreedIsGone'
    BY <1>2 DEF IInv, AcquireVersion, MayCall, CallState, PrivateIsFresh,
       FreedIsGone
  <1>5. \A w \in Versions : w # cb[c].handle => NumHolders(w)' = NumHolders(w)
    <2>1. CASE cb[c].handle = NULL
      BY <2>1, SameHolders DEF IInv, AcquireVersion, TypeOK
    <2>2. CASE cb[c].handle # NULL
      <3>1. PICK h \in Versions : h = cb[c].handle
        BY <2>2 DEF IInv, TypeOK, ControlBlocks, Handles
      <3>2. /\ held \in [Threads -> Handles] /\ held[t] = NULL /\ h # NULL
            /\ held' = [held EXCEPT ![t] = h]
        BY <3>1, NullAssumption DEF IInv, AcquireVersion, TypeOK
      <3>3. \A w : w # h /\ w # NULL => NumHolders(w)' = NumHolders(w)
        BY <3>2, OneMoreHolder, Zenon
      <3> QED
        BY <3>1, <3>3, NullAssumption
    <2> QED
      BY <2>1, <2>2
  <1>6. CurrentCount'
    <2> SUFFICES ASSUME NEW d \in Slots, NEW w \in Versions, cb'[d].handle = w
                 PROVE  /\ inner'[w].flags = {}
                        /\ NumHolders(w)' = Sub(cb'[d].refs, inner'[w].cnt)
      BY DEF CurrentCount
    <2>0. /\ inner[w].flags = {} /\ inner' = inner
          /\ NumHolders(w) = Sub(cb[d].refs, inner[w].cnt)
      BY <1>2 DEF IInv, CurrentCount, AcquireVersion
    <2>1. CASE d = c
      <3>1. NumHolders(w)' = NumHolders(w) + 1 /\ NumHolders(w)' < M
        BY <1>2, <2>1, OneMoreHolder, NullAssumption, Zenon DEF IInv,
           AcquireVersion, TypeOK
      <3>2. cb'[d].refs = Inc(cb[d].refs)
        BY <2>1 DEF IInv, AcquireVersion, Acquired, TypeOK, ControlBlocks
      <3>3. cb[d].refs \in Counters /\ inner[w].cnt \in Counters
        BY DEF IInv, TypeOK, ControlBlocks, InnerStates
      <3> QED
        BY <2>0, <3>1, <3>2, <3>3, SubIncLeft
    <2>2. CASE d # c
      <3>1. w # cb[c].handle /\ cb'[d] = cb[d]
        BY <1>2, <2>2, NullAssumption DEF IInv, OneHome, AcquireVersion, TypeOK
      <3> QED
        BY <1>5, <2>0, <3>1
    <2> QED
      BY <2>1, <2>2
  <1>7. DetachingCount' /\ WaitingCount' /\ ReclaimingIsUnheld'
    <2>1. \A u \in Threads : job[u] \in Versions => job[u] # cb[c].handle
      BY NullAssumption DEF IInv, OneHome
    <2>2. \A w \in Versions : Waiting(w)' => Waiting(w) /\ w # cb[c].handle
      BY <1>2 DEF AcquireVersion, Waiting
    <2> QED
      BY <1>5, <2>1, <2>2, Zenon DEF IInv, AcquireVersion, DetachingCount,
         WaitingCount, ReclaimingIsUnheld
  <1> QED
    BY <1>1, <1>3, <1>4, <1>6, <1>7 DEF IInv

\* atomsnap_release_version preserves IInv: the inner count of the version
\* goes up as the number of its holders goes down, and the release that
\* brings a detached version to zero is the one of its last holder.
LEMMA ReleaseVersionInv ==
  ASSUME IInv, NEW t \in Threads, ReleaseVersion(t)
  PROVE  IInv'
  <1>0. PICK v \in Versions : v = held[t]
    BY DEF IInv, ReleaseVersion, TypeOK, Handles
  <1>1. /\ gate = "open" /\ pc[t] = "idle" /\ job[t] = NULL
        /\ v \notin pool /\ v # NULL
        /\ \A u \in Threads : mine[u] # v
    BY <1>0, NullAssumption
       DEF IInv, ReleaseVersion, MayCall, CallState, OneHome
  <1>2. /\ inner[v].cnt \in Counters
        /\ inner'[v].cnt = Inc(inner[v].cnt)
        /\ inner'[v].flags = inner[v].flags
        /\ \A w \in Versions : w # v => inner'[w] = inner[w]
    BY <1>0 DEF IInv, ReleaseVersion, Released, TypeOK, InnerStates
  <1>3. /\ NumHolders(v) # 0
        /\ NumHolders(v)' = NumHolders(v) - 1
        /\ \A w \in Versions : w # v => NumHolders(w)' = NumHolders(w)
    <2>1. held \in [Threads -> Handles] /\ held[t] # NULL
          /\ held' = [held EXCEPT ![t] = NULL]
      BY DEF IInv, ReleaseVersion, TypeOK
    <2> QED
      BY <1>0, <2>1, OneLessHolder, NullAssumption, Zenon
  <1>4. \A x \in Counters : NumHolders(v) = Sub(x, inner[v].cnt)
          => NumHolders(v)' = Sub(x, inner'[v].cnt)
    BY <1>2, <1>3, SubIncRight
  <1>5. "DETACHED" \in inner[v].flags => Waiting(v)
    <2>1. \A c \in Slots : cb[c].handle = v => inner[v].flags = {}
      BY DEF IInv, CurrentCount
    <2>2. \A u \in Threads : job[u] = v => pc[u] \in {"load", "detach"}
      BY <1>1, <1>3 DEF IInv, ReclaimingIsUnheld, CallState, TypeOK, PCs
    <2>3. \A u \in Threads : job[u] = v => inner[v].flags = {}
      BY <2>2 DEF IInv, DetachingCount
    <2> QED
      BY <1>1, <2>1, <2>3 DEF Waiting
  <1> DEFINE R == Reclaimable(Released(inner[v]))
  <1>6. R <=> "DETACHED" \in inner[v].flags /\ Inc(inner[v].cnt) = 0
    BY DEF IInv, TypeOK, InnerStates, Reclaimable, Released
  <1>7. /\ pc' = [pc EXCEPT ![t] = IF R THEN "finalize" ELSE "idle"]
        /\ job' = [job EXCEPT ![t] = IF R THEN v ELSE NULL]
        /\ held' = [held EXCEPT ![t] = NULL]
        /\ UNCHANGED <<gate, cb, object, pool, mine, refs, cur, slot, val>>
    BY <1>0 DEF ReleaseVersion, TryFinalize, Goto
  <1> HIDE DEF R
  <1>8. TypeOK'
    <2>1. inner' \in [Versions -> InnerStates]
      BY <1>0, IncValue, SMTT(30) DEF IInv, ReleaseVersion, Released, TypeOK,
         InnerStates
    <2>2. pc' \in [Threads -> PCs] /\ job' \in [Threads -> Handles]
          /\ held' \in [Threads -> Handles]
      BY <1>7 DEF IInv, TypeOK, PCs, Handles
    <2> QED
      BY <1>7, <2>1, <2>2 DEF IInv, TypeOK
  <1>9. PrivateIsFresh'
    BY <1>1, <1>2, <1>7 DEF IInv, PrivateIsFresh, TypeOK, Handles
  <1>10. CASE R
    <2>1. Waiting(v) /\ inner[v].flags = {"DETACHED"} /\ NumHolders(v)' = 0
      <3>1. /\ Waiting(v) /\ inner[v].flags = {"DETACHED"}
            /\ NumHolders(v) = Sub(0, inner[v].cnt)
        BY <1>5, <1>6, <1>10 DEF IInv, WaitingCount
      <3>2. 0 \in Counters
        BY ModulusPositive DEF Counters
      <3>3. NumHolders(v)' = Sub(0, Inc(inner[v].cnt))
        BY <1>2, <1>4, <3>1, <3>2
      <3> QED
        BY <1>6, <1>10, <3>1, <3>2, <3>3, SubZero
    <2>2. /\ pc'[t] = "finalize" /\ job'[t] = v
          /\ \A u \in Threads : u # t => pc'[u] = pc[u] /\ job'[u] = job[u]
      BY <1>7, <1>10, SMTT(30) DEF IInv, TypeOK
    <2>3. OneHome'
      BY <1>1, <1>7, <2>1, <2>2, NullAssumption, SMTT(30) DEF IInv, OneHome,
         Waiting, TypeOK
    <2>4. CallState'
      BY <1>1, <1>7, <2>2 DEF IInv, CallState
    <2>5. CurrentCount' /\ DetachingCount'
      <3>1. CurrentCount'
        BY <1>2, <1>3, <1>7, <2>1, SMTT(30) DEF IInv, CurrentCount, Waiting
      <3>2. DetachingCount'
        BY <1>2, <1>3, <1>7, <2>1, <2>2 DEF IInv, DetachingCount, Waiting
      <3> QED
        BY <3>1, <3>2, SMTT(30)
    <2>6. WaitingCount'
      <3>1. \A w \in Versions : Waiting(w)' => w # v /\ Waiting(w)
        BY <1>1, <1>7, <2>2, NullAssumption DEF Waiting
      <3> QED
        BY <1>2, <1>3, <3>1 DEF IInv, WaitingCount
    <2>7. ReclaimingIsUnheld'
      BY <1>2, <1>3, <2>1, <2>2 DEF IInv, ReclaimingIsUnheld, Waiting
    <2>8. FreedIsGone'
      BY <1>1, <1>7, <2>2, NullAssumption DEF IInv, FreedIsGone
    <2> QED
      BY <1>8, <1>9, <2>3, <2>4, <2>5, <2>6, <2>7, <2>8 DEF IInv
  <1>11. CASE ~R
    <2>1. pc' = pc /\ job' = job
      BY <1>1, <1>7, <1>11, SMTT(30) DEF IInv, TypeOK
    <2>2. OneHome' /\ CallState' /\ FreedIsGone'
      BY <1>1, <1>7, <2>1, NullAssumption, SMTT(30) DEF IInv, OneHome,
         CallState, FreedIsGone, TypeOK
    <2>3. CurrentCount'
      <3> SUFFICES ASSUME NEW c \in Slots, NEW w \in Versions, cb[c].handle = w
                   PROVE  /\ inner'[w].flags = {}
                          /\ NumHolders(w)' = Sub(cb[c].refs, inner'[w].cnt)
        BY <1>7 DEF CurrentCount
      <3>1. cb[c].refs \in Counters
        BY SMTT(30) DEF IInv, TypeOK, ControlBlocks
      <3> QED
        BY <1>2, <1>3, <1>4, <3>1, SMTT(30) DEF IInv, CurrentCount
    <2>4. DetachingCount'
      BY <1>2, <1>3, <1>4, <1>7, <2>1, SMTT(30) DEF IInv, DetachingCount,
         TypeOK
    <2>5. WaitingCount'
      <3> SUFFICES ASSUME NEW w \in Versions, Waiting(w)
                   PROVE  /\ inner'[w].flags = {"DETACHED"}
                          /\ NumHolders(w)' = Sub(0, inner'[w].cnt)
                          /\ NumHolders(w)' # 0
        BY <1>7, <2>1 DEF WaitingCount, Waiting
      <3>1. /\ inner[w].flags = {"DETACHED"} /\ NumHolders(w) # 0
            /\ NumHolders(w) = Sub(0, inner[w].cnt)
        BY DEF IInv, WaitingCount
      <3>2. CASE w = v
        <4>1. Inc(inner[v].cnt) # 0
          BY <1>6, <1>11, <3>1, <3>2
        <4>2. 0 \in Counters /\ Inc(inner[v].cnt) \in Counters
          BY <1>2, IncValue, ModulusPositive DEF Counters
        <4> QED
          BY <1>2, <1>4, <3>1, <3>2, <4>1, <4>2, SubZero
      <3> QED
        BY <1>2, <1>3, <3>1, <3>2
    <2>6. ReclaimingIsUnheld'
      BY <1>2, <1>3, <2>1 DEF IInv, ReclaimingIsUnheld
    <2> QED
      BY <1>8, <1>9, <2>2, <2>3, <2>4, <2>5, <2>6 DEF IInv
  <1> QED
    BY <1>10, <1>11

-----------------------------------------------------------------------------
(***************************************************************************)
(* IInv is preserved by exchange, by every step of compare_exchange, and   *)
(* by the detachment of the version they displace.                         *)
(***************************************************************************)

\* What exchange and a successful compare_exchange have in common preserves
\* IInv: the published version starts with no holder and a fresh word, and
\* the old one takes its outer count along to detach_and_adjust.
LEMMA InstallInv ==
  ASSUME IInv, NEW t \in Threads, NEW c \in Slots, gate = "open", job[t] = NULL,
         cb' = [cb EXCEPT ![c] = Installed(mine[t])],
         mine' = [mine EXCEPT ![t] = NULL],
         SwappedOut(t, cb[c]),
         UNCHANGED <<gate, inner, object, pool, held>>,
         TypeOK',
         \A u \in Threads : pc'[u] = "cas" => slot'[u] \in Slots
  PROVE  IInv'
  <1>1. /\ cb'[c].handle = mine[t] /\ cb'[c].refs = 0
        /\ \A d \in Slots : d # c => cb'[d] = cb[d]
    BY DEF IInv, TypeOK, Installed
  <1>2. /\ pc'[t] = IF cb[c].handle = NULL THEN "idle" ELSE "load"
        /\ job'[t] = cb[c].handle
        /\ cb[c].handle # NULL => refs'[t] = cb[c].refs
        /\ \A u \in Threads : u # t =>
             pc'[u] = pc[u] /\ job'[u] = job[u] /\ refs'[u] = refs[u]
    BY DEF IInv, TypeOK, SwappedOut, Goto
  <1>3. mine'[t] = NULL /\ \A u \in Threads : u # t => mine'[u] = mine[u]
    BY DEF IInv, TypeOK
  <1>4. OneHome'
    <2>1. /\ \A u, w \in Threads : mine'[u] # NULL /\ mine'[u] = mine'[w] => u = w
          /\ \A u, w \in Threads : job'[u] # NULL /\ job'[u] = job'[w] => u = w
      BY <1>2, <1>3 DEF IInv, OneHome
    <2>2. \A d, e \in Slots :
            cb'[d].handle # NULL /\ cb'[d].handle = cb'[e].handle => d = e
      BY <1>1 DEF IInv, OneHome
    <2>3. /\ \A u \in Threads : mine'[u] \notin pool' /\ job'[u] \notin pool'
                                /\ held'[u] \notin pool'
          /\ \A d \in Slots : cb'[d].handle \notin pool'
      BY <1>1, <1>2, <1>3, NullAssumption DEF IInv, OneHome, TypeOK
    <2>4. \A u, w \in Threads : mine'[u] # NULL =>
            mine'[u] # job'[w] /\ mine'[u] # held'[w]
      BY <1>2, <1>3 DEF IInv, OneHome
    <2>5. \A u \in Threads, d \in Slots :
            /\ mine'[u] # NULL => mine'[u] # cb'[d].handle
            /\ job'[u] # NULL => job'[u] # cb'[d].handle
      BY <1>1, <1>2, <1>3 DEF IInv, OneHome
    <2> QED
      BY <2>1, <2>2, <2>3, <2>4, <2>5 DEF OneHome
  <1>5. CallState'
    BY <1>2 DEF IInv, CallState
  <1>6. PrivateIsFresh' /\ FreedIsGone'
    BY <1>2, <1>3, NullAssumption DEF IInv, PrivateIsFresh, FreedIsGone
  <1>7. CurrentCount'
    <2> SUFFICES ASSUME NEW d \in Slots, NEW w \in Versions, cb'[d].handle = w
                 PROVE  /\ inner[w].flags = {}
                        /\ NumHolders(w) = Sub(cb'[d].refs, inner[w].cnt)
      BY SameHolders, SMTT(30) DEF CurrentCount
    <2>1. CASE d = c
      <3>1. inner[w] = FreshInner /\ \A u \in Threads : held[u] # w
        BY <1>1, <2>1, NullAssumption DEF IInv, PrivateIsFresh, OneHome
      <3>2. NumHolders(w) = 0
        BY <3>1, HolderCount
      <3>3. Sub(0, 0) = 0
        BY SubZero, ModulusPositive DEF Counters
      <3> QED
        BY <1>1, <2>1, <3>1, <3>2, <3>3 DEF FreshInner
    <2>2. CASE d # c
      BY <1>1, <2>2, SMTT(30) DEF IInv, CurrentCount
    <2> QED
      BY <2>1, <2>2
  <1>8. DetachingCount'
    <2> SUFFICES ASSUME NEW u \in Threads, NEW w \in Versions, job'[u] = w,
                        pc'[u] \in {"load", "detach"}
                 PROVE  /\ inner[w].flags = {}
                        /\ NumHolders(w) = Sub(refs'[u], inner[w].cnt)
      BY SameHolders DEF DetachingCount
    <2>1. CASE u = t
      <3>1. cb[c].handle = w /\ refs'[u] = cb[c].refs
        BY <1>2, <2>1, NullAssumption
      <3> QED
        BY <3>1 DEF IInv, CurrentCount
    <2>2. CASE u # t
      BY <1>2, <2>2 DEF IInv, DetachingCount
    <2> QED
      BY <2>1, <2>2
  <1>9. WaitingCount'
    <2>1. \A w \in Versions : Waiting(w)' => Waiting(w)
      <3> SUFFICES ASSUME NEW w \in Versions, Waiting(w)'
                   PROVE  Waiting(w)
        OBVIOUS
      <3>1. w # cb[c].handle /\ w # mine[t]
        BY <1>1, <1>2 DEF Waiting
      <3>2. \A u \in Threads : mine[u] # w /\ job[u] # w
        BY <1>2, <1>3, <3>1, NullAssumption DEF Waiting
      <3>3. \A d \in Slots : cb[d].handle # w
        BY <1>1, <3>1 DEF Waiting
      <3> QED
        BY <3>2, <3>3 DEF Waiting
    <2> QED
      BY <2>1, SameHolders DEF IInv, WaitingCount
  <1>10. ReclaimingIsUnheld'
    BY <1>2, SameHolders DEF IInv, ReclaimingIsUnheld
  <1> QED
    BY <1>4, <1>5, <1>6, <1>7, <1>8, <1>9, <1>10 DEF IInv

\* atomsnap_exchange_version_slot, up to its swap, preserves IInv.
LEMMA ExchangeVersionInv ==
  ASSUME IInv, NEW t \in Threads, NEW c \in Slots, ExchangeVersion(t, c)
  PROVE  IInv'
  <1>1. TypeOK'
    BY ModulusPositive DEF IInv, ExchangeVersion, SwappedOut, Installed, Goto,
       TypeOK, ControlBlocks, Counters, Handles, PCs
  <1>2. \A u \in Threads : pc'[u] = "cas" => slot'[u] \in Slots
    BY DEF IInv, CallState, ExchangeVersion, SwappedOut, Goto, TypeOK
  <1>3. gate = "open" /\ job[t] = NULL
    BY DEF IInv, CallState, ExchangeVersion, MayCall
  <1> QED
    BY <1>1, <1>2, <1>3, InstallInv, Zenon DEF ExchangeVersion

\* The successful CAS of compare_exchange preserves IInv.
LEMMA CasSucceedsInv ==
  ASSUME IInv, NEW t \in Threads, CasSucceeds(t)
  PROVE  IInv'
  <1>0. /\ gate = "open" /\ job[t] = NULL
        /\ slot[t] \in Slots /\ val[t] = cb[slot[t]]
    BY DEF IInv, CallState, CasSucceeds, TypeOK
  <1>1. TypeOK'
    BY <1>0, ModulusPositive DEF IInv, CasSucceeds, SwappedOut, Installed, Goto,
       TypeOK, ControlBlocks, Counters, Handles, PCs, EmptyBlock
  <1>2. \A u \in Threads : pc'[u] = "cas" => slot'[u] \in Slots
    BY DEF IInv, CallState, CasSucceeds, SwappedOut, Goto, TypeOK
  <1>3. PICK c \in Slots : c = slot[t]
    BY <1>0
  <1>4. /\ cb' = [cb EXCEPT ![c] = Installed(mine[t])]
        /\ mine' = [mine EXCEPT ![t] = NULL]
        /\ SwappedOut(t, cb[c])
        /\ UNCHANGED <<gate, inner, object, pool, held>>
    BY <1>0, <1>3 DEF CasSucceeds
  <1> QED
    BY <1>0, <1>1, <1>2, <1>4, InstallInv, Zenon

\* The steps of compare_exchange that write no shared word preserve IInv.
LEMMA CasReadInv ==
  ASSUME IInv, NEW t \in Threads,
         \/ \E c \in Slots, expected \in Handles : CompareExchange(t, c, expected)
         \/ CasRetries(t)
         \/ CasFails(t)
  PROVE  IInv'
  <1>0. /\ gate = "open" /\ job[t] = NULL
        /\ UNCHANGED <<gate, cb, inner, object, pool, held, mine, job, refs, cur>>
    BY DEF IInv, CallState, CompareExchange, MayCall, CasRetries, CasFails, TypeOK
  <1>1. /\ pc[t] \in {"idle", "cas"} /\ pc'[t] \in {"idle", "cas"}
        /\ \A u \in Threads : u # t => pc'[u] = pc[u] /\ slot'[u] = slot[u]
        /\ pc'[t] = "cas" => slot'[t] \in Slots
    BY DEF IInv, CallState, CompareExchange, MayCall, CasRetries, CasFails, Goto,
       TypeOK
  <1>2. TypeOK'
    <2>1. CASE \E c \in Slots, expected \in Handles :
                 CompareExchange(t, c, expected)
      BY <2>1 DEF IInv, CompareExchange, Goto, TypeOK, PCs
    <2>2. CASE CasRetries(t)
      BY <2>2 DEF IInv, CallState, CasRetries, TypeOK
    <2>3. CASE CasFails(t)
      BY <2>3, ModulusPositive DEF IInv, CasFails, Goto, TypeOK, PCs,
         ControlBlocks, Counters, Handles, EmptyBlock
    <2> QED
      BY <2>1, <2>2, <2>3
  <1>3. OneHome' /\ PrivateIsFresh' /\ CurrentCount'
    BY <1>0, FrameHome, FrameFresh, FrameCurrent DEF IInv
  <1>4. CallState'
    BY <1>0, <1>1, SMTT(30) DEF IInv, CallState
  <1>5. DetachingCount'
    BY <1>0, <1>1, SameHolders DEF IInv, DetachingCount
  <1>6. WaitingCount'
    BY <1>0, FrameWaiting, SMTT(30) DEF IInv
  <1>7. ReclaimingIsUnheld' /\ FreedIsGone'
    BY <1>0, <1>1, SameHolders DEF IInv, ReclaimingIsUnheld, FreedIsGone
  <1> QED
    BY <1>2, <1>3, <1>4, <1>5, <1>6, <1>7 DEF IInv

\* The loads of detach_and_adjust preserve IInv.
LEMMA DetachReadInv ==
  ASSUME IInv, NEW t \in Threads, DetachLoads(t) \/ DetachRetries(t)
  PROVE  IInv'
  <1>0. /\ job[t] \in Versions
        /\ cur' = [cur EXCEPT ![t] = inner[job[t]]]
        /\ UNCHANGED <<gate, cb, inner, object, pool, held, mine, job, refs, slot,
                       val>>
    BY DEF IInv, CallState, DetachLoads, DetachRetries, TypeOK, Handles
  <1>1. /\ pc[t] \in {"load", "detach"} /\ pc'[t] = "detach"
        /\ pc' \in [Threads -> PCs]
        /\ \A u \in Threads : u # t => pc'[u] = pc[u]
    BY DEF IInv, DetachLoads, DetachRetries, Goto, TypeOK, PCs
  <1>2. TypeOK'
    BY <1>0, <1>1, Zenon DEF IInv, TypeOK
  <1>3. OneHome' /\ PrivateIsFresh' /\ CurrentCount'
    BY <1>0, FrameHome, FrameFresh, FrameCurrent, SMTT(30) DEF IInv
  <1>4. CallState'
    BY <1>0, <1>1 DEF IInv, CallState
  <1>5. DetachingCount'
    BY <1>0, <1>1, SameHolders DEF IInv, DetachingCount
  <1>6. WaitingCount'
    BY <1>0, FrameWaiting DEF IInv
  <1>7. ReclaimingIsUnheld' /\ FreedIsGone'
    BY <1>0, <1>1, SameHolders DEF IInv, ReclaimingIsUnheld, FreedIsGone
  <1> QED
    BY <1>2, <1>3, <1>4, <1>5, <1>6, <1>7 DEF IInv

\* The CAS of detach_and_adjust preserves IInv: subtracting the outer count
\* turns the number of holders into the distance of the counter to zero, so
\* that the writer finalizes if and only if no holder is left to do it.
LEMMA DetachSucceedsInv ==
  ASSUME IInv, NEW t \in Threads, DetachSucceeds(t)
  PROVE  IInv'
  <1>0. PICK v \in Versions : v = job[t]
    BY SMTT(30) DEF IInv, CallState, DetachSucceeds, TypeOK, Handles
  <1>1. /\ gate = "open" /\ pc[t] = "detach" /\ v # NULL /\ cur[t] = inner[v]
        /\ inner[v].flags = {}
        /\ NumHolders(v) = Sub(refs[t], inner[v].cnt)
        /\ v \notin pool
        /\ \A u \in Threads : mine[u] # v /\ (u # t => job[u] # v)
        /\ \A c \in Slots : cb[c].handle # v
    BY <1>0, NullAssumption
       DEF IInv, DetachSucceeds, DetachingCount, CallState, OneHome, TypeOK
  <1>2. refs[t] \in Counters /\ inner[v].cnt \in Counters
    BY DEF IInv, TypeOK, InnerStates
  <1> DEFINE s == Adjusted(inner[v], refs[t])
  <1>3. s.flags = {"DETACHED"} /\ s.cnt \in Counters /\ s \in InnerStates
    BY <1>1, <1>2, SubValue DEF Adjusted, InnerStates, Flags
  <1>4. NumHolders(v) = Sub(0, s.cnt)
    BY <1>1, <1>2, SubFlip DEF Adjusted
  <1>5. Reclaimable(s) <=> NumHolders(v) = 0
    BY <1>3, <1>4, SubZero DEF Reclaimable
  <1>6. /\ inner' = [inner EXCEPT ![v] = s]
        /\ pc' = [pc EXCEPT ![t] = IF Reclaimable(s) THEN "finalize" ELSE "idle"]
        /\ job' = [job EXCEPT ![t] = IF Reclaimable(s) THEN v ELSE NULL]
        /\ refs' = [refs EXCEPT ![t] = 0]
        /\ cur' = [cur EXCEPT ![t] = FreshInner]
        /\ UNCHANGED <<gate, cb, object, pool, held, mine, slot, val>>
    BY <1>0, <1>1, Zenon DEF DetachSucceeds, TryFinalize, Goto
  <1> HIDE DEF s
  <1>7. TypeOK'
    BY <1>3, <1>6, ModulusPositive DEF IInv, TypeOK, Handles, PCs, Counters,
       InnerStates, FreshInner
  <1>8. /\ inner'[v] = s
        /\ \A w \in Versions : w # v => inner'[w] = inner[w]
        /\ \A u \in Threads : u # t =>
             pc'[u] = pc[u] /\ job'[u] = job[u] /\ refs'[u] = refs[u]
        /\ IF Reclaimable(s) THEN pc'[t] = "finalize" /\ job'[t] = v
                             ELSE pc'[t] = "idle" /\ job'[t] = NULL
    BY <1>6 DEF IInv, TypeOK
  <1>9. OneHome'
    <2>1. \A u \in Threads : job'[u] = job[u] \/ job'[u] = NULL
      BY <1>0, <1>8
    <2>2. UNCHANGED <<pool, held, mine, cb>>
      BY <1>6
    <2>3. NULL \notin pool
      BY NullAssumption DEF IInv, TypeOK
    <2> QED
      BY <2>1, <2>2, <2>3, FewerJobs DEF IInv
  <1>10. CallState'
    BY <1>1, <1>6, <1>8, SMTT(30) DEF IInv, CallState
  <1>11. PrivateIsFresh'
    BY <1>1, <1>6, <1>8, SMTT(30) DEF IInv, PrivateIsFresh, TypeOK, Handles
  <1>12. CurrentCount'
    BY <1>1, <1>6, <1>8, SameHolders, SMTT(30) DEF IInv, CurrentCount
  <1>13. DetachingCount'
    BY <1>1, <1>6, <1>8, SameHolders, SMTT(30) DEF IInv, DetachingCount
  <1>14. WaitingCount'
    <2> SUFFICES ASSUME NEW w \in Versions, Waiting(w)'
                 PROVE  /\ inner'[w].flags = {"DETACHED"}
                        /\ NumHolders(w) = Sub(0, inner'[w].cnt)
                        /\ NumHolders(w) # 0
      BY <1>6, SameHolders DEF WaitingCount
    <2>1. CASE w = v
      <3>1. ~Reclaimable(s)
        BY <1>8, <2>1 DEF Waiting
      <3> QED
        BY <1>3, <1>4, <1>5, <1>8, <2>1, <3>1
    <2>2. CASE w # v
      <3>1. Waiting(w)
        BY <1>0, <1>6, <1>8, <2>2, SMTT(30) DEF Waiting
      <3> QED
        BY <1>8, <2>2, <3>1 DEF IInv, WaitingCount
    <2> QED
      BY <2>1, <2>2
  <1>15. ReclaimingIsUnheld'
    BY <1>1, <1>3, <1>5, <1>6, <1>8, SameHolders, SMTT(30) DEF IInv,
       ReclaimingIsUnheld
  <1>16. FreedIsGone'
    BY <1>1, <1>6, <1>8 DEF IInv, FreedIsGone
  <1> QED
    BY <1>7, <1>9, <1>10, <1>11, <1>12, <1>13, <1>14, <1>15, <1>16 DEF IInv

-----------------------------------------------------------------------------
(***************************************************************************)
(* Reclaiming a version preserves IInv: the last releaser, or the thread   *)
(* that detached the version, claims it, runs the callback and frees it.   *)
(***************************************************************************)

\* Claiming FINALIZED preserves IInv, and never finds it claimed.
LEMMA FinalizeInv ==
  ASSUME IInv, NEW t \in Threads, Finalize(t)
  PROVE  IInv'
  <1>0. PICK v \in Versions : v = job[t]
    BY DEF IInv, CallState, Finalize, TypeOK, Handles
  <1>1. /\ gate = "open" /\ v # NULL /\ NumHolders(v) = 0
        /\ inner[v].flags = {"DETACHED"}
        /\ \A u \in Threads : mine[u] # v /\ (u # t => job[u] # v)
        /\ \A c \in Slots : cb[c].handle # v
    BY <1>0, NullAssumption
       DEF IInv, Finalize, ReclaimingIsUnheld, CallState, OneHome, TypeOK
  <1>2. /\ \A w \in Versions : w # v => inner'[w] = inner[w]
        /\ pc' = [pc EXCEPT ![t] = "callback"]
        /\ UNCHANGED <<gate, cb, object, pool, held, mine, job, refs, cur, slot,
                       val>>
    BY <1>0, <1>1 DEF IInv, Finalize, Goto, TypeOK
  <1>3. TypeOK'
    <2>1. inner' \in [Versions -> InnerStates]
      BY <1>0, SMTT(30) DEF IInv, Finalize, TypeOK, InnerStates, Flags
    <2> QED
      BY <1>2, <2>1 DEF IInv, TypeOK, PCs
  <1>4. pc'[t] = "callback" /\ \A u \in Threads : u # t => pc'[u] = pc[u]
    BY <1>2 DEF IInv, TypeOK
  <1>5. OneHome'
    BY <1>2, FrameHome DEF IInv
  <1>6. CallState'
    BY <1>0, <1>1, <1>2, <1>4 DEF IInv, CallState
  <1>7. PrivateIsFresh'
    BY <1>1, <1>2 DEF IInv, PrivateIsFresh, TypeOK, Handles
  <1>8. CurrentCount'
    BY <1>1, <1>2, SameHolders DEF IInv, CurrentCount
  <1>9. DetachingCount'
    BY <1>1, <1>2, <1>4, SameHolders DEF IInv, DetachingCount
  <1>10. WaitingCount'
    BY <1>0, <1>2, SameHolders DEF IInv, WaitingCount, Waiting
  <1>11. ReclaimingIsUnheld'
    BY <1>0, <1>1, <1>2, <1>4, SameHolders DEF IInv, ReclaimingIsUnheld
  <1>12. FreedIsGone'
    BY <1>0, <1>2, <1>4 DEF IInv, Finalize, FreedIsGone
  <1> QED
    BY <1>3, <1>5, <1>6, <1>7, <1>8, <1>9, <1>10, <1>11, <1>12 DEF IInv

\* The user callback preserves IInv.
LEMMA CallbackInv ==
  ASSUME IInv, NEW t \in Threads, Callback(t)
  PROVE  IInv'
  <1>0. job[t] \in Versions /\ gate = "open"
    BY DEF IInv, CallState, Callback, TypeOK, Handles
  <1>1. /\ pc'[t] = "free" /\ \A u \in Threads : u # t => pc'[u] = pc[u]
        /\ \A w \in Versions : w # job[t] => object'[w] = object[w]
        /\ UNCHANGED <<gate, cb, inner, pool, held, mine, job, refs, cur, slot,
                       val>>
    BY DEF IInv, Callback, Goto, TypeOK
  <1>2. TypeOK'
    BY Zenon DEF IInv, Callback, Goto, TypeOK, PCs
  <1>3. OneHome' /\ PrivateIsFresh' /\ CurrentCount'
    BY <1>1, FrameHome, FrameFresh, FrameCurrent DEF IInv
  <1>4. CallState'
    BY <1>0, <1>1, NullAssumption DEF IInv, CallState
  <1>5. DetachingCount'
    BY <1>1, SameHolders DEF IInv, DetachingCount
  <1>6. WaitingCount'
    BY <1>1, FrameWaiting DEF IInv
  <1>7. ReclaimingIsUnheld'
    BY <1>1, SameHolders DEF IInv, Callback, ReclaimingIsUnheld
  <1>8. FreedIsGone'
    BY <1>1 DEF IInv, Callback, FreedIsGone
  <1> QED
    BY <1>2, <1>3, <1>4, <1>5, <1>6, <1>7, <1>8 DEF IInv

\* free_slot preserves IInv: nobody has a pointer to the slot it returns.
LEMMA FreeSlotInv ==
  ASSUME IInv, NEW t \in Threads, FreeSlot(t)
  PROVE  IInv'
  <1>0. PICK v \in Versions : v = job[t]
    BY DEF IInv, CallState, FreeSlot, TypeOK, Handles
  <1>1. /\ gate = "open" /\ v # NULL /\ NumHolders(v) = 0
        /\ \A u \in Threads : mine[u] # v /\ (u # t => job[u] # v)
        /\ \A c \in Slots : cb[c].handle # v
    BY <1>0, NullAssumption
       DEF IInv, FreeSlot, ReclaimingIsUnheld, CallState, OneHome, TypeOK
  <1>2. \A u \in Threads : held[u] # v
    BY <1>1, HolderCount
  <1>3. /\ pc'[t] = "idle" /\ job'[t] = NULL
        /\ \A u \in Threads : u # t => pc'[u] = pc[u] /\ job'[u] = job[u]
        /\ pool' = pool \cup {v}
        /\ UNCHANGED <<gate, cb, inner, object, held, mine, refs, cur, slot, val>>
    BY <1>0 DEF IInv, FreeSlot, Goto, TypeOK
  <1>4. TypeOK'
    BY <1>0 DEF IInv, FreeSlot, Goto, TypeOK, PCs, Handles
  <1>5. OneHome'
    <2>1. \A u, w \in Threads : job'[u] # NULL /\ job'[u] = job'[w] => u = w
      BY <1>3 DEF IInv, OneHome
    <2>2. \A u \in Threads :
            mine'[u] \notin pool' /\ job'[u] \notin pool' /\ held'[u] \notin pool'
      BY <1>1, <1>2, <1>3, NullAssumption, SMTT(30) DEF IInv, OneHome, TypeOK
    <2>3. \A c \in Slots : cb'[c].handle \notin pool'
      BY <1>1, <1>3 DEF IInv, OneHome
    <2>4. \A u, w \in Threads : mine'[u] # NULL =>
            mine'[u] # job'[w] /\ mine'[u] # held'[w]
      BY <1>3 DEF IInv, OneHome
    <2>5. \A u \in Threads, c \in Slots : job'[u] # NULL => job'[u] # cb'[c].handle
      BY <1>3 DEF IInv, OneHome
    <2> QED
      BY <1>3, <2>1, <2>2, <2>3, <2>4, <2>5, SMTT(30) DEF IInv, OneHome
  <1>6. CallState'
    BY <1>1, <1>3 DEF IInv, CallState
  <1>12. PrivateIsFresh'
    BY <1>3, FrameFresh DEF IInv
  <1>7. CurrentCount'
    BY <1>3, SameHolders DEF IInv, CurrentCount
  <1>8. DetachingCount'
    BY <1>3, SameHolders DEF IInv, DetachingCount
  <1>9. WaitingCount'
    <2>1. \A w \in Versions : Waiting(w)' => Waiting(w)
      BY <1>0, <1>3 DEF Waiting
    <2> QED
      BY <1>3, <2>1, SameHolders DEF IInv, WaitingCount
  <1>10. ReclaimingIsUnheld'
    BY <1>3, SameHolders DEF IInv, ReclaimingIsUnheld
  <1>11. FreedIsGone'
    BY <1>0, <1>3 DEF IInv, FreedIsGone
  <1> QED
    BY <1>4, <1>5, <1>6, <1>7, <1>8, <1>9, <1>10, <1>11, <1>12 DEF IInv

-----------------------------------------------------------------------------
\* A step that changes no variable preserves IInv.
LEMMA StutterInv ==
  ASSUME IInv, UNCHANGED vars
  PROVE  IInv'
  <1>1. TypeOK' /\ CallState' /\ FreedIsGone'
    BY DEF IInv, vars, TypeOK, CallState, FreedIsGone
  <1>2. /\ OneHome' /\ PrivateIsFresh' /\ CurrentCount' /\ DetachingCount'
        /\ WaitingCount' /\ ReclaimingIsUnheld'
    BY FrameHome, FrameFresh, FrameCurrent, FrameDetaching, FrameWaiting,
       FrameReclaiming DEF IInv, vars
  <1> QED
    BY <1>1, <1>2 DEF IInv

\* The steps inside a call preserve IInv.
LEMMA StepInv ==
  ASSUME IInv, NEW t \in Threads, Step(t)
  PROVE  IInv'
  BY CasSucceedsInv, CasReadInv, DetachReadInv, DetachSucceedsInv, FinalizeInv,
     CallbackInv, FreeSlotInv DEF Step

\* The steps that begin a call preserve IInv.
LEMMA CallInv ==
  ASSUME IInv, NEW t \in Threads, Call(t)
  PROVE  IInv'
  <1>1. CASE \E v \in Versions : MakeVersion(t, v)
    BY <1>1, MakeVersionInv
  <1>2. CASE SetObject(t) \/ FreeVersion(t) \/ ReleaseVersion(t)
    BY <1>2, SetObjectInv, FreeVersionInv, ReleaseVersionInv
  <1>3. CASE \E c \in Slots : AcquireVersion(t, c) \/ ExchangeVersion(t, c)
    BY <1>3, AcquireVersionInv, ExchangeVersionInv
  <1>4. CASE \E c \in Slots, expected \in Handles :
               CompareExchange(t, c, expected)
    BY <1>4, CasReadInv
  <1> QED
    BY <1>1, <1>2, <1>3, <1>4 DEF Call

-----------------------------------------------------------------------------
(***************************************************************************)
(* In every reachable state each version is in one place and its counters  *)
(* differ by the number of its holders, modulo M.                          *)
(***************************************************************************)
THEOREM GateInvariant == Spec => []IInv
  <1>1. IInv /\ [Next]_vars => IInv'
    BY InitGateInv, DestroyGateInv, CallInv, StepInv, StutterInv DEF Next
  <1> QED
    BY InitInv, <1>1, PTL DEF Spec

(***************************************************************************)
(* Every variable keeps its type; in particular the counters stay in range *)
(* through any number of wrap-arounds.                                     *)
(***************************************************************************)
THEOREM GateTypeCorrect == Spec => []TypeOK
  <1>1. IInv => TypeOK
    BY DEF IInv
  <1> QED
    BY <1>1, GateInvariant, PTL

(***************************************************************************)
(* No premature reclamation: no version is finalized, passed to the user   *)
(* callback or freed while some thread has acquired and not released it.   *)
(***************************************************************************)
THEOREM GateNoPrematureFree == Spec => []HeldIsIntact
  <1>1. IInv => HeldIsIntact
    <2> SUFFICES ASSUME IInv, NEW t \in Threads, NEW v \in Versions, held[t] = v
                 PROVE  /\ v \notin pool
                        /\ object[v] # "freed"
                        /\ "FINALIZED" \notin inner[v].flags
                        /\ \A u \in Threads : job[u] = v =>
                             pc[u] \in {"load", "detach"}
      BY DEF HeldIsIntact, IInv, TypeOK, Handles
    <2>1. NumHolders(v) # 0
      BY HolderCount
    <2>2. v \notin pool /\ \A u \in Threads : mine[u] # v
      BY NullAssumption DEF IInv, OneHome
    <2>3. \A u \in Threads : job[u] = v => pc[u] \in {"load", "detach"}
      BY <2>1, NullAssumption DEF IInv, ReclaimingIsUnheld, CallState, TypeOK, PCs
    <2>4. object[v] # "freed"
      BY <2>2, <2>3 DEF IInv, FreedIsGone
    <2>5. "FINALIZED" \notin inner[v].flags
      <3>1. CASE \E c \in Slots : cb[c].handle = v
        BY <3>1 DEF IInv, CurrentCount
      <3>2. CASE \E u \in Threads : job[u] = v
        BY <2>3, <3>2 DEF IInv, DetachingCount
      <3>3. CASE Waiting(v)
        BY <3>3 DEF IInv, WaitingCount
      <3> QED
        BY <2>2, <3>1, <3>2, <3>3 DEF Waiting
    <2> QED
      BY <2>2, <2>3, <2>4, <2>5
  <1> QED
    BY <1>1, GateInvariant, PTL

(***************************************************************************)
(* The abort of try_finalize, "Double finalize detected", is unreachable.  *)
(***************************************************************************)
THEOREM GateNoDoubleFinalize == Spec => []NoDoubleFinalize
  <1>1. IInv => NoDoubleFinalize
    BY DEF IInv, CallState, NoDoubleFinalize
  <1> QED
    BY <1>1, GateInvariant, PTL

(***************************************************************************)
(* No leak: a version that nobody makes, publishes, detaches or reclaims   *)
(* is free or has a holder whose release will reclaim it.                  *)
(***************************************************************************)
THEOREM GateNoOrphan == Spec => []NoOrphan
  <1>1. IInv => NoOrphan
    <2> SUFFICES ASSUME IInv, NEW v \in Versions, Waiting(v)
                 PROVE  Holders(v) # {}
      BY DEF NoOrphan, Waiting, Private, Current, Busy
    <2>1. NumHolders(v) # 0
      BY DEF IInv, WaitingCount
    <2> QED
      BY <2>1, FS_EmptySet DEF NumHolders
  <1> QED
    BY <1>1, GateInvariant, PTL

(***************************************************************************)
(* When the gate has been destroyed every version is back in the pool.     *)
(***************************************************************************)
THEOREM GateLeaksNothing == Spec => []DestroyedGateLeaksNothing
  <1>1. IInv => DestroyedGateLeaksNothing
    <2> SUFFICES ASSUME IInv, gate = "none", NEW v \in Versions, v \notin pool
                 PROVE  FALSE
      BY SMTT(30) DEF DestroyedGateLeaksNothing, IInv, TypeOK
    <2>1. Waiting(v) /\ \A t \in Threads : held[t] # v
      BY NullAssumption DEF IInv, CallState, Waiting
    <2> QED
      BY <2>1, HolderCount DEF IInv, WaitingCount
  <1> QED
    BY <1>1, GateInvariant, PTL

-----------------------------------------------------------------------------
(***************************************************************************)
(* Each action of Gate is one action of VersionStore or leaves the store's *)
(* variables alone.                                                        *)
(***************************************************************************)

\* When no thread begins or ends the last part of a reclamation, the set of
\* dying versions stays as it is.
LEMMA SameDying ==
  ASSUME NEW t \in Threads,
         \A u \in Threads : u # t => job'[u] = job[u] /\ pc'[u] = pc[u],
         pc[t] \notin {"callback", "free"}, pc'[t] \notin {"callback", "free"}
  PROVE  Dying' = Dying
  BY DEF Dying

\* A step that keeps the handles keeps the store's current versions.
LEMMA SameCurrent ==
  ASSUME \A c \in Slots : cb'[c].handle = cb[c].handle
  PROVE  HandleOf' = HandleOf
  BY DEF HandleOf

\* init_gate and destroy_gate open and close the store.
LEMMA GateStepRefines ==
  ASSUME IInv, InitGate \/ DestroyGate
  PROVE  Store!Open \/ Store!Close
  <1>1. CASE InitGate
    <2>1. HandleOf' = HandleOf /\ Dying' = Dying
      BY <1>1 DEF IInv, InitGate, CallState, HandleOf, EmptyBlock, Dying
    <2> QED
      BY <1>1, <2>1 DEF InitGate, Store!Open
  <1>2. CASE DestroyGate
    <2>1. \A v \in Versions : v \notin pool => Waiting(v) /\ NumHolders(v) = 0
      <3> SUFFICES ASSUME NEW v \in Versions, v \notin pool
                   PROVE  Waiting(v) /\ NumHolders(v) = 0
        OBVIOUS
      <3>1. \A t \in Threads : held[t] # v
        BY <1>2, NullAssumption DEF DestroyGate
      <3>2. Waiting(v)
        BY <1>2, NullAssumption DEF IInv, DestroyGate, CallState, Waiting
      <3> QED
        BY <3>1, <3>2, HolderCount
    <2>2. pool = Versions
      BY <2>1, Zenon DEF IInv, WaitingCount, TypeOK
    <2> QED
      BY <1>2, <2>2 DEF DestroyGate, HandleOf, Dying, Store!Close
  <1> QED
    BY <1>1, <1>2

\* make_version and set_object.
LEMMA MakeRefines ==
  ASSUME IInv, NEW t \in Threads, NEW v \in Versions, MakeVersion(t, v)
  PROVE  Store!Make(t, v)
  BY DEF MakeVersion, MayCall, HandleOf, Dying, Store!Make

\* free_version hands the version over to reclamation.
LEMMA FreeVersionRefines ==
  ASSUME IInv, NEW t \in Threads, FreeVersion(t)
  PROVE  Store!Discard(t)
  <1>1. /\ pc[t] = "idle" /\ pc'[t] = "callback" /\ job'[t] = mine[t]
        /\ mine[t] \in Versions
        /\ \A u \in Threads : u # t => job'[u] = job[u] /\ pc'[u] = pc[u]
    BY DEF IInv, FreeVersion, MayCall, Goto, TypeOK, Handles
  <1>2. Dying' = Dying \cup {mine[t]}
    BY <1>1 DEF Dying
  <1> QED
    BY <1>2 DEF FreeVersion, MayCall, HandleOf, Store!Discard

\* The fetch_add of acquire is the instant at which it takes effect.
LEMMA AcquireRefines ==
  ASSUME IInv, NEW t \in Threads, NEW c \in Slots, AcquireVersion(t, c)
  PROVE  Store!Acquire(t, c)
  <1>1. \A d \in Slots : cb'[d].handle = cb[d].handle
    BY DEF IInv, AcquireVersion, Acquired, TypeOK, ControlBlocks
  <1> QED
    BY <1>1, SameCurrent DEF AcquireVersion, MayCall, HandleOf, Dying,
       Store!Acquire

\* The fetch_add of release gives the version up, whoever reclaims it.
LEMMA ReleaseRefines ==
  ASSUME IInv, NEW t \in Threads, ReleaseVersion(t)
  PROVE  Store!Release(t)
  <1>1. /\ pc[t] = "idle" /\ pc'[t] \in {"idle", "finalize"}
        /\ \A u \in Threads : u # t => job'[u] = job[u] /\ pc'[u] = pc[u]
    BY DEF IInv, ReleaseVersion, MayCall, TryFinalize, Goto, TypeOK
  <1>2. Dying' = Dying
    BY <1>1, SameDying
  <1> QED
    BY <1>2 DEF ReleaseVersion, MayCall, HandleOf, Store!Release

\* The swap of exchange, or the successful CAS of compare_exchange, is the
\* instant at which the new version is published.
LEMMA SwapRefines ==
  ASSUME IInv, NEW t \in Threads, NEW c \in Slots, gate = "open",
         pc[t] \in {"idle", "cas"},
         cb' = [cb EXCEPT ![c] = Installed(mine[t])],
         mine' = [mine EXCEPT ![t] = NULL],
         SwappedOut(t, cb[c]),
         UNCHANGED <<gate, pool, held>>
  PROVE  Store!Publish(t, c)
  <1>1. /\ pc'[t] \in {"idle", "load"}
        /\ \A u \in Threads : u # t => job'[u] = job[u] /\ pc'[u] = pc[u]
    BY DEF IInv, SwappedOut, Goto, TypeOK
  <1>2. Dying' = Dying
    BY <1>1, SameDying
  <1>3. HandleOf' = [HandleOf EXCEPT ![c] = mine[t]]
    BY Zenon DEF IInv, TypeOK, HandleOf, Installed
  <1> QED
    BY <1>2, <1>3 DEF Store!Publish

\* Claiming FINALIZED reclaims garbage: no holder, no slot, no owner.
LEMMA FinalizeRefines ==
  ASSUME IInv, NEW t \in Threads, NEW v \in Versions, v = job[t], Finalize(t)
  PROVE  Store!Reclaim(v)
  <1>1. /\ pc[t] = "finalize" /\ gate = "open" /\ v # NULL
        /\ NumHolders(v) = 0 /\ "FINALIZED" \notin inner[v].flags
    BY NullAssumption DEF IInv, Finalize, CallState, ReclaimingIsUnheld, TypeOK
  <1>2. /\ pc'[t] = "callback" /\ job' = job
        /\ \A u \in Threads : u # t => pc'[u] = pc[u]
    <2>1. "FINALIZED" \notin inner[job[t]].flags
      BY <1>1
    <2>2. pc' = [pc EXCEPT ![t] = "callback"]
      BY <2>1 DEF Finalize, Goto
    <2> QED
      BY <2>2 DEF IInv, Finalize, TypeOK
  <1>3. Dying' = Dying \cup {v}
    BY <1>1, <1>2 DEF Dying
  <1>4. Store!Garbage(v)
    <2>1. \A u \in Threads : held[u] # v
      BY <1>1, HolderCount
    <2>2. v \notin pool /\ \A u \in Threads : mine[u] # v
      BY <1>1 DEF IInv, OneHome
    <2>3. \A c \in Slots : HandleOf[c] # v
      BY <1>1 DEF IInv, OneHome, HandleOf
    <2>4. v \notin Dying
      BY <1>1 DEF IInv, OneHome, Dying
    <2> QED
      BY <2>1, <2>2, <2>3, <2>4 DEF Store!Garbage
  <1> QED
    BY <1>1, <1>3, <1>4 DEF Finalize, HandleOf, Store!Reclaim

\* free_slot makes the version available again.
LEMMA FreeSlotRefines ==
  ASSUME IInv, NEW t \in Threads, NEW v \in Versions, v = job[t], FreeSlot(t)
  PROVE  Store!Recycle(v)
  <1>1. /\ pc[t] = "free" /\ gate = "open" /\ v # NULL /\ pc'[t] = "idle"
        /\ \A u \in Threads : u # t => job'[u] = job[u] /\ pc'[u] = pc[u]
        /\ \A u \in Threads : u # t => job[u] # v
    BY NullAssumption DEF IInv, FreeSlot, Goto, CallState, OneHome, TypeOK
  <1>2. Dying' = Dying \ {v} /\ v \in Dying
    BY <1>1 DEF Dying
  <1> QED
    BY <1>1, <1>2, SMTT(30) DEF FreeSlot, HandleOf, Store!Recycle

\* The other steps of a thread change nothing the store can see.
LEMMA SilentRefines ==
  ASSUME IInv, NEW t \in Threads,
         \/ SetObject(t) \/ CasRetries(t) \/ CasFails(t) \/ Callback(t)
         \/ DetachLoads(t) \/ DetachRetries(t) \/ DetachSucceeds(t)
         \/ \E c \in Slots, expected \in Handles : CompareExchange(t, c, expected)
  PROVE  UNCHANGED Store!vars
  <1>1. UNCHANGED <<gate, cb, held, mine, pool>>
    BY DEF SetObject, CasRetries, CasFails, Callback, DetachLoads, DetachRetries,
       DetachSucceeds, CompareExchange
  <1>2. Dying' = Dying
    <2>1. CASE SetObject(t) \/ CasRetries(t) \/ DetachRetries(t)
      BY <2>1 DEF SetObject, CasRetries, DetachRetries, Dying
    <2>2. CASE Callback(t)
      BY <2>2, SMTT(30) DEF IInv, Callback, Goto, TypeOK, Dying
    <2>3. CASE \/ CasFails(t) \/ DetachLoads(t) \/ DetachSucceeds(t)
               \/ \E c \in Slots, expected \in Handles :
                    CompareExchange(t, c, expected)
      <3>1. /\ \A u \in Threads : u # t => job'[u] = job[u] /\ pc'[u] = pc[u]
            /\ pc[t] \notin {"callback", "free"}
            /\ pc'[t] \notin {"callback", "free"}
        BY <2>3 DEF IInv, CasFails, DetachLoads, DetachSucceeds, CompareExchange,
           MayCall, TryFinalize, Goto, TypeOK
      <3> QED
        BY <3>1, SameDying, SMTT(30)
    <2> QED
      BY <2>1, <2>2, <2>3, SMTT(30)
  <1> QED
    BY <1>1, <1>2, SMTT(30) DEF HandleOf, Store!vars

(***************************************************************************)
(* The two-counter protocol implements the version store: whatever the     *)
(* interleaving, an acquire returns the version that is current at one     *)
(* instant and only garbage is reclaimed.                                  *)
(***************************************************************************)
THEOREM GateImplementsStore == Spec => ImplementsStore
  <1>1. Init => Store!Init
    BY NullAssumption DEF Init, HandleOf, Dying, EmptyBlock, Store!Init
  <1>2. ASSUME IInv, [Next]_vars
        PROVE  [Store!Next]_(Store!vars)
    <2>1. CASE InitGate \/ DestroyGate
      BY <1>2, <2>1, GateStepRefines DEF Store!Next
    <2>2. ASSUME NEW t \in Threads, Call(t)
          PROVE  [Store!Next]_(Store!vars)
      <3>1. CASE \E v \in Versions : MakeVersion(t, v)
        BY <1>2, <3>1, MakeRefines DEF Store!Next
      <3>2. CASE FreeVersion(t) \/ ReleaseVersion(t)
        BY <1>2, <3>2, FreeVersionRefines, ReleaseRefines DEF Store!Next
      <3>3. ASSUME NEW c \in Slots, AcquireVersion(t, c)
            PROVE  [Store!Next]_(Store!vars)
        BY <1>2, <3>3, AcquireRefines DEF Store!Next
      <3>4. ASSUME NEW c \in Slots, ExchangeVersion(t, c)
            PROVE  [Store!Next]_(Store!vars)
        <4>1. Store!Publish(t, c)
          BY <1>2, <3>4, SwapRefines, Zenon DEF ExchangeVersion, MayCall
        <4> QED
          BY <4>1 DEF Store!Next
      <3>5. CASE \/ SetObject(t)
                 \/ \E c \in Slots, expected \in Handles :
                      CompareExchange(t, c, expected)
        BY <1>2, <3>5, SilentRefines
      <3> QED
        BY <2>2, <3>1, <3>2, <3>3, <3>4, <3>5 DEF Call
    <2>3. ASSUME NEW t \in Threads, Step(t)
          PROVE  [Store!Next]_(Store!vars)
      <3>1. CASE CasSucceeds(t)
        <4>1. PICK c \in Slots : c = slot[t]
          BY <1>2, <3>1 DEF IInv, CallState, CasSucceeds
        <4>2. gate = "open"
          BY <1>2, <3>1 DEF IInv, CallState, CasSucceeds, TypeOK
        <4>3. Store!Publish(t, c)
          BY <1>2, <3>1, <4>1, <4>2, SwapRefines, Zenon DEF CasSucceeds
        <4> QED
          BY <4>3 DEF Store!Next
      <3>2. CASE Finalize(t) \/ FreeSlot(t)
        <4>1. PICK v \in Versions : v = job[t]
          BY <1>2, <3>2 DEF IInv, CallState, Finalize, FreeSlot, TypeOK, Handles
        <4> QED
          BY <1>2, <3>2, <4>1, FinalizeRefines, FreeSlotRefines DEF Store!Next
      <3>3. CASE \/ CasRetries(t) \/ CasFails(t) \/ Callback(t)
                 \/ DetachLoads(t) \/ DetachRetries(t) \/ DetachSucceeds(t)
        BY <1>2, <3>3, SilentRefines
      <3> QED
        BY <2>3, <3>1, <3>2, <3>3 DEF Step
    <2>4. CASE UNCHANGED vars
      BY <2>4 DEF vars, HandleOf, Dying, Store!vars
    <2> QED
      BY <1>2, <2>1, <2>2, <2>3, <2>4 DEF Next
  <1> QED
    BY <1>1, <1>2, GateInvariant, PTL DEF Spec, ImplementsStore, Store!Spec

-----------------------------------------------------------------------------
(***************************************************************************)
(* What a program that uses a gate needs to know of it.                    *)
(***************************************************************************)

\* A program starts with a gate in order, if it has put different versions
\* into the slots.
LEMMA StartsInOrder ==
  ASSUME NEW f \in [Slots -> Versions], \A c, d \in Slots : f[c] = f[d] => c = d,
         StartsWith(f)
  PROVE  IInv
  <1> USE DEF StartsWith
  <1>1. /\ cb = [c \in Slots |-> [refs |-> 0, handle |-> f[c]]]
        /\ \A c \in Slots : f[c] # NULL /\ f[c] \notin pool
        /\ \A t \in Threads : held[t] = NULL /\ mine[t] = NULL /\ job[t] = NULL
    BY NullAssumption DEF Installed
  <1>2. TypeOK
    BY <1>1, ModulusPositive DEF TypeOK, ControlBlocks, InnerStates, Counters,
       Handles, Flags, PCs, EmptyBlock, FreshInner
  <1>3. OneHome /\ CallState /\ PrivateIsFresh
    BY <1>1, NullAssumption DEF OneHome, CallState, PrivateIsFresh
  <1>4. \A v \in Versions : NumHolders(v) = 0
    BY <1>1, HolderCount, NullAssumption
  <1>5. CurrentCount
    <2>1. Sub(0, 0) = 0
      BY ModulusPositive, SubZero DEF Counters
    <2> QED
      BY <1>1, <1>4, <2>1 DEF CurrentCount, FreshInner
  <1>6. WaitingCount
    BY <1>1 DEF WaitingCount, Waiting
  <1>7. DetachingCount /\ ReclaimingIsUnheld /\ FreedIsGone
    BY NullAssumption DEF DetachingCount, ReclaimingIsUnheld, FreedIsGone
  <1> QED
    BY <1>2, <1>3, <1>5, <1>6, <1>7 DEF IInv

\* What a step inside a call other than compare_exchange does to the gate.
LEMMA StepEffect ==
  ASSUME IInv, NEW t \in Threads, Step(t), pc[t] # "cas"
  PROVE  /\ UNCHANGED <<gate, cb, held, mine>>
         /\ job[t] \in Versions /\ job'[t] \in {job[t], NULL}
         /\ pc[t] # "idle" /\ pc'[t] # "cas"
         /\ \A u \in Threads : u # t => job'[u] = job[u] /\ pc'[u] = pc[u]
         /\ IF pc[t] = "callback"
            THEN /\ object' = [object EXCEPT ![job[t]] = "freed"]
                 /\ pool' = pool /\ pc'[t] = "free" /\ job'[t] = job[t]
            ELSE object' = object
         /\ IF pc[t] = "free"
            THEN pool' = pool \cup {job[t]} /\ job'[t] = NULL
            ELSE pool' = pool
         /\ pc'[t] = "free" => pc[t] = "callback"
  <1>1. /\ job \in [Threads -> Handles] /\ pc \in [Threads -> PCs]
        /\ job[t] = NULL <=> pc[t] \in {"idle", "cas"}
    BY DEF IInv, TypeOK, CallState
  <1> USE <1>1 DEF Goto, TryFinalize
  <1>2. CASE CasSucceeds(t) \/ CasRetries(t) \/ CasFails(t)
    BY <1>2 DEF CasSucceeds, CasRetries, CasFails
  <1>3. CASE DetachLoads(t) \/ DetachRetries(t)
    BY <1>3 DEF DetachLoads, DetachRetries, Handles
  <1>4. CASE DetachSucceeds(t)
    BY <1>4 DEF DetachSucceeds, Handles
  <1>5. CASE Finalize(t)
    BY <1>5 DEF Finalize, Handles
  <1>6. CASE Callback(t)
    BY <1>6 DEF Callback, Handles
  <1>7. CASE FreeSlot(t)
    BY <1>7 DEF FreeSlot, Handles
  <1> QED
    BY <1>2, <1>3, <1>4, <1>5, <1>6, <1>7 DEF Step
=============================================================================
