--------------------------- MODULE BackendProofs ----------------------------
(***************************************************************************)
(* Proofs about the atomsnap backend of benchmark 2, for any number of     *)
(* writers, readers, shards, versions and blocks.  The gates are known by  *)
(* the invariant of the protocol (GateProofs); what is added is who has    *)
(* which block.                                                            *)
(***************************************************************************)
EXTENDS AtomSnapBackend, GateProofs

\* The provers, in the order in which they try each step.
USE ZenonT(3), SMT, ZenonT(20), SMTT(60)

-----------------------------------------------------------------------------
(***************************************************************************)
(* What the invariant says of a thread's place and of what it holds.       *)
(***************************************************************************)

\* A place in a loop says whose loop it is.
LEMMA WhoseLoop ==
  ASSUME WriterInv, ReaderInv, NEW t \in Threads
  PROVE  /\ cpc[t] \in {"alloc", "fill", "set", "exchange", "count"} => t \in Writers
         /\ cpc[t] \in {"read", "check", "release"} => t \in Readers
  BY BackendAssumption DEF WriterInv, ReaderInv

\* A version that a reader has acquired has its object.
LEMMA HeldIsLive ==
  ASSUME IInv, LiveInv, NEW t \in Threads, held[t] # NULL
  PROVE  held[t] \in Live
<1>1. PICK v \in Versions : v = held[t]
  BY DEF IInv, TypeOK, Handles
<1>2. v \notin pool /\ (\A u \in Threads : mine[u] # v) /\ NumHolders(v) # 0
  BY <1>1, HolderCount, NullAssumption DEF IInv, OneHome
<1>3. CASE \E c \in Slots : cb[c].handle = v
  BY <1>1, <1>3 DEF LiveInv, Live
<1>4. CASE \E u \in Threads : job[u] = v
  BY <1>1, <1>2, <1>4, NullAssumption DEF LiveInv, Live, IInv, ReclaimingIsUnheld
<1>5. CASE Waiting(v)
  BY <1>1, <1>5 DEF LiveInv, Live
<1> QED
  BY <1>2, <1>3, <1>4, <1>5 DEF Waiting

\* A reader that checks its object finds the two fields equal.
LEMMA ReaderFindsEqual ==
  ASSUME BackendTypeOK, OwnerInv, OpenInv, NEW t \in Readers, cpc[t] = "check"
  PROVE  seen[t] = mem[o[t]].v2
<1>1. t \in Threads /\ held[t] \in Live /\ o[t] = obj[held[t]] /\ seen[t] = mem[o[t]].v1
  BY BackendAssumption, HeldIsLive DEF OpenInv, ReaderInv
<1> QED
  BY <1>1 DEF OpenInv, FilledInv

-----------------------------------------------------------------------------
(***************************************************************************)
(* What a step leaves alone.                                               *)
(***************************************************************************)

\* LiveInv is about the gate and the writers between "set" and "exchange".
LEMMA FrameLive ==
  ASSUME LiveInv, UNCHANGED <<cb, object, pool, mine, job, pc>>,
         \A t \in Threads : mine[t] # NULL =>
           (cpc'[t] = "exchange" <=> cpc[t] = "exchange")
  PROVE  LiveInv'
<1>1. \A v : Waiting(v)' <=> Waiting(v)
  BY DEF Waiting
<1> QED
  BY <1>1 DEF LiveInv

\* OwnerInv is about the blocks of the pool, the versions and the writers.
LEMMA FrameOwner ==
  ASSUME OwnerInv, UNCHANGED <<object, obj, blocks>>,
         \A t \in Writers : o'[t] = o[t]
  PROVE  OwnerInv'
<1>1. Live' = Live
  BY DEF Live
<1> QED
  BY <1>1 DEF OwnerInv

\* CountInv is about the objects and the writers that have one to count.
LEMMA FrameCount ==
  ASSUME CountInv, UNCHANGED <<object, created, freed>>,
         \A t \in Threads : cpc'[t] \in {"exchange", "count"}
                              <=> cpc[t] \in {"exchange", "count"}
  PROVE  CountInv'
<1>1. Live' = Live /\ Uncounted' = Uncounted
  BY DEF Live, Uncounted
<1> QED
  BY <1>1 DEF CountInv

\* Threads are finitely many, and so are those with an object to count.
LEMMA UncountedFinite ==
  IsFiniteSet(Uncounted) /\ Cardinality(Uncounted) \in Nat
<1>1. IsFiniteSet(Uncounted)
  BY CountAssumption, FS_Subset DEF Uncounted
<1> QED
  BY <1>1, FS_CardinalityType

-----------------------------------------------------------------------------
(***************************************************************************)
(* The steps of the writers.                                               *)
(***************************************************************************)

\* atomsnap_make_version takes a version that has no object.
LEMMA WriterMakesInv ==
  ASSUME BackendTypeOK, OwnerInv, OpenInv, NEW t \in Threads, WriterMakes(t)
  PROVE  BackendTypeOK' /\ OwnerInv' /\ OpenInv'
<1>1. PICK v \in Versions : MakeVersion(t, v) /\ obj' = [obj EXCEPT ![v] = NULL]
  BY DEF WriterMakes
<1>2. /\ t \in Writers /\ gate = "open" /\ gate' = "open" /\ v \in pool
      /\ mine[t] = NULL /\ mine' = [mine EXCEPT ![t] = v]
      /\ pool' = pool \ {v} /\ object' = [object EXCEPT ![v] = "unset"]
      /\ cpc[t] = "loop" /\ cpc' = [cpc EXCEPT ![t] = "alloc"]
      /\ UNCHANGED <<cb, held, pc, job, running, blocks, mem, o, seq, created, freed,
                     shard, seen>>
  BY <1>1 DEF WriterMakes, MakeVersion, MayCall, At, counterVars
<1>3. IInv /\ IInv' /\ TypeOK
  BY <1>1, MakeVersionInv DEF OpenInv, IInv
<1>4. v # NULL /\ v \notin Live
  BY <1>2, NullAssumption DEF OpenInv, LiveInv, Live
<1>5. /\ Live' = Live
      /\ \A w \in Live : obj'[w] = obj[w]
  BY <1>1, <1>2, <1>3, <1>4 DEF Live, TypeOK, BackendTypeOK
<1>6. BackendTypeOK'
  BY <1>1, <1>2 DEF BackendTypeOK
<1>7. WriterInv'
  BY <1>2, <1>3, <1>4 DEF OpenInv, WriterInv, TypeOK, BackendTypeOK
<1>8. ReaderInv'
  <2>1. \A r \in Readers : r \in Threads /\ r # t
    BY <1>2, BackendAssumption
  <2>2. \A r \in Readers : held[r] # NULL => held[r] \in Live
    BY <1>3, <2>1, HeldIsLive DEF OpenInv
  <2> QED
    BY <1>2, <1>3, <1>5, <2>1, <2>2 DEF OpenInv, ReaderInv, TypeOK, BackendTypeOK
<1>9. LiveInv'
  <2>1. ASSUME NEW w \in Versions, Waiting(w)' PROVE Waiting(w) /\ w # v
    <3>1. w # v
      BY <1>2, <1>3, <2>1 DEF Waiting, TypeOK
    <3>2. \A u \in Threads : mine[u] # w
      BY <1>2, <1>3, <2>1, NullAssumption DEF Waiting, TypeOK
    <3> QED
      BY <1>2, <2>1, <3>1, <3>2 DEF Waiting
  <2>2. /\ \A c \in Slots : cb[c].handle # v
        /\ \A u \in Threads : job[u] # v /\ mine[u] # v
    BY <1>2, <1>3 DEF IInv, OneHome
  <2>3. \A w \in Versions : w # v => object'[w] = object[w]
    BY <1>2, <1>3 DEF TypeOK
  <2>4. \A w \in Versions : Waiting(w)' => object'[w] = "live"
    BY <2>1, <2>3 DEF OpenInv, LiveInv
  <2>5. \A c \in Slots : cb'[c].handle # NULL /\ object'[cb'[c].handle] = "live"
    BY <1>2, <1>3, <2>2, <2>3 DEF OpenInv, LiveInv, TypeOK, ControlBlocks, Handles
  <2>6. \A w \in pool' : object'[w] # "live"
    BY <1>2, <1>3, <2>3 DEF OpenInv, LiveInv, TypeOK
  <2>7. \A u \in Threads :
          /\ mine'[u] # NULL => (object'[mine'[u]] = "live" <=> cpc'[u] = "exchange")
          /\ job'[u] # NULL => (object'[job'[u]] = "live" <=> pc'[u] # "free")
    BY <1>2, <1>3, <2>2, <2>3 DEF OpenInv, LiveInv, TypeOK, Handles, BackendTypeOK
  <2> QED
    BY <2>4, <2>5, <2>6, <2>7 DEF LiveInv
<1>10. OwnerInv' /\ FilledInv'
  BY <1>2, <1>5 DEF OpenInv, OwnerInv, FilledInv
<1>11. CountInv'
  <2>1. Uncounted' = Uncounted
    BY <1>2 DEF Uncounted, BackendTypeOK
  <2> QED
    BY <1>2, <1>5, <2>1 DEF OpenInv, CountInv
<1> QED
  BY <1>2, <1>3, <1>6, <1>7, <1>8, <1>9, <1>10, <1>11 DEF OpenInv

\* The pool gives the writer a block that is nobody else's; v1 is written.
LEMMA WriterAllocsInv ==
  ASSUME BackendTypeOK, OwnerInv, OpenInv, NEW t \in Threads, WriterAllocs(t)
  PROVE  BackendTypeOK' /\ OwnerInv' /\ OpenInv'
<1>1. PICK b \in blocks : /\ blocks' = blocks \ {b}
                          /\ o' = [o EXCEPT ![t] = b]
                          /\ mem' = [mem EXCEPT ![b].v1 = seq[t] + 1]
  BY DEF WriterAllocs
<1>2. /\ cpc[t] = "alloc" /\ cpc' = [cpc EXCEPT ![t] = "fill"]
      /\ seq' = [seq EXCEPT ![t] = @ + 1]
      /\ UNCHANGED vars /\ UNCHANGED <<running, obj, created, freed, shard, seen>>
  BY DEF WriterAllocs, At
<1>3. t \in Writers /\ b \in Blocks /\ b # NULL
  BY <1>2, WhoseLoop, BackendAssumption DEF OpenInv, BackendTypeOK
<1>4. UNCHANGED <<gate, cb, inner, object, pool, held, mine, pc, job, refs, cur, slot, val>>
  BY <1>2 DEF vars
<1>5. IInv /\ IInv'
  BY <1>2, StutterInv DEF OpenInv
<1>6. BackendTypeOK'
  BY <1>1, <1>2, <1>3 DEF BackendTypeOK
<1>7. /\ \A x \in Blocks : x # b => mem'[x] = mem[x]
      /\ mem'[b].v1 = seq'[t]
  BY <1>1, <1>2, <1>3 DEF BackendTypeOK
<1>8. Live' = Live
  BY <1>4 DEF Live
<1>9. OwnerInv'
  <2>1. \A v \in Live : obj[v] # b
    BY DEF OwnerInv
  <2>2. \A u \in Writers : o[u] # b
    BY <1>3 DEF OwnerInv
  <2>3. o[t] = NULL
    BY <1>2, <1>3 DEF OpenInv, WriterInv
  <2>4. \A u \in Writers : o'[u] = IF u = t THEN b ELSE o[u]
    BY <1>1, BackendAssumption DEF BackendTypeOK
  <2>5. \A u \in Writers : o'[u] # NULL =>
          /\ o'[u] \notin blocks'
          /\ \A v \in Live : obj[v] # o'[u]
          /\ \A x \in Writers : o'[x] = o'[u] => x = u
    BY <1>1, <2>1, <2>2, <2>4 DEF OwnerInv
  <2>6. \A x \in Blocks \ blocks' :
          (\E v \in Live : obj[v] = x) \/ (\E u \in Writers : o'[u] = x)
    <3> SUFFICES ASSUME NEW x \in Blocks \ blocks'
                 PROVE  (\E v \in Live : obj[v] = x) \/ (\E u \in Writers : o'[u] = x)
      OBVIOUS
    <3>1. CASE x = b
      BY <1>3, <2>4, <3>1
    <3>2. CASE x # b
      <4>1. (\E v \in Live : obj[v] = x) \/ (\E u \in Writers : o[u] = x)
        BY <1>1, <3>2 DEF OwnerInv
      <4>2. ASSUME NEW u \in Writers, o[u] = x PROVE o'[u] = x
        BY <2>3, <2>4, <4>2, BackendAssumption
      <4> QED
        BY <4>1, <4>2
    <3> QED
      BY <3>1, <3>2
  <2>7. \A v \in Live : obj[v] \in Blocks \ blocks'
    BY <1>1 DEF OwnerInv
  <2> QED
    BY <1>2, <1>8, <2>5, <2>6, <2>7 DEF OwnerInv
<1>10. WriterInv'
  <2>1. \A u \in Writers : u # t /\ o[u] # NULL => o'[u] = o[u] /\ o[u] \in Blocks /\ o[u] # b
    BY <1>1, BackendAssumption DEF OwnerInv, BackendTypeOK
  <2>2. \A u \in Writers : u # t => cpc'[u] = cpc[u] /\ o'[u] = o[u] /\ seq'[u] = seq[u]
    BY <1>1, <1>2, BackendAssumption DEF BackendTypeOK
  <2>3. cpc'[t] = "fill" /\ o'[t] = b
    BY <1>1, <1>2, <1>3 DEF BackendTypeOK
  <2> QED
    BY <1>2, <1>3, <1>4, <1>7, <2>1, <2>2, <2>3 DEF OpenInv, WriterInv
<1>11. ReaderInv'
  <2>1. \A r \in Readers : r # t /\ r \in Threads
    BY <1>3, BackendAssumption
  <2>2. \A r \in Readers : o'[r] = o[r] /\ cpc'[r] = cpc[r]
    BY <1>1, <1>2, <2>1 DEF BackendTypeOK
  <2>3. \A r \in Readers : cpc[r] = "check" => o[r] \in Blocks /\ o[r] # b
    BY <1>5, <2>1, HeldIsLive DEF OpenInv, ReaderInv, OwnerInv
  <2> QED
    BY <1>2, <1>4, <1>7, <2>2, <2>3 DEF OpenInv, ReaderInv
<1>12. LiveInv'
  BY <1>2, <1>4, FrameLive DEF OpenInv, BackendTypeOK
<1>13. FilledInv'
  BY <1>2, <1>7, <1>8 DEF OpenInv, FilledInv, OwnerInv
<1>14. CountInv'
  BY <1>2, <1>4, FrameCount DEF OpenInv, BackendTypeOK
<1> QED
  BY <1>4, <1>5, <1>6, <1>9, <1>10, <1>11, <1>12, <1>13, <1>14 DEF OpenInv

\* v2 is written, to a block that no one else looks at.
LEMMA WriterFillsInv ==
  ASSUME BackendTypeOK, OwnerInv, OpenInv, NEW t \in Threads, WriterFills(t)
  PROVE  BackendTypeOK' /\ OwnerInv' /\ OpenInv'
<1>1. /\ cpc[t] = "fill" /\ cpc' = [cpc EXCEPT ![t] = "set"]
      /\ mem' = [mem EXCEPT ![o[t]].v2 = seq[t]]
      /\ UNCHANGED vars
      /\ UNCHANGED <<running, blocks, obj, o, seq, created, freed, shard, seen>>
  BY DEF WriterFills, At, counterVars
<1>2. t \in Writers /\ o[t] # NULL /\ o[t] \in Blocks /\ mem[o[t]].v1 = seq[t]
  BY <1>1, WhoseLoop DEF OpenInv, WriterInv, BackendTypeOK
<1>3. UNCHANGED <<gate, cb, inner, object, pool, held, mine, pc, job, refs, cur, slot, val>>
  BY <1>1 DEF vars
<1>4. IInv /\ IInv'
  BY <1>1, StutterInv DEF OpenInv
<1>5. BackendTypeOK'
  BY <1>1, <1>2 DEF BackendTypeOK
<1>6. /\ \A x \in Blocks : mem'[x].v1 = mem[x].v1
      /\ \A x \in Blocks : x # o[t] => mem'[x] = mem[x]
      /\ mem'[o[t]].v2 = seq[t]
  BY <1>1, <1>2 DEF BackendTypeOK
<1>7. Live' = Live
  BY <1>3 DEF Live
<1>8. OwnerInv'
  BY <1>1, <1>3, FrameOwner
<1>9. WriterInv'
  <2>1. \A u \in Writers : u # t => cpc'[u] = cpc[u]
    BY <1>1, BackendAssumption DEF BackendTypeOK
  <2>2. \A u \in Writers : u # t /\ o[u] # NULL => o[u] \in Blocks /\ o[u] # o[t]
    BY <1>2, BackendAssumption DEF OwnerInv, BackendTypeOK
  <2>3. cpc'[t] = "set"
    BY <1>1 DEF BackendTypeOK
  <2> QED
    BY <1>1, <1>2, <1>3, <1>6, <2>1, <2>2, <2>3 DEF OpenInv, WriterInv
<1>10. ReaderInv'
  <2>1. \A r \in Readers : r # t /\ r \in Threads
    BY <1>2, BackendAssumption
  <2>2. \A r \in Readers : cpc'[r] = cpc[r]
    BY <1>1, <2>1 DEF BackendTypeOK
  <2>3. \A r \in Readers : cpc[r] = "check" => o[r] \in Blocks
    BY <2>1 DEF OpenInv, ReaderInv, BackendTypeOK
  <2> QED
    BY <1>1, <1>3, <1>6, <2>2, <2>3 DEF OpenInv, ReaderInv
<1>11. LiveInv'
  BY <1>1, <1>3, FrameLive DEF OpenInv, BackendTypeOK
<1>12. FilledInv'
  BY <1>1, <1>2, <1>6, <1>7 DEF OpenInv, FilledInv, OwnerInv
<1>13. CountInv'
  BY <1>1, <1>3, FrameCount DEF OpenInv, BackendTypeOK
<1> QED
  BY <1>3, <1>4, <1>5, <1>8, <1>9, <1>10, <1>11, <1>12, <1>13 DEF OpenInv

\* atomsnap_set_object gives the block to the writer's version.
LEMMA WriterSetsInv ==
  ASSUME BackendTypeOK, OwnerInv, OpenInv, NEW t \in Threads, WriterSets(t)
  PROVE  BackendTypeOK' /\ OwnerInv' /\ OpenInv'
<1>1. /\ cpc[t] = "set" /\ cpc' = [cpc EXCEPT ![t] = "exchange"]
      /\ SetObject(t) /\ gate' = gate /\ object' = [object EXCEPT ![mine[t]] = "live"]
      /\ obj' = [obj EXCEPT ![mine[t]] = o[t]] /\ o' = [o EXCEPT ![t] = NULL]
      /\ UNCHANGED <<cb, pool, held, mine, pc, job, running, blocks, mem, seq, created,
                     freed, shard, seen>>
  BY DEF WriterSets, SetObject, At, counterVars
<1>2. IInv /\ IInv' /\ TypeOK
  BY <1>1, SetObjectInv DEF OpenInv, IInv
<1>3. PICK m \in Versions, b \in Blocks : m = mine[t] /\ b = o[t] /\ t \in Writers
  BY <1>1, <1>2, WhoseLoop DEF OpenInv, WriterInv, BackendTypeOK, TypeOK, Handles
<1>4. m # NULL /\ b # NULL /\ m \notin Live /\ mem[b].v1 = mem[b].v2
  BY <1>1, <1>3, NullAssumption, BackendAssumption DEF OpenInv, LiveInv, WriterInv, Live
<1>5. /\ Live' = Live \cup {m} /\ obj'[m] = b
      /\ \A w \in Versions : w # m => obj'[w] = obj[w] /\ object'[w] = object[w]
  BY <1>1, <1>2, <1>3 DEF Live, TypeOK, BackendTypeOK
<1>6. BackendTypeOK'
  BY <1>1, <1>3 DEF BackendTypeOK
<1>7. /\ cpc'[t] = "exchange" /\ o'[t] = NULL
      /\ \A u \in Threads : u # t => cpc'[u] = cpc[u] /\ o'[u] = o[u]
  BY <1>1 DEF BackendTypeOK
<1>8. OwnerInv'
  <2>1. b \notin blocks /\ (\A v \in Live : obj[v] # b)
        /\ \A u \in Writers : u # t => o[u] # b
    BY <1>3, <1>4 DEF OwnerInv
  <2>2. \A v \in Live : obj'[v] = obj[v] /\ v # m
    BY <1>4, <1>5 DEF Live
  <2>3. /\ \A v \in Live' : obj'[v] \in Blocks \ blocks'
        /\ \A v, w \in Live' : obj'[v] = obj'[w] => v = w
    BY <1>1, <1>5, <2>1, <2>2 DEF OwnerInv
  <2>4. \A u \in Writers : o'[u] # NULL =>
          /\ o'[u] \notin blocks'
          /\ \A v \in Live' : obj'[v] # o'[u]
          /\ \A x \in Writers : o'[x] = o'[u] => x = u
    BY <1>1, <1>5, <1>7, <2>1, <2>2, BackendAssumption DEF OwnerInv
  <2>5. \A x \in Blocks \ blocks' :
          (\E v \in Live' : obj'[v] = x) \/ (\E u \in Writers : o'[u] = x)
    <3> SUFFICES ASSUME NEW x \in Blocks \ blocks, x # b
                 PROVE  (\E v \in Live : obj[v] = x) \/ (\E u \in Writers : u # t /\ o[u] = x)
      BY <1>1, <1>5, <1>7, <2>2, BackendAssumption
    <3> QED
      BY <1>3 DEF OwnerInv
  <2> QED
    BY <2>3, <2>4, <2>5 DEF OwnerInv
<1>9. WriterInv'
  BY <1>1, <1>3, <1>7, BackendAssumption DEF OpenInv, WriterInv
<1>10. ReaderInv'
  <2>1. \A r \in Readers : r # t /\ r \in Threads
    BY <1>3, BackendAssumption
  <2>2. \A r \in Readers : held[r] # NULL => held[r] \in Versions /\ held[r] # m
    BY <1>2, <1>4, <2>1, HeldIsLive DEF OpenInv, Live
  <2> QED
    BY <1>1, <1>5, <1>7, <2>1, <2>2 DEF OpenInv, ReaderInv
<1>11. LiveInv'
  <2>1. \A v : Waiting(v)' => Waiting(v) /\ v # m
    BY <1>1, <1>3 DEF Waiting
  <2>2. /\ m \notin pool
        /\ \A u \in Threads : job[u] # m /\ (u # t => mine[u] # m)
    BY <1>2, <1>3, <1>4 DEF IInv, OneHome
  <2>3. \A c \in Slots : cb'[c].handle # NULL /\ object'[cb'[c].handle] = "live"
    BY <1>1, <1>2, <1>3, <1>4, <1>5
    DEF OpenInv, LiveInv, TypeOK, ControlBlocks, Handles, IInv, OneHome
  <2>4. \A v \in pool' : object'[v] # "live"
    BY <1>1, <1>2, <1>5, <2>2 DEF OpenInv, LiveInv, TypeOK
  <2>5. \A u \in Threads : mine'[u] # NULL =>
          (object'[mine'[u]] = "live" <=> cpc'[u] = "exchange")
    BY <1>1, <1>2, <1>3, <1>5, <1>7, <2>2 DEF OpenInv, LiveInv, TypeOK, Handles
  <2>6. \A u \in Threads : job'[u] # NULL =>
          (object'[job'[u]] = "live" <=> pc'[u] # "free")
    BY <1>1, <1>2, <1>5, <2>2 DEF OpenInv, LiveInv, TypeOK, Handles
  <2>7. \A v \in Versions : Waiting(v)' => object'[v] = "live"
    BY <1>5, <2>1 DEF OpenInv, LiveInv
  <2> QED
    BY <2>3, <2>4, <2>5, <2>6, <2>7 DEF LiveInv
<1>12. FilledInv'
  BY <1>1, <1>4, <1>5 DEF OpenInv, FilledInv, Live
<1>13. CountInv'
  <2>1. t \notin Uncounted /\ Uncounted' = Uncounted \cup {t}
    BY <1>1, <1>7 DEF Uncounted
  <2>2. IsFiniteSet(Live) /\ Cardinality(Live) \in Nat
    BY FS_CardinalityType DEF OpenInv, CountInv
  <2>3. IsFiniteSet(Live') /\ Cardinality(Live') = Cardinality(Live) + 1
    BY <1>4, <1>5, <2>2, FS_AddElement
  <2>4. Cardinality(Uncounted') = Cardinality(Uncounted) + 1
    BY <2>1, UncountedFinite, FS_AddElement
  <2>5. Cardinality(Live) + freed = NS + created + Cardinality(Uncounted)
    BY DEF OpenInv, CountInv
  <2>6. /\ created \in Nat /\ freed \in Nat /\ NS \in Nat
        /\ created' = created /\ freed' = freed
    BY <1>1, BackendAssumption DEF BackendTypeOK
  <2>7. Cardinality(Live') + freed' = NS + created' + Cardinality(Uncounted')
    BY <2>2, <2>3, <2>4, <2>5, <2>6, UncountedFinite
  <2> QED
    BY <2>3, <2>7 DEF CountInv
<1> QED
  BY <1>1, <1>2, <1>6, <1>8, <1>9, <1>10, <1>11, <1>12, <1>13 DEF OpenInv

\* The exchange publishes the writer's version; the one before is its job.
LEMMA WriterExchangesInv ==
  ASSUME BackendTypeOK, OwnerInv, OpenInv, NEW t \in Threads, WriterExchanges(t)
  PROVE  BackendTypeOK' /\ OwnerInv' /\ OpenInv'
<1>1. PICK c \in Slots : c = shard[t] /\ ExchangeVersion(t, c)
  BY DEF WriterExchanges, BackendTypeOK
<1>2. /\ cpc[t] = "exchange" /\ cpc' = [cpc EXCEPT ![t] = "count"]
      /\ UNCHANGED <<running, blocks, mem, obj, o, seq, created, freed, shard, seen>>
  BY DEF WriterExchanges, At, counterVars, poolVars
<1>3. IInv /\ IInv' /\ TypeOK
  BY <1>1, ExchangeVersionInv DEF OpenInv, IInv
<1>4. PICK m \in Versions, h \in Versions : m = mine[t] /\ h = cb[c].handle /\ t \in Writers
  <2>1. t \in Writers /\ mine[t] # NULL /\ cb[c].handle # NULL
    BY <1>2, WhoseLoop DEF OpenInv, WriterInv, LiveInv
  <2>2. mine[t] \in Versions /\ cb[c].handle \in Versions
    BY <1>3, <2>1 DEF TypeOK, Handles, ControlBlocks
  <2> QED
    BY <2>1, <2>2
<1>5. m # NULL /\ h # NULL /\ object[m] = "live" /\ object[h] = "live"
  BY <1>2, <1>4, NullAssumption DEF OpenInv, LiveInv
<1>6. /\ gate' = gate /\ UNCHANGED <<object, pool, held>>
      /\ cb' = [cb EXCEPT ![c] = [refs |-> 0, handle |-> m]]
      /\ mine' = [mine EXCEPT ![t] = NULL] /\ job' = [job EXCEPT ![t] = h]
      /\ pc[t] = "idle" /\ pc' = [pc EXCEPT ![t] = "load"]
  BY <1>1, <1>4, <1>5 DEF ExchangeVersion, MayCall, SwappedOut, Goto, Installed
<1>7. /\ mine'[t] = NULL /\ job'[t] = h /\ pc'[t] = "load" /\ cpc'[t] = "count"
      /\ cb'[c].handle = m
      /\ \A d \in Slots : d # c => cb'[d] = cb[d]
      /\ \A u \in Threads : u # t =>
           mine'[u] = mine[u] /\ job'[u] = job[u] /\ pc'[u] = pc[u] /\ cpc'[u] = cpc[u]
  BY <1>2, <1>3, <1>6 DEF TypeOK, BackendTypeOK
<1>8. BackendTypeOK'
  BY <1>2 DEF BackendTypeOK
<1>9. OwnerInv'
  BY <1>2, <1>6, FrameOwner
<1>10. WriterInv'
  BY <1>2, <1>4, <1>6, <1>7, BackendAssumption DEF OpenInv, WriterInv
<1>11. ReaderInv'
  <2>1. \A r \in Readers : r # t /\ r \in Threads
    BY <1>4, BackendAssumption
  <2> QED
    BY <1>2, <1>6, <1>7, <2>1 DEF OpenInv, ReaderInv
<1>12. LiveInv'
  <2>1. ASSUME NEW v \in Versions, Waiting(v)' PROVE Waiting(v)
    <3>1. \A u \in Threads : mine[u] # v
      BY <1>4, <1>7, <2>1 DEF Waiting
    <3>2. \A u \in Threads : job[u] # v
      BY <1>3, <1>6, <1>7, <2>1, NullAssumption DEF Waiting, IInv, CallState
    <3>3. \A d \in Slots : cb[d].handle # v
      BY <1>4, <1>7, <2>1 DEF Waiting
    <3> QED
      BY <1>6, <2>1, <3>1, <3>2, <3>3 DEF Waiting
  <2>2. \A d \in Slots : cb'[d].handle # NULL /\ object'[cb'[d].handle] = "live"
    BY <1>5, <1>6, <1>7 DEF OpenInv, LiveInv
  <2>3. \A u \in Threads :
          /\ mine'[u] # NULL => (object'[mine'[u]] = "live" <=> cpc'[u] = "exchange")
          /\ job'[u] # NULL => (object'[job'[u]] = "live" <=> pc'[u] # "free")
    BY <1>5, <1>6, <1>7 DEF OpenInv, LiveInv
  <2> QED
    BY <1>6, <2>1, <2>2, <2>3 DEF OpenInv, LiveInv
<1>13. FilledInv'
  BY <1>2, <1>6 DEF OpenInv, FilledInv, Live
<1>14. CountInv'
  BY <1>2, <1>6, <1>7, FrameCount DEF OpenInv
<1> QED
  BY <1>3, <1>6, <1>8, <1>9, <1>10, <1>11, <1>12, <1>13, <1>14 DEF OpenInv

\* The exchange has returned: the object is counted.
LEMMA WriterCountsInv ==
  ASSUME BackendTypeOK, OwnerInv, OpenInv, NEW t \in Threads, WriterCounts(t)
  PROVE  BackendTypeOK' /\ OwnerInv' /\ OpenInv'
<1>1. /\ pc[t] = "idle" /\ cpc[t] = "count" /\ cpc' = [cpc EXCEPT ![t] = "loop"]
      /\ created' = created + 1 /\ shard' = [shard EXCEPT ![t] = (@ + 1) % NS]
      /\ UNCHANGED vars
      /\ UNCHANGED <<running, blocks, mem, obj, o, seq, freed, seen>>
  BY DEF WriterCounts, At, poolVars
<1>2. UNCHANGED <<gate, cb, inner, object, pool, held, mine, pc, job, refs, cur, slot, val>>
  BY <1>1 DEF vars
<1>3. IInv' /\ t \in Writers
  BY <1>1, StutterInv, WhoseLoop DEF OpenInv
<1>4. /\ cpc'[t] = "loop"
      /\ \A u \in Threads : u # t => cpc'[u] = cpc[u]
  BY <1>1 DEF BackendTypeOK
<1>5. BackendTypeOK'
  <2>1. \A s \in Slots : (s + 1) % NS \in Slots
    BY BackendAssumption
  <2> QED
    BY <1>1, <2>1 DEF BackendTypeOK
<1>6. OwnerInv'
  BY <1>1, <1>2, FrameOwner
<1>7. WriterInv'
  BY <1>1, <1>2, <1>3, <1>4, BackendAssumption DEF OpenInv, WriterInv
<1>8. ReaderInv'
  <2>1. \A r \in Readers : r # t /\ r \in Threads
    BY <1>3, BackendAssumption
  <2> QED
    BY <1>1, <1>2, <1>4, <2>1 DEF OpenInv, ReaderInv
<1>9. LiveInv'
  BY <1>1, <1>2, <1>4, FrameLive DEF OpenInv
<1>10. FilledInv'
  BY <1>1, <1>2 DEF OpenInv, FilledInv, Live
<1>11. CountInv'
  <2>1. t \in Uncounted /\ Uncounted' = Uncounted \ {t} /\ Live' = Live
    BY <1>1, <1>2, <1>4 DEF Uncounted, Live
  <2>2. Cardinality(Uncounted') = Cardinality(Uncounted) - 1
    BY <2>1, UncountedFinite, FS_RemoveElement
  <2>3. /\ IsFiniteSet(Live) /\ Cardinality(Live) \in Nat
        /\ Cardinality(Live) + freed = NS + created + Cardinality(Uncounted)
    BY FS_CardinalityType DEF OpenInv, CountInv
  <2> QED
    BY <1>1, <2>1, <2>2, <2>3, UncountedFinite, BackendAssumption
    DEF CountInv, BackendTypeOK
<1> QED
  BY <1>2, <1>3, <1>5, <1>6, <1>7, <1>8, <1>9, <1>10, <1>11 DEF OpenInv

-----------------------------------------------------------------------------
(***************************************************************************)
(* The steps of the readers, and the end of both loops.                    *)
(***************************************************************************)

\* A shard is never empty: the reader has a version.
LEMMA ReaderAcquiresInv ==
  ASSUME BackendTypeOK, OwnerInv, OpenInv, NEW t \in Threads, ReaderAcquires(t)
  PROVE  BackendTypeOK' /\ OwnerInv' /\ OpenInv'
<1>1. PICK c \in Slots : c = shard[t] /\ AcquireVersion(t, c)
  BY DEF ReaderAcquires, BackendTypeOK
<1>2. /\ t \in Readers /\ cpc[t] = "loop" /\ cpc' = [cpc EXCEPT ![t] = "read"]
      /\ UNCHANGED <<running, blocks, mem, obj, o, seq, created, freed, shard, seen>>
  BY DEF ReaderAcquires, At, counterVars, poolVars
<1>3. IInv /\ IInv' /\ TypeOK
  BY <1>1, AcquireVersionInv DEF OpenInv, IInv
<1>4. /\ gate' = gate /\ UNCHANGED <<object, pool, mine, pc, job>> /\ pc[t] = "idle"
      /\ held' = [held EXCEPT ![t] = cb[c].handle] /\ cb[c].handle # NULL
      /\ \A d \in Slots : cb'[d].handle = cb[d].handle
  BY <1>1, <1>3 DEF AcquireVersion, MayCall, Acquired, OpenInv, LiveInv, TypeOK, ControlBlocks
<1>5. /\ held'[t] # NULL /\ cpc'[t] = "read"
      /\ \A u \in Threads : u # t => held'[u] = held[u] /\ cpc'[u] = cpc[u]
  BY <1>2, <1>3, <1>4 DEF TypeOK, BackendTypeOK
<1>6. BackendTypeOK'
  BY <1>2 DEF BackendTypeOK
<1>7. OwnerInv'
  BY <1>2, <1>4, FrameOwner
<1>8. WriterInv'
  <2>1. \A w \in Writers : w # t /\ w \in Threads
    BY <1>2, BackendAssumption
  <2> QED
    BY <1>2, <1>4, <1>5, <2>1 DEF OpenInv, WriterInv
<1>9. ReaderInv'
  BY <1>2, <1>4, <1>5, BackendAssumption DEF OpenInv, ReaderInv
<1>10. LiveInv'
  <2>1. \A v \in Versions : Waiting(v)' => Waiting(v)
    BY <1>4 DEF Waiting
  <2>2. \A u \in Threads : cpc'[u] = "exchange" <=> cpc[u] = "exchange"
    BY <1>2, <1>5
  <2> QED
    BY <1>4, <2>1, <2>2 DEF OpenInv, LiveInv
<1>11. FilledInv'
  BY <1>2, <1>4 DEF OpenInv, FilledInv, Live
<1>12. CountInv'
  BY <1>2, <1>4, <1>5, FrameCount DEF OpenInv
<1> QED
  BY <1>3, <1>4, <1>6, <1>7, <1>8, <1>9, <1>10, <1>11, <1>12 DEF OpenInv

\* The version has an object, and the reader looks at v1.
LEMMA ReaderReadsInv ==
  ASSUME BackendTypeOK, OwnerInv, OpenInv, NEW t \in Threads, ReaderReads(t)
  PROVE  BackendTypeOK' /\ OwnerInv' /\ OpenInv'
<1>1. t \in Readers /\ cpc[t] = "read" /\ held[t] \in Live
  BY WhoseLoop, HeldIsLive DEF ReaderReads, At, OpenInv, ReaderInv
<1>2. PICK b \in Blocks : b = obj[held[t]]
  BY <1>1 DEF OwnerInv
<1>3. /\ b # NULL /\ cpc' = [cpc EXCEPT ![t] = "check"]
      /\ o' = [o EXCEPT ![t] = b] /\ seen' = [seen EXCEPT ![t] = mem[b].v1]
      /\ UNCHANGED vars
      /\ UNCHANGED <<running, blocks, mem, obj, seq, created, freed, shard>>
  BY <1>2, BackendAssumption DEF ReaderReads, At, counterVars
<1>4. UNCHANGED <<gate, cb, inner, object, pool, held, mine, pc, job, refs, cur, slot, val>>
  BY <1>3 DEF vars
<1>5. IInv'
  BY <1>3, StutterInv DEF OpenInv
<1>6. /\ cpc'[t] = "check" /\ o'[t] = b /\ seen'[t] = mem[b].v1
      /\ \A u \in Threads : u # t => cpc'[u] = cpc[u] /\ o'[u] = o[u]
      /\ \A u \in Readers : u # t => seen'[u] = seen[u]
  BY <1>1, <1>3 DEF BackendTypeOK
<1>7. BackendTypeOK'
  BY <1>1, <1>3 DEF BackendTypeOK
<1>8. \A w \in Writers : w # t /\ w \in Threads
  BY <1>1, BackendAssumption
<1>9. OwnerInv'
  BY <1>3, <1>4, <1>6, <1>8, FrameOwner
<1>10. WriterInv'
  BY <1>3, <1>4, <1>6, <1>8 DEF OpenInv, WriterInv
<1>11. ReaderInv'
  BY <1>1, <1>2, <1>3, <1>4, <1>6, BackendAssumption DEF OpenInv, ReaderInv
<1>12. LiveInv'
  BY <1>1, <1>4, <1>6, FrameLive DEF OpenInv
<1>13. FilledInv'
  BY <1>3, <1>4 DEF OpenInv, FilledInv, Live
<1>14. CountInv'
  BY <1>1, <1>3, <1>4, <1>6, FrameCount DEF OpenInv
<1> QED
  BY <1>4, <1>5, <1>7, <1>9, <1>10, <1>11, <1>12, <1>13, <1>14 DEF OpenInv

\* The two fields are equal.
LEMMA ReaderChecksInv ==
  ASSUME BackendTypeOK, OwnerInv, OpenInv, NEW t \in Threads, ReaderChecks(t)
  PROVE  BackendTypeOK' /\ OwnerInv' /\ OpenInv'
<1>1. t \in Readers /\ cpc[t] = "check" /\ seen[t] = mem[o[t]].v2
  BY WhoseLoop, ReaderFindsEqual DEF ReaderChecks, At, OpenInv
<1>2. /\ cpc' = [cpc EXCEPT ![t] = "release"]
      /\ o' = [o EXCEPT ![t] = NULL] /\ seen' = [seen EXCEPT ![t] = 0]
      /\ UNCHANGED vars
      /\ UNCHANGED <<running, blocks, mem, obj, seq, created, freed, shard>>
  BY <1>1 DEF ReaderChecks, At, counterVars
<1>3. UNCHANGED <<gate, cb, inner, object, pool, held, mine, pc, job, refs, cur, slot, val>>
  BY <1>2 DEF vars
<1>4. IInv'
  BY <1>2, StutterInv DEF OpenInv
<1>5. /\ cpc'[t] = "release" /\ o'[t] = NULL
      /\ \A u \in Threads : u # t => cpc'[u] = cpc[u] /\ o'[u] = o[u]
      /\ \A u \in Readers : u # t => seen'[u] = seen[u]
  BY <1>1, <1>2 DEF BackendTypeOK
<1>6. BackendTypeOK'
  BY <1>1, <1>2 DEF BackendTypeOK
<1>7. \A w \in Writers : w # t /\ w \in Threads
  BY <1>1, BackendAssumption
<1>8. OwnerInv'
  BY <1>2, <1>3, <1>5, <1>7, FrameOwner
<1>9. WriterInv'
  BY <1>2, <1>3, <1>5, <1>7 DEF OpenInv, WriterInv
<1>10. ReaderInv'
  BY <1>1, <1>2, <1>3, <1>5, BackendAssumption DEF OpenInv, ReaderInv
<1>11. LiveInv'
  BY <1>1, <1>3, <1>5, FrameLive DEF OpenInv
<1>12. FilledInv'
  BY <1>2, <1>3 DEF OpenInv, FilledInv, Live
<1>13. CountInv'
  BY <1>1, <1>2, <1>3, <1>5, FrameCount DEF OpenInv
<1> QED
  BY <1>3, <1>4, <1>6, <1>8, <1>9, <1>10, <1>11, <1>12, <1>13 DEF OpenInv

\* The reader that releases a version last has it as its job.
LEMMA ReaderReleasesInv ==
  ASSUME BackendTypeOK, OwnerInv, OpenInv, NEW t \in Threads, ReaderReleases(t)
  PROVE  BackendTypeOK' /\ OwnerInv' /\ OpenInv'
<1>1. /\ cpc[t] = "release" /\ cpc' = [cpc EXCEPT ![t] = "loop"] /\ ReleaseVersion(t)
      /\ UNCHANGED <<running, blocks, mem, obj, o, seq, created, freed, shard, seen>>
  BY DEF ReaderReleases, At, counterVars, poolVars
<1>2. IInv /\ IInv' /\ TypeOK
  BY <1>1, ReleaseVersionInv DEF OpenInv, IInv
<1>3. t \in Readers /\ held[t] # NULL /\ held[t] \in Live
  BY <1>1, <1>2, WhoseLoop, HeldIsLive DEF OpenInv, ReaderInv
<1>4. /\ gate' = gate /\ UNCHANGED <<cb, object, pool, mine>> /\ pc[t] = "idle" /\ job[t] = NULL
      /\ held' = [held EXCEPT ![t] = NULL]
      /\ \/ pc' = [pc EXCEPT ![t] = "idle"] /\ job' = [job EXCEPT ![t] = NULL]
         \/ pc' = [pc EXCEPT ![t] = "finalize"] /\ job' = [job EXCEPT ![t] = held[t]]
  BY <1>1, <1>2 DEF ReleaseVersion, MayCall, TryFinalize, Goto, IInv, CallState
<1>5. /\ held'[t] = NULL /\ cpc'[t] = "loop"
      /\ pc'[t] \in {"idle", "finalize"} /\ job'[t] \in {NULL, held[t]}
      /\ \A u \in Threads : u # t =>
           held'[u] = held[u] /\ cpc'[u] = cpc[u] /\ pc'[u] = pc[u] /\ job'[u] = job[u]
  BY <1>1, <1>2, <1>4 DEF TypeOK, BackendTypeOK
<1>6. BackendTypeOK'
  BY <1>1 DEF BackendTypeOK
<1>7. OwnerInv'
  BY <1>1, <1>4, FrameOwner
<1>8. WriterInv'
  <2>1. \A w \in Writers : w # t /\ w \in Threads
    BY <1>3, BackendAssumption
  <2> QED
    BY <1>1, <1>4, <1>5, <2>1 DEF OpenInv, WriterInv
<1>9. ReaderInv'
  BY <1>1, <1>4, <1>5, BackendAssumption DEF OpenInv, ReaderInv
<1>10. LiveInv'
  <2>1. \A v \in Versions : Waiting(v)' => Waiting(v)
    BY <1>4, <1>5, NullAssumption DEF Waiting
  <2>2. \A u \in Threads : job'[u] # NULL =>
          (object'[job'[u]] = "live" <=> pc'[u] # "free")
    BY <1>3, <1>4, <1>5 DEF OpenInv, LiveInv, Live
  <2>3. \A u \in Threads : cpc'[u] = "exchange" <=> cpc[u] = "exchange"
    BY <1>1, <1>5
  <2> QED
    BY <1>4, <2>1, <2>2, <2>3 DEF OpenInv, LiveInv
<1>11. FilledInv'
  BY <1>1, <1>4 DEF OpenInv, FilledInv, Live
<1>12. CountInv'
  BY <1>1, <1>4, <1>5, FrameCount DEF OpenInv
<1> QED
  BY <1>2, <1>4, <1>6, <1>7, <1>8, <1>9, <1>10, <1>11, <1>12 DEF OpenInv

\* A thread leaves its loop with empty hands.
LEMMA LeavesInv ==
  ASSUME BackendTypeOK, OwnerInv, OpenInv, NEW t \in Threads, Leaves(t)
  PROVE  BackendTypeOK' /\ OwnerInv' /\ OpenInv'
<1>1. /\ pc[t] = "idle" /\ cpc[t] = "loop" /\ cpc' = [cpc EXCEPT ![t] = "done"]
      /\ UNCHANGED vars
      /\ UNCHANGED <<running, blocks, mem, obj, o, seq, created, freed, shard, seen>>
  BY DEF Leaves, At, poolVars, counterVars
<1>2. UNCHANGED <<gate, cb, inner, object, pool, held, mine, pc, job, refs, cur, slot, val>>
  BY <1>1 DEF vars
<1>3. IInv'
  BY <1>1, StutterInv DEF OpenInv
<1>4. /\ cpc'[t] = "done"
      /\ \A u \in Threads : u # t => cpc'[u] = cpc[u]
  BY <1>1 DEF BackendTypeOK
<1>5. BackendTypeOK'
  BY <1>1 DEF BackendTypeOK
<1>6. OwnerInv'
  BY <1>1, <1>2, FrameOwner
<1>7. WriterInv'
  BY <1>1, <1>2, <1>4, BackendAssumption DEF OpenInv, WriterInv
<1>8. ReaderInv'
  BY <1>1, <1>2, <1>4, BackendAssumption DEF OpenInv, ReaderInv
<1>9. LiveInv' /\ CountInv'
  BY <1>1, <1>2, <1>4, FrameLive, FrameCount DEF OpenInv
<1>10. FilledInv'
  BY <1>1, <1>2 DEF OpenInv, FilledInv, Live
<1> QED
  BY <1>2, <1>3, <1>5, <1>6, <1>7, <1>8, <1>9, <1>10 DEF OpenInv

-----------------------------------------------------------------------------
(***************************************************************************)
(* The steps of the library, of which the callback gives the block back.   *)
(***************************************************************************)

\* The pool writes its link into the block that is freed and into no other.
LEMMA FreedBlock ==
  ASSUME BackendTypeOK, NEW t \in Threads, LibraryStep(t), pc[t] = "callback",
         obj[job[t]] \in Blocks
  PROVE  /\ mem' \in [Blocks -> [v1 : Nat \cup {NULL}, v2 : Nat]]
         /\ \A x \in Blocks : x # obj[job[t]] => mem'[x] = mem[x]
<1>1. PICK next \in Nat \cup {NULL} : mem' = [mem EXCEPT ![obj[job[t]]].v1 = next]
  BY DEF LibraryStep, FreeCallback
<1> QED
  BY <1>1 DEF BackendTypeOK

\* The invariant of the protocol, and where the calls of the threads are.
LEMMA LibraryGate ==
  ASSUME BackendTypeOK, OwnerInv, OpenInv, NEW t \in Threads, LibraryStep(t)
  PROVE  IInv' /\ gate' = "open" /\ WriterInv' /\ ReaderInv' /\ BackendTypeOK'
<1>1. pc[t] # "cas" /\ Step(t)
  BY BackendAssumption DEF LibraryStep, OpenInv, WriterInv, ReaderInv
<1>2. /\ UNCHANGED <<gate, cb, held, mine>> /\ pc[t] # "idle" /\ pc'[t] # "cas"
      /\ job[t] \in Versions
      /\ \A u \in Threads : u # t => job'[u] = job[u] /\ pc'[u] = pc[u]
  BY <1>1, StepEffect DEF OpenInv
<1>3. UNCHANGED <<cpc, running, obj, o, seq, created, shard, seen>>
  BY DEF LibraryStep
<1>4. IInv'
  BY <1>1, StepInv DEF OpenInv
<1>5. /\ \A w \in Writers : o[w] # NULL => mem'[o[w]] = mem[o[w]]
      /\ \A r \in Readers : cpc[r] = "check" => mem'[o[r]] = mem[o[r]]
  <2>1. CASE pc[t] = "callback"
    <3>1. job[t] \in Live /\ obj[job[t]] \in Blocks
      BY <1>2, <2>1, NullAssumption DEF OpenInv, LiveInv, OwnerInv, Live
    <3>2. \A x \in Blocks : x # obj[job[t]] => mem'[x] = mem[x]
      BY <2>1, <3>1, FreedBlock
    <3>3. \A w \in Writers : o[w] # NULL => o[w] \in Blocks /\ o[w] # obj[job[t]]
      BY <3>1, BackendAssumption DEF OwnerInv, BackendTypeOK
    <3>4. ASSUME NEW r \in Readers, cpc[r] = "check"
          PROVE  o[r] \in Blocks /\ o[r] # obj[job[t]]
      <4>1. r \in Threads /\ held[r] \in Live /\ o[r] = obj[held[r]] /\ held[r] # NULL
        BY <3>4, BackendAssumption, HeldIsLive DEF OpenInv, ReaderInv
      <4>2. NumHolders(job[t]) = 0
        BY <1>2, <2>1 DEF OpenInv, IInv, ReclaimingIsUnheld
      <4>3. held[r] # job[t]
        BY <1>2, <4>1, <4>2, HolderCount
      <4> QED
        BY <3>1, <4>1, <4>3 DEF OwnerInv
    <3> QED
      BY <3>2, <3>3, <3>4
  <2>2. CASE pc[t] # "callback"
    BY <2>2 DEF LibraryStep
  <2> QED
    BY <2>1, <2>2
<1>6. WriterInv'
  BY <1>2, <1>3, <1>5, BackendAssumption DEF OpenInv, WriterInv
<1>7. ReaderInv'
  BY <1>2, <1>3, <1>5, BackendAssumption DEF OpenInv, ReaderInv
<1>8. BackendTypeOK'
  <2>1. CASE pc[t] = "callback"
    <3>1. obj[job[t]] \in Blocks
      BY <1>2, <2>1, NullAssumption DEF OpenInv, LiveInv, OwnerInv, Live
    <3>2. mem' \in [Blocks -> [v1 : Nat \cup {NULL}, v2 : Nat]]
      BY <2>1, <3>1, FreedBlock
    <3>3. blocks' \in SUBSET Blocks /\ freed' \in Nat
      BY <2>1, <3>1 DEF LibraryStep, FreeCallback, BackendTypeOK
    <3> QED
      BY <1>3, <3>2, <3>3 DEF BackendTypeOK
  <2>2. CASE pc[t] # "callback"
    BY <1>3, <2>2 DEF LibraryStep, BackendTypeOK
  <2> QED
    BY <2>1, <2>2
<1> QED
  BY <1>2, <1>4, <1>6, <1>7, <1>8 DEF OpenInv

\* atomsnap_free_cb: the object of a version that is done goes to the pool.
LEMMA CallbackStepInv ==
  ASSUME BackendTypeOK, OwnerInv, OpenInv, NEW t \in Threads, LibraryStep(t),
         pc[t] = "callback"
  PROVE  OwnerInv' /\ LiveInv' /\ FilledInv' /\ CountInv'
<1>1. Step(t) /\ IInv /\ IInv' /\ TypeOK
  BY LibraryGate DEF LibraryStep, OpenInv, IInv
<1>2. PICK v \in Versions, b \in Blocks : v = job[t] /\ b = obj[v] /\ v \in Live
  <2>1. job[t] \in Versions
    BY <1>1, StepEffect
  <2>2. job[t] \in Live
    BY <2>1, NullAssumption DEF OpenInv, LiveInv, Live
  <2> QED
    BY <2>1, <2>2 DEF OwnerInv
<1>3. /\ UNCHANGED <<cb, held, mine, pool>> /\ object' = [object EXCEPT ![v] = "freed"]
      /\ pc'[t] = "free" /\ job'[t] = v
      /\ \A u \in Threads : u # t => job'[u] = job[u] /\ pc'[u] = pc[u]
  BY <1>1, <1>2, StepEffect
<1>4. /\ blocks' = blocks \cup {b} /\ freed' = freed + 1
      /\ UNCHANGED <<cpc, obj, o, created>>
      /\ \A x \in Blocks : x # b => mem'[x] = mem[x]
  BY <1>2, FreedBlock DEF LibraryStep, FreeCallback
<1>5. /\ Live' = Live \ {v}
      /\ \A w \in Versions : w # v => object'[w] = object[w]
  BY <1>1, <1>3 DEF Live, TypeOK
<1>6. OwnerInv'
  <2>1. \A w \in Live' : obj'[w] \in Blocks \ blocks'
    BY <1>2, <1>4, <1>5 DEF OwnerInv
  <2>2. \A w, x \in Live' : obj'[w] = obj'[x] => w = x
    BY <1>4, <1>5 DEF OwnerInv
  <2>3. \A u \in Writers : o'[u] # NULL =>
          /\ o'[u] \notin blocks'
          /\ \A w \in Live' : obj'[w] # o'[u]
          /\ \A x \in Writers : o'[x] = o'[u] => x = u
    BY <1>2, <1>4, <1>5 DEF OwnerInv
  <2>4. \A x \in Blocks \ blocks' :
          (\E w \in Live' : obj'[w] = x) \/ (\E u \in Writers : o'[u] = x)
    BY <1>2, <1>4, <1>5 DEF OwnerInv
  <2> QED
    BY <2>1, <2>2, <2>3, <2>4 DEF OwnerInv
<1>7. LiveInv'
  <2>1. \A w : Waiting(w)' => Waiting(w) /\ w # v
    BY <1>2, <1>3 DEF Waiting
  <2>2. /\ \A c \in Slots : cb[c].handle # v
        /\ \A u \in Threads : mine[u] # v /\ (u # t => job[u] # v)
    BY <1>1, <1>2, NullAssumption DEF IInv, OneHome
  <2>3. \A c \in Slots : cb'[c].handle # NULL /\ object'[cb'[c].handle] = "live"
    BY <1>1, <1>3, <1>5, <2>2 DEF OpenInv, LiveInv, TypeOK, ControlBlocks, Handles
  <2>4. \A w \in pool' : object'[w] # "live"
    BY <1>1, <1>3 DEF OpenInv, LiveInv, TypeOK
  <2>5. \A u \in Threads : mine'[u] # NULL =>
          (object'[mine'[u]] = "live" <=> cpc'[u] = "exchange")
    BY <1>1, <1>3, <1>4, <1>5, <2>2 DEF OpenInv, LiveInv, TypeOK, Handles
  <2>6. \A u \in Threads : job'[u] # NULL =>
          (object'[job'[u]] = "live" <=> pc'[u] # "free")
    BY <1>1, <1>3, <1>5, <2>2 DEF OpenInv, LiveInv, TypeOK, Handles
  <2>7. \A w \in Versions : Waiting(w)' => object'[w] = "live"
    BY <1>5, <2>1 DEF OpenInv, LiveInv
  <2> QED
    BY <2>3, <2>4, <2>5, <2>6, <2>7 DEF LiveInv
<1>8. FilledInv'
  <2>1. \A w \in Live' : w \in Live /\ obj[w] \in Blocks /\ obj[w] # b
    BY <1>2, <1>5 DEF OwnerInv
  <2> QED
    BY <1>4, <2>1 DEF OpenInv, FilledInv
<1>9. CountInv'
  <2>1. IsFiniteSet(Live) /\ Cardinality(Live) \in Nat
    BY FS_CardinalityType DEF OpenInv, CountInv
  <2>2. IsFiniteSet(Live') /\ Cardinality(Live') = Cardinality(Live) - 1
    BY <1>2, <1>5, <2>1, FS_RemoveElement
  <2>3. Uncounted' = Uncounted
    BY <1>4 DEF Uncounted
  <2>4. Cardinality(Live) + freed = NS + created + Cardinality(Uncounted)
    BY DEF OpenInv, CountInv
  <2>5. /\ created \in Nat /\ freed \in Nat /\ NS \in Nat
        /\ created' = created /\ freed' = freed + 1
    BY <1>4, BackendAssumption DEF BackendTypeOK
  <2>6. Cardinality(Live') + freed' = NS + created' + Cardinality(Uncounted')
    BY <2>1, <2>2, <2>3, <2>4, <2>5, UncountedFinite
  <2> QED
    BY <2>2, <2>6 DEF CountInv
<1> QED
  BY <1>6, <1>7, <1>8, <1>9

\* The other steps of the library leave every block where it is.
LEMMA LibraryStepInv ==
  ASSUME BackendTypeOK, OwnerInv, OpenInv, NEW t \in Threads, LibraryStep(t)
  PROVE  BackendTypeOK' /\ OwnerInv' /\ OpenInv'
<1>1. IInv' /\ gate' = "open" /\ WriterInv' /\ ReaderInv' /\ BackendTypeOK'
  BY LibraryGate
<1>2. CASE pc[t] = "callback"
  BY <1>1, <1>2, CallbackStepInv DEF OpenInv
<1>3. CASE pc[t] # "callback"
  <2>1. pc[t] # "cas" /\ Step(t) /\ IInv
    BY BackendAssumption DEF LibraryStep, OpenInv, WriterInv, ReaderInv
  <2>2. UNCHANGED <<blocks, freed, cpc, mem, obj, o, created>>
    BY <1>3 DEF LibraryStep
  <2>3. /\ UNCHANGED <<cb, mine, object>> /\ job[t] \in Versions
        /\ job'[t] \in {job[t], NULL} /\ pc'[t] # "free"
        /\ IF pc[t] = "free" THEN pool' = pool \cup {job[t]} /\ job'[t] = NULL
                             ELSE pool' = pool
        /\ \A u \in Threads : u # t => job'[u] = job[u] /\ pc'[u] = pc[u]
    BY <1>3, <2>1, StepEffect
  <2>4. OwnerInv' /\ FilledInv' /\ CountInv'
    BY <2>2, <2>3, FrameOwner, FrameCount DEF OpenInv, FilledInv, Live
  <2>5. LiveInv'
    <3>1. \A u \in Threads : job'[u] # NULL =>
            (object'[job'[u]] = "live" <=> pc'[u] # "free")
      BY <2>3 DEF OpenInv, LiveInv
    <3>2. \A v \in pool' : object'[v] # "live"
      BY <2>3, NullAssumption DEF OpenInv, LiveInv
    <3>3. ASSUME NEW v \in Versions, Waiting(v)' PROVE object'[v] = "live"
      <4>1. CASE v = job[t]
        BY <2>3, <3>3, <4>1, NullAssumption DEF OpenInv, LiveInv, Waiting
      <4>2. CASE v # job[t]
        BY <2>3, <3>3, <4>2 DEF OpenInv, LiveInv, Waiting
      <4> QED
        BY <4>1, <4>2
    <3> QED
      BY <2>2, <2>3, <3>1, <3>2, <3>3 DEF OpenInv, LiveInv
  <2> QED
    BY <1>1, <2>4, <2>5 DEF OpenInv
<1> QED
  BY <1>2, <1>3

-----------------------------------------------------------------------------
(***************************************************************************)
(* The beginning and the end of the benchmark.                             *)
(***************************************************************************)

\* A version for each shard, and no two the same, are as many as the shards.
LEMMA AsManyAsShards ==
  ASSUME NEW f \in [Slots -> Versions], \A r, s \in Slots : f[r] = f[s] => r = s,
         NEW S, \A v : v \in S <=> \E s \in Slots : f[s] = v
  PROVE  IsFiniteSet(S) /\ Cardinality(S) = NS
<1>1. IsFiniteSet(0 .. NS - 1) /\ Cardinality(0 .. NS - 1) = NS
  BY BackendAssumption, FS_Interval
<1>2. f \in Bijection(Slots, S)
  BY DEF Bijection, Injection, Surjection, IsInjective
<1>3. ExistsBijection(Slots, S)
  BY <1>2 DEF ExistsBijection
<1> QED
  BY <1>1, <1>3, FS_Bijection, BackendAssumption

\* Nobody has a block in hand but the versions of the shards.
LEMMA BackendStarts == BackendInit => BackendInv
<1> SUFFICES ASSUME BackendInit PROVE BackendInv
  OBVIOUS
<1>1. PICK f \in [Slots -> Versions], g \in [Versions -> Blocks] :
        /\ \A r, s \in Slots : (f[r] = f[s] \/ g[f[r]] = g[f[s]]) => r = s
        /\ StartsWith(f)
        /\ obj = [v \in Versions |-> IF \E s \in Slots : f[s] = v THEN g[v] ELSE NULL]
        /\ blocks = Blocks \ {g[f[s]] : s \in Slots}
  BY DEF BackendInit
<1>2. /\ cpc = [t \in Threads |-> "loop"] /\ running = TRUE
      /\ mem = [b \in Blocks |-> [v1 |-> 0, v2 |-> 0]]
      /\ o = [t \in Threads |-> NULL] /\ seq = [t \in Writers |-> 0]
      /\ shard \in [Threads -> Slots] /\ seen = [t \in Readers |-> 0]
      /\ created = 0 /\ freed = 0
  BY DEF BackendInit
<1>3. IInv /\ gate = "open"
  BY <1>1, StartsInOrder DEF StartsWith
<1>4. /\ cb = [c \in Slots |-> [refs |-> 0, handle |-> f[c]]]
      /\ object = [v \in Versions |-> IF \E s \in Slots : f[s] = v THEN "live" ELSE "unset"]
      /\ pool = Versions \ {f[c] : c \in Slots}
      /\ held = [t \in Threads |-> NULL] /\ mine = [t \in Threads |-> NULL]
      /\ pc = [t \in Threads |-> "idle"] /\ job = [t \in Threads |-> NULL]
  BY <1>1 DEF StartsWith, Installed
<1>5. \A v : v \in Live <=> \E s \in Slots : f[s] = v
  BY <1>4 DEF Live
<1>6. \A v \in Live : obj[v] = g[v] /\ g[v] \in Blocks
  BY <1>1, <1>5 DEF Live
<1>7. BackendTypeOK
  BY <1>1, <1>2 DEF BackendTypeOK
<1>8. OwnerInv
  <2>1. \A t \in Writers : o[t] = NULL
    BY <1>2, BackendAssumption
  <2>2. \A v, w \in Live : obj[v] = obj[w] => v = w
    BY <1>1, <1>5, <1>6
  <2>3. \A b \in Blocks \ blocks : \E v \in Live : obj[v] = b
    BY <1>1, <1>5, <1>6
  <2>4. \A v \in Live : obj[v] \in Blocks \ blocks
    BY <1>1, <1>5, <1>6
  <2> QED
    BY <2>1, <2>2, <2>3, <2>4 DEF OwnerInv
<1>9. WriterInv /\ ReaderInv
  BY <1>2, <1>4, BackendAssumption DEF WriterInv, ReaderInv
<1>10. LiveInv
  <2>1. \A c \in Slots : cb[c].handle # NULL /\ object[cb[c].handle] = "live"
    BY <1>4, NullAssumption
  <2>2. \A v \in pool : object[v] # "live"
    BY <1>4
  <2>3. \A v \in Versions : ~Waiting(v)
    BY <1>4 DEF Waiting
  <2> QED
    BY <1>4, <2>1, <2>2, <2>3 DEF LiveInv
<1>11. FilledInv
  BY <1>2, <1>6 DEF FilledInv
<1>12. CountInv
  <2>1. IsFiniteSet(Live) /\ Cardinality(Live) = NS
    BY <1>1, <1>5, AsManyAsShards
  <2>2. Uncounted = {}
    BY <1>2 DEF Uncounted
  <2>3. Cardinality(Uncounted) = 0
    BY <2>2, FS_EmptySet
  <2> QED
    BY <1>2, <2>1, <2>3, BackendAssumption DEF CountInv
<1> QED
  BY <1>3, <1>7, <1>8, <1>9, <1>10, <1>11, <1>12 DEF BackendInv, OpenInv

\* When the threads are joined, the objects left are those of the shards.
LEMMA JoinedIsClean ==
  ASSUME BackendTypeOK, OwnerInv, OpenInv, Joined
  PROVE  PendingIsZero /\ \A t \in Threads : pc[t] = "idle"
<1>1. \A t \in Threads : pc[t] = "idle" /\ held[t] = NULL /\ mine[t] = NULL /\ o[t] = NULL
  BY BackendAssumption DEF Joined, OpenInv, WriterInv, ReaderInv
<1>2. IInv /\ TypeOK /\ \A t \in Threads : job[t] = NULL
  BY <1>1 DEF OpenInv, IInv, CallState
<1>3. \A v \in Versions : ~Waiting(v)
  <2>1. \A v \in Versions : Waiting(v) => NumHolders(v) # 0
    BY <1>2 DEF IInv, WaitingCount
  <2>2. \A v \in Versions : NumHolders(v) = 0
    BY <1>1, HolderCount, NullAssumption
  <2> QED
    BY <2>1, <2>2
<1> DEFINE f == [c \in Slots |-> cb[c].handle]
<1>4. f \in [Slots -> Versions] /\ \A c, d \in Slots : f[c] = f[d] => c = d
  BY <1>2 DEF OpenInv, LiveInv, IInv, OneHome, TypeOK, ControlBlocks, Handles
<1>5. \A v : v \in Live <=> \E s \in Slots : f[s] = v
  <2>1. ASSUME NEW v \in Live PROVE \E s \in Slots : f[s] = v
    <3>1. v \in Versions /\ v \notin pool /\ ~Waiting(v)
      BY <1>3 DEF Live, OpenInv, LiveInv
    <3> QED
      BY <1>1, <1>2, <3>1, NullAssumption DEF Waiting
  <2>2. ASSUME NEW s \in Slots PROVE f[s] \in Live
    BY <1>4 DEF OpenInv, LiveInv, Live
  <2> QED
    BY <2>1, <2>2
<1>6. Cardinality(Live) = NS
  <2> HIDE DEF f
  <2> QED
    BY <1>4, <1>5, AsManyAsShards
<1>7. created = freed
  <2>1. Uncounted = {}
    BY DEF Uncounted, Joined
  <2>2. Cardinality(Uncounted) = 0
    BY <2>1, FS_EmptySet
  <2>3. Cardinality(Live) + freed = NS + created + Cardinality(Uncounted)
    BY DEF OpenInv, CountInv
  <2>4. created \in Nat /\ freed \in Nat /\ NS \in Nat
    BY BackendAssumption DEF BackendTypeOK
  <2> QED
    BY <1>6, <2>2, <2>3, <2>4
<1>8. Blocks \ blocks = {obj[cb[s].handle] : s \in Slots}
  <2>1. ASSUME NEW b \in Blocks \ blocks PROVE \E s \in Slots : obj[cb[s].handle] = b
    <3>1. PICK v \in Live : obj[v] = b
      BY <1>1, BackendAssumption DEF OwnerInv
    <3> QED
      BY <1>5, <3>1
  <2>2. ASSUME NEW s \in Slots PROVE obj[cb[s].handle] \in Blocks \ blocks
    BY <1>5 DEF OwnerInv
  <2> QED
    BY <2>1, <2>2
<1> QED
  BY <1>1, <1>7, <1>8 DEF PendingIsZero

\* Nothing but running changes when the time is up.
LEMMA TimeIsUpInv ==
  ASSUME BackendInv, TimeIsUp \/ UNCHANGED backendVars
  PROVE  BackendInv'
<1>1. /\ UNCHANGED vars
      /\ UNCHANGED <<cpc, blocks, mem, obj, o, seq, created, freed, shard, seen>>
      /\ running' \in {running, FALSE}
  BY DEF TimeIsUp, backendVars, poolVars, counterVars
<1>2. UNCHANGED <<gate, cb, inner, object, pool, held, mine, pc, job, refs, cur, slot, val>>
  BY <1>1 DEF vars
<1>3. BackendTypeOK' /\ OwnerInv'
  BY <1>1, <1>2, FrameOwner DEF BackendInv, BackendTypeOK
<1>4. CASE OpenInv
  <2>1. IInv'
    BY <1>1, <1>4, StutterInv DEF OpenInv
  <2>2. WriterInv' /\ ReaderInv'
    BY <1>1, <1>2, <1>4 DEF OpenInv, WriterInv, ReaderInv
  <2>3. LiveInv' /\ FilledInv' /\ CountInv'
    BY <1>1, <1>2, <1>4, FrameLive, FrameCount DEF OpenInv, FilledInv, Live
  <2> QED
    BY <1>2, <1>3, <1>4, <2>1, <2>2, <2>3 DEF BackendInv, OpenInv
<1>5. CASE StoppedInv
  BY <1>1, <1>2, <1>3, <1>5 DEF BackendInv, StoppedInv, Joined, PendingIsZero
<1> QED
  BY <1>4, <1>5 DEF BackendInv

\* stop() leaves the objects of the shards where they are.
LEMMA StopBackendInv ==
  ASSUME BackendInv, StopBackend
  PROVE  BackendInv'
<1>1. OpenInv /\ Joined /\ gate' = "none"
  BY DEF BackendInv, StoppedInv, StopBackend
<1>2. UNCHANGED <<cb, object, pc, cpc, running, blocks, mem, obj, o, seq, created, freed,
                  shard, seen>>
  BY DEF StopBackend, poolVars, counterVars
<1>3. PendingIsZero /\ \A t \in Threads : pc[t] = "idle"
  BY <1>1, JoinedIsClean DEF BackendInv
<1>4. BackendTypeOK' /\ OwnerInv'
  BY <1>2, FrameOwner DEF BackendInv, BackendTypeOK
<1>5. StoppedInv'
  BY <1>1, <1>2, <1>3 DEF StoppedInv, Joined, PendingIsZero
<1> QED
  BY <1>4, <1>5 DEF BackendInv

\* When the backend is stopped no thread has a step left.
LEMMA StoppedThread ==
  ASSUME StoppedInv, NEW t \in Threads
  PROVE  ~ThreadStep(t)
<1>1. cpc[t] = "done" /\ pc[t] = "idle"
  BY DEF StoppedInv, Joined
<1>2. ~Step(t)
  BY <1>1 DEF Step, CasSucceeds, CasRetries, CasFails, DetachLoads, DetachRetries,
     DetachSucceeds, Finalize, Callback, FreeSlot
<1> QED
  BY <1>1, <1>2 DEF ThreadStep, WriterMakes, WriterAllocs, WriterFills, WriterSets,
     WriterExchanges, WriterCounts, ReaderAcquires, ReaderReads, ReaderChecks,
     ReaderReleases, Leaves, LibraryStep, At

\* BackendInv is inductive.
LEMMA BackendStep ==
  BackendInv /\ (BackendNext \/ UNCHANGED backendVars) => BackendInv'
<1> SUFFICES ASSUME BackendInv, BackendNext \/ UNCHANGED backendVars
             PROVE  BackendInv'
  OBVIOUS
<1>1. ASSUME NEW t \in Threads, ThreadStep(t) PROVE BackendInv'
  <2>1. BackendTypeOK /\ OwnerInv /\ OpenInv
    BY <1>1, StoppedThread DEF BackendInv
  <2>2. BackendTypeOK' /\ OwnerInv' /\ OpenInv'
    BY <1>1, <2>1, WriterMakesInv, WriterAllocsInv, WriterFillsInv, WriterSetsInv,
       WriterExchangesInv, WriterCountsInv, ReaderAcquiresInv, ReaderReadsInv,
       ReaderChecksInv, ReaderReleasesInv, LeavesInv, LibraryStepInv
    DEF ThreadStep
  <2> QED
    BY <2>2 DEF BackendInv
<1> QED
  BY <1>1, TimeIsUpInv, StopBackendInv DEF BackendNext

\* What the invariant says of readers, of the blocks and of the end.
LEMMA BackendConsequences ==
  ASSUME BackendInv
  PROVE  AtomNoMismatch /\ ObjectHasOneOwner /\ PendingIsZero
<1> USE DEF BackendInv
<1>1. AtomNoMismatch
  BY BackendAssumption DEF AtomNoMismatch, BackendTypeOK
<1>2. PendingIsZero
  BY JoinedIsClean DEF StoppedInv, PendingIsZero
<1>3. ASSUME NEW b \in Blocks
      PROVE  Cardinality({v \in Versions : obj[v] = b /\ object[v] = "live"}
                           \cup {t \in Writers : o[t] = b})
               = IF b \in blocks THEN 0 ELSE 1
  <2> DEFINE V == {v \in Versions : obj[v] = b /\ object[v] = "live"}
             W == {t \in Writers : o[t] = b}
  <2>1. /\ \A v : v \in V <=> v \in Live /\ obj[v] = b
        /\ \A t : t \in W <=> t \in Writers /\ o[t] = b
    BY DEF Live
  <2>2. b # NULL
    BY BackendAssumption
  <2> HIDE DEF V, W
  <2>3. CASE b \in blocks
    <3>1. V \cup W = {}
      BY <2>1, <2>2, <2>3 DEF OwnerInv
    <3> QED
      BY <2>3, <3>1, FS_EmptySet DEF V, W
  <2>4. CASE b \notin blocks
    <3>1. \E x : V \cup W = {x}
      <4>1. ASSUME NEW v \in Live, obj[v] = b PROVE V \cup W = {v}
        BY <2>1, <2>2, <4>1 DEF OwnerInv
      <4>2. ASSUME NEW t \in Writers, o[t] = b PROVE V \cup W = {t}
        BY <2>1, <2>2, <4>2 DEF OwnerInv
      <4> QED
        BY <2>4, <4>1, <4>2 DEF OwnerInv
    <3>2. Cardinality(V \cup W) = 1
      BY <3>1, FS_Singleton
    <3> QED
      BY <2>4, <3>2 DEF V, W
  <2> QED
    BY <2>3, <2>4
<1> QED
  BY <1>1, <1>2, <1>3 DEF ObjectHasOneOwner
=============================================================================
