-------------------------- MODULE Benchmark2Proofs --------------------------
(***************************************************************************)
(* Proofs about the two backends of benchmark 2 in the benchmark, for any  *)
(* number of threads, blocks and shards: the liburcu backend here, the     *)
(* atomsnap backend in BackendProofs.                                      *)
(***************************************************************************)
EXTENDS MCBenchmark2, BackendProofs

\* The provers, in the order in which they try each step.
USE ZenonT(3), SMT, ZenonT(20), SMTT(60)

-----------------------------------------------------------------------------
(***************************************************************************)
(* The liburcu backend (UrcuBackend).                                      *)
(***************************************************************************)

\* The instance has the finite sets of FiniteSets ...
LEMMA UrcuFinite ==
  ASSUME NEW S
  PROVE  Urcu!IsFiniteSet(S) <=> IsFiniteSet(S)
  BY DEF Urcu!IsFiniteSet, IsFiniteSet

\* ... and their cardinalities.
LEMMA UrcuCardinality ==
  ASSUME NEW S
  PROVE  Urcu!Cardinality(S) = Cardinality(S)
  BY DEF Urcu!Cardinality, Cardinality

\* What Benchmark2Assumption says of the constants of the instance.
LEMMA UrcuAssumptions ==
  /\ NS \in Nat \ {0} /\ NW \in Nat /\ NR \in Nat
  /\ Reclaims \subseteq {"async", "sync-batch"}
  /\ NULL \notin UrcuBlocks /\ IsFiniteSet(UrcuBlocks)
  BY Benchmark2Assumption, UrcuFinite DEF Urcu!UrcuAssumption

\* init() establishes the invariant: each shard has a block of its own.
LEMMA UrcuInit == Urcu!Init => Urcu!UrcuInv
<1> SUFFICES ASSUME Urcu!Init PROVE Urcu!UrcuInv
  OBVIOUS
<1> USE UrcuAssumptions DEF Urcu!Init
<1>1. \A w \in Urcu!WriterIds : w % NS \in Urcu!Shards
  BY DEF Urcu!WriterIds, Urcu!Shards
<1>2. Urcu!TypeOK
  BY <1>1 DEF Urcu!TypeOK
<1>3. Urcu!ControlInv
  BY DEF Urcu!ControlInv
<1>4. Urcu!OnePlace
  <2> DEFINE kind == [b \in UrcuBlocks |-> IF \E s \in Urcu!Shards : gptrs[s] = b
                                           THEN "shard" ELSE "pool"]
             at   == [b \in UrcuBlocks |-> IF \E s \in Urcu!Shards : gptrs[s] = b
                                           THEN CHOOSE s \in Urcu!Shards : gptrs[s] = b
                                           ELSE 0]
  <2>1. \A b \in UrcuBlocks, s \in Urcu!Shards :
          b = gptrs[s] => kind[b] = "shard" /\ at[b] = s
    OBVIOUS
  <2>2. \A b \in UrcuBlocks :
          (\A s \in Urcu!Shards : b # gptrs[s]) => kind[b] = "pool"
    OBVIOUS
  <2>3. 0 \in Urcu!Shards
    BY DEF Urcu!Shards
  <2>4. /\ kind \in [UrcuBlocks -> Urcu!Kinds]
        /\ at \in [UrcuBlocks -> Urcu!Shards \cup Urcu!WriterIds]
    BY <2>3 DEF Urcu!Kinds
  <2> HIDE DEF kind, at
  <2>5. Urcu!PlacedBy(kind, at)
    BY <2>1, <2>2 DEF Urcu!PlacedBy
  <2> QED
    BY <2>4, <2>5 DEF Urcu!OnePlace
<1>5. Urcu!ReaderInv
  BY DEF Urcu!ReaderInv
<1>6. Urcu!ValueInv
  BY DEF Urcu!ValueInv
<1>7. Urcu!PendingIsExact
  <2>1. {w \in Urcu!WriterIds : wpc[w] = "call"} = {}
    OBVIOUS
  <2>2. /\ Cardinality({w \in Urcu!WriterIds : wpc[w] = "call"}) = 0
        /\ Cardinality(queued) = 0
    BY <2>1, FS_EmptySet
  <2>3. pending = 0
    OBVIOUS
  <2> QED
    BY <2>2, <2>3, UrcuCardinality DEF Urcu!PendingIsExact
<1> QED
  BY <1>2, <1>3, <1>4, <1>5, <1>6, <1>7 DEF Urcu!UrcuInv

\* The next shard of a writer is one of the shards.
LEMMA UrcuNextShard ==
  ASSUME Urcu!TypeOK, NEW w \in Urcu!WriterIds, Urcu!NextShard(w)
  PROVE  shard' \in [Urcu!WriterIds -> Urcu!Shards]
<1>1. \A s \in Urcu!Shards : (s + 1) % NS \in Urcu!Shards
  BY UrcuAssumptions DEF Urcu!Shards
<1> QED
  BY <1>1 DEF Urcu!TypeOK, Urcu!NextShard

\* The pool writes its link into the block that is freed and into no other.
LEMMA UrcuFreed ==
  ASSUME Urcu!TypeOK, NEW b \in UrcuBlocks, Urcu!FreeBlock(b)
  PROVE  /\ pool' = pool \cup {b} /\ pool' \in SUBSET UrcuBlocks
         /\ v1' \in [UrcuBlocks -> Nat \cup {NULL}]
         /\ \A c \in UrcuBlocks : c # b => v1'[c] = v1[c]
<1>1. PICK word \in Nat \cup {NULL} : v1' = [v1 EXCEPT ![b] = word]
  BY DEF Urcu!FreeBlock
<1> QED
  BY <1>1 DEF Urcu!TypeOK, Urcu!FreeBlock

\* A reader finds the two fields equal.
LEMMA UrcuChecked ==
  ASSUME Urcu!TypeOK, Urcu!ControlInv, Urcu!ReaderInv, Urcu!ValueInv,
         NEW r \in Urcu!ReaderIds, rpc[r] = "v2"
  PROVE  val[r] = v2[ptr[r]]
<1>1. /\ ptr[r] \in UrcuBlocks /\ ptr[r] \notin pool
      /\ \A w \in Urcu!WriterIds : ptr[r] # new[w]
  BY DEF Urcu!TypeOK, Urcu!ControlInv, Urcu!ReaderInv
<1> QED
  BY <1>1 DEF Urcu!ValueInv

\* A reader's shard is one of the shards.
LEMMA UrcuReaderShard ==
  ASSUME NEW r \in Urcu!ReaderIds
  PROVE  r % NS \in Urcu!Shards
  BY UrcuAssumptions DEF Urcu!ReaderIds, Urcu!Shards

\* The types after a step of a writer ...
LEMMA UrcuWriterType ==
  ASSUME Urcu!TypeOK, Urcu!ControlInv, NEW w \in Urcu!WriterIds, Urcu!WriterStep(w)
  PROVE  Urcu!TypeOK'
<1> USE DEF Urcu!TypeOK, Urcu!WriterAt, Urcu!readerVars, Urcu!rcuVars
<1>1. /\ new[w] # NULL <=> wpc[w] \in {"v1", "v2", "publish"}
      /\ old[w] # NULL <=> wpc[w] \in {"count", "call", "retire"}
  BY DEF Urcu!ControlInv
<1>2. Urcu!Reading \in SUBSET Urcu!ReaderIds
  BY DEF Urcu!Reading
<1>3. CASE Urcu!WriterCallsRcu(w)
  <2>1. shard' \in [Urcu!WriterIds -> Urcu!Shards]
    BY <1>3, UrcuNextShard DEF Urcu!WriterCallsRcu
  <2> QED
    BY <1>1, <1>2, <1>3, <2>1 DEF Urcu!WriterCallsRcu
<1>4. CASE Urcu!WriterRetires(w)
  <2>1. shard' \in [Urcu!WriterIds -> Urcu!Shards]
    BY <1>4, UrcuNextShard DEF Urcu!WriterRetires
  <2> QED
    BY <1>1, <1>4, <2>1 DEF Urcu!WriterRetires
<1>5. CASE Urcu!WriterFrees(w)
  <2>1. shard' \in [Urcu!WriterIds -> Urcu!Shards]
    BY <1>5, UrcuNextShard DEF Urcu!WriterFrees
  <2>2. PICK b \in UrcuBlocks : /\ Urcu!FreeBlock(b)
                                /\ retire' = [retire EXCEPT ![w] = @ \ {b}]
    BY <1>5 DEF Urcu!WriterFrees
  <2>3. /\ pool' \in SUBSET UrcuBlocks /\ v1' \in [UrcuBlocks -> Nat \cup {NULL}]
        /\ retire' \in [Urcu!WriterIds -> SUBSET UrcuBlocks]
    BY <2>2, UrcuFreed
  <2>4. \E p \in {"free", "done", "loop"} : wpc' = [wpc EXCEPT ![w] = p]
    BY <1>5 DEF Urcu!WriterFrees
  <2> QED
    BY <1>5, <2>1, <2>3, <2>4 DEF Urcu!WriterFrees
<1>6. CASE \/ Urcu!WriterAllocs(w) \/ Urcu!WriterCounts(w)
           \/ Urcu!WriterSynced(w) \/ Urcu!WriterLeaves(w)
  BY <1>6 DEF Urcu!WriterAllocs, Urcu!WriterCounts, Urcu!WriterSynced,
     Urcu!WriterLeaves
<1>7. CASE Urcu!WriterSetsV1(w)
  BY <1>7, <1>1 DEF Urcu!WriterSetsV1
<1>8. CASE Urcu!WriterSetsV2(w)
  BY <1>8, <1>1 DEF Urcu!WriterSetsV2
<1>9. CASE Urcu!WriterPublishes(w)
  BY <1>9, <1>1 DEF Urcu!WriterPublishes
<1>10. CASE Urcu!WriterSyncs(w)
  BY <1>10, <1>2 DEF Urcu!WriterSyncs
<1> QED
  BY <1>3, <1>4, <1>5, <1>6, <1>7, <1>8, <1>9, <1>10 DEF Urcu!WriterStep

\* ... of a reader ...
LEMMA UrcuReaderType ==
  ASSUME Urcu!TypeOK, Urcu!ControlInv, Urcu!ValueInv, Urcu!ReaderInv,
         NEW r \in Urcu!ReaderIds, Urcu!ReaderStep(r)
  PROVE  Urcu!TypeOK'
<1> USE DEF Urcu!TypeOK, Urcu!ReaderAt, Urcu!writerVars, Urcu!rcuVars
<1>1. CASE Urcu!ReaderLocks(r) \/ Urcu!ReaderLeaves(r)
  BY <1>1 DEF Urcu!ReaderLocks, Urcu!ReaderLeaves
<1>2. CASE Urcu!ReaderDereferences(r)
  BY <1>2, UrcuReaderShard DEF Urcu!ReaderDereferences
<1>3. CASE Urcu!ReaderReadsV1(r)
  <2>1. v1[ptr[r]] \in Nat \cup {NULL}
    BY <1>3 DEF Urcu!ReaderReadsV1, Urcu!ControlInv
  <2> QED
    BY <1>3, <2>1 DEF Urcu!ReaderReadsV1
<1>4. CASE Urcu!ReaderChecks(r)
  BY <1>4, UrcuChecked DEF Urcu!ReaderChecks
<1>5. CASE Urcu!ReaderUnlocks(r)
  BY <1>5 DEF Urcu!ReaderUnlocks
<1> QED
  BY <1>1, <1>2, <1>3, <1>4, <1>5 DEF Urcu!ReaderStep

\* ... and of liburcu, the timer or main.
LEMMA UrcuOtherType ==
  ASSUME Urcu!TypeOK, Urcu!RcuStep \/ Urcu!TimeIsUp \/ Urcu!MainStep
  PROVE  Urcu!TypeOK'
<1> USE DEF Urcu!TypeOK, Urcu!writerVars, Urcu!readerVars, Urcu!rcuVars
<1>1. ASSUME NEW s \in Urcu!Shards, Urcu!StopFrees(s) PROVE Urcu!TypeOK'
  <2>1. PICK b \in UrcuBlocks : b = gptrs[s] /\ Urcu!FreeBlock(b)
    BY <1>1 DEF Urcu!StopFrees
  <2>2. pool' \in SUBSET UrcuBlocks /\ v1' \in [UrcuBlocks -> Nat \cup {NULL}]
    BY <2>1, UrcuFreed
  <2> QED
    BY <1>1, <2>2 DEF Urcu!StopFrees
<1>2. CASE Urcu!CallbackFrees
  <2>1. PICK b \in UrcuBlocks : b = calling /\ Urcu!FreeBlock(b)
    BY <1>2 DEF Urcu!CallbackFrees
  <2>2. pool' \in SUBSET UrcuBlocks /\ v1' \in [UrcuBlocks -> Nat \cup {NULL}]
    BY <2>1, UrcuFreed
  <2> QED
    BY <1>2, <2>2 DEF Urcu!CallbackFrees
<1>3. CASE Urcu!CallbackCounts \/ Urcu!TimeIsUp \/ Urcu!Barrier
  BY <1>3 DEF Urcu!CallbackCounts, Urcu!TimeIsUp, Urcu!Barrier
<1>4. CASE Urcu!DeletePool
  BY <1>4 DEF Urcu!DeletePool
<1> QED
  BY <1>1, <1>2, <1>3, <1>4 DEF Urcu!RcuStep, Urcu!MainStep

\* What is known of where the threads are, after a step of a writer ...
LEMMA UrcuWriterControl ==
  ASSUME Urcu!TypeOK, Urcu!ControlInv, Urcu!ReaderInv, Urcu!ValueInv,
         NEW w \in Urcu!WriterIds, Urcu!WriterStep(w)
  PROVE  Urcu!ControlInv'
<1> USE DEF Urcu!TypeOK, Urcu!ControlInv, Urcu!AllJoined, Urcu!WriterAt, Urcu!readerVars, Urcu!rcuVars
<1>1. CASE Urcu!WriterAllocs(w)
  <2>1. PICK b \in pool : new' = [new EXCEPT ![w] = b]
    BY <1>1 DEF Urcu!WriterAllocs
  <2>2. b # NULL
    BY UrcuAssumptions
  <2> QED
    BY <1>1, <2>1, <2>2 DEF Urcu!WriterAllocs
<1>2. CASE \/ Urcu!WriterSetsV1(w) \/ Urcu!WriterSetsV2(w)
           \/ Urcu!WriterPublishes(w) \/ Urcu!WriterCounts(w)
  BY <1>2 DEF Urcu!WriterSetsV1, Urcu!WriterSetsV2, Urcu!WriterPublishes,
     Urcu!WriterCounts
<1>3. CASE \/ Urcu!WriterCallsRcu(w) \/ Urcu!WriterRetires(w)
           \/ Urcu!WriterSyncs(w) \/ Urcu!WriterSynced(w)
  BY <1>3 DEF Urcu!WriterCallsRcu, Urcu!WriterRetires, Urcu!WriterSyncs,
     Urcu!WriterSynced
<1>4. CASE \/ Urcu!WriterFrees(w) \/ Urcu!WriterLeaves(w)
  BY <1>4 DEF Urcu!WriterFrees, Urcu!WriterLeaves
<1> QED
  BY <1>1, <1>2, <1>3, <1>4 DEF Urcu!WriterStep

\* ... of a reader ...
LEMMA UrcuReaderControl ==
  ASSUME Urcu!TypeOK, Urcu!ControlInv, Urcu!ReaderInv, Urcu!ValueInv,
         NEW r \in Urcu!ReaderIds, Urcu!ReaderStep(r)
  PROVE  Urcu!ControlInv'
<1> USE DEF Urcu!TypeOK, Urcu!ControlInv, Urcu!AllJoined, Urcu!ReaderAt, Urcu!writerVars, Urcu!rcuVars
<1>1. CASE Urcu!ReaderDereferences(r)
  <2>1. mpc = "join" /\ gptrs[r % NS] # NULL
    BY <1>1, UrcuReaderShard DEF Urcu!ReaderDereferences
  <2> QED
    BY <1>1, <2>1 DEF Urcu!ReaderDereferences
<1>2. CASE Urcu!ReaderChecks(r)
  <2>1. val[r] = v2[ptr[r]]
    BY <1>2, UrcuChecked DEF Urcu!ReaderChecks
  <2> QED
    BY <1>2, <2>1 DEF Urcu!ReaderChecks
<1>3. CASE Urcu!ReaderLocks(r)
  <2>1. mpc = "join"
    BY <1>3 DEF Urcu!ReaderLocks
  <2> QED
    BY <1>3, <2>1 DEF Urcu!ReaderLocks
<1>4. CASE Urcu!ReaderReadsV1(r)
  <2>1. mpc = "join"
    BY <1>4 DEF Urcu!ReaderReadsV1
  <2> QED
    BY <1>4, <2>1 DEF Urcu!ReaderReadsV1
<1>5. CASE Urcu!ReaderUnlocks(r)
  <2>1. mpc = "join"
    BY <1>5 DEF Urcu!ReaderUnlocks
  <2> QED
    BY <1>5, <2>1 DEF Urcu!ReaderUnlocks
<1>6. CASE Urcu!ReaderLeaves(r)
  <2>1. mpc = "join"
    BY <1>6 DEF Urcu!ReaderLeaves
  <2> QED
    BY <1>6, <2>1 DEF Urcu!ReaderLeaves
<1> QED
  BY <1>1, <1>2, <1>3, <1>4, <1>5, <1>6 DEF Urcu!ReaderStep

\* ... and of the others.
LEMMA UrcuOtherControl ==
  ASSUME Urcu!TypeOK, Urcu!ControlInv, Urcu!ReaderInv, Urcu!ValueInv,
         Urcu!RcuStep \/ Urcu!TimeIsUp \/ Urcu!MainStep
  PROVE  Urcu!ControlInv'
<1> USE DEF Urcu!TypeOK, Urcu!ControlInv, Urcu!AllJoined, Urcu!writerVars, Urcu!readerVars, Urcu!rcuVars
<1>1. ASSUME NEW s \in Urcu!Shards, Urcu!StopFrees(s) PROVE Urcu!ControlInv'
  BY <1>1 DEF Urcu!StopFrees
<1>2. CASE \/ Urcu!CallbackCounts \/ Urcu!CallbackFrees \/ Urcu!TimeIsUp
           \/ Urcu!Barrier
  BY <1>2 DEF Urcu!CallbackCounts, Urcu!CallbackFrees, Urcu!TimeIsUp,
     Urcu!Barrier
<1>3. CASE Urcu!DeletePool
  BY <1>3 DEF Urcu!DeletePool
<1> QED
  BY <1>1, <1>2, <1>3 DEF Urcu!RcuStep, Urcu!MainStep

\* What moves no block leaves every one in its place.
LEMMA UrcuSamePlaces ==
  ASSUME Urcu!OnePlace, UNCHANGED <<pool, queued, calling, gptrs, new, old, retire>>
  PROVE  Urcu!OnePlace'
<1>1. PICK kind \in [UrcuBlocks -> Urcu!Kinds],
           at \in [UrcuBlocks -> Urcu!Shards \cup Urcu!WriterIds] :
           Urcu!PlacedBy(kind, at)
  BY DEF Urcu!OnePlace
<1>2. Urcu!PlacedBy(kind, at)'
  BY <1>1 DEF Urcu!PlacedBy
<1> QED
  BY <1>1, <1>2 DEF Urcu!OnePlace

\* A block is still in one place after a step of a writer ...
LEMMA UrcuWriterPlaces ==
  ASSUME Urcu!TypeOK, Urcu!ControlInv, Urcu!OnePlace,
         NEW w \in Urcu!WriterIds, Urcu!WriterStep(w)
  PROVE  Urcu!OnePlace'
<1> USE DEF Urcu!TypeOK, Urcu!WriterAt, Urcu!readerVars, Urcu!rcuVars
<1>1. CASE Urcu!WriterAllocs(w)
  <2>1. PICK kind \in [UrcuBlocks -> Urcu!Kinds],
             at \in [UrcuBlocks -> Urcu!Shards \cup Urcu!WriterIds] :
             Urcu!PlacedBy(kind, at)
    BY DEF Urcu!OnePlace
  <2>2. PICK b \in UrcuBlocks : new[w] = NULL /\ b \in pool /\ new' = [new EXCEPT ![w] = b] /\ pool' = pool \ {b}
    BY <1>1, UrcuAssumptions DEF Urcu!WriterAllocs, Urcu!ControlInv
  <2> DEFINE k == [kind EXCEPT ![b] = "new"]
             a == [at EXCEPT ![b] = w]
  <2>3. k \in [UrcuBlocks -> Urcu!Kinds] /\ a \in [UrcuBlocks -> Urcu!Shards \cup Urcu!WriterIds]
    BY DEF Urcu!Kinds
  <2>4. Urcu!PlacedBy(k, a)'
    BY <1>1, <2>1, <2>2, UrcuAssumptions DEF Urcu!WriterAllocs, Urcu!PlacedBy
  <2> QED
    BY <2>3, <2>4 DEF Urcu!OnePlace
<1>2. CASE Urcu!WriterPublishes(w)
  <2>1. PICK kind \in [UrcuBlocks -> Urcu!Kinds],
             at \in [UrcuBlocks -> Urcu!Shards \cup Urcu!WriterIds] :
             Urcu!PlacedBy(kind, at)
    BY DEF Urcu!OnePlace
  <2>2. mpc = "join" /\ wpc[w] = "publish" /\ old[w] = NULL
    BY <1>2 DEF Urcu!WriterPublishes, Urcu!ControlInv, Urcu!AllJoined
  <2>3. PICK s \in Urcu!Shards, b \in UrcuBlocks, c \in UrcuBlocks :
          s = shard[w] /\ b = new[w] /\ c = gptrs[s]
    BY <2>2 DEF Urcu!ControlInv
  <2>4. b # c
    BY <2>1, <2>3 DEF Urcu!PlacedBy
  <2> DEFINE k == [kind EXCEPT ![b] = "shard", ![c] = "old"]
             a == [at EXCEPT ![b] = s, ![c] = w]
  <2>5. k \in [UrcuBlocks -> Urcu!Kinds] /\ a \in [UrcuBlocks -> Urcu!Shards \cup Urcu!WriterIds]
    BY DEF Urcu!Kinds
  <2>6. Urcu!PlacedBy(k, a)'
    BY <1>2, <2>1, <2>2, <2>3, <2>4, UrcuAssumptions DEF Urcu!WriterPublishes, Urcu!PlacedBy
  <2> QED
    BY <2>5, <2>6 DEF Urcu!OnePlace
<1>3. CASE Urcu!WriterCallsRcu(w)
  <2>1. PICK kind \in [UrcuBlocks -> Urcu!Kinds],
             at \in [UrcuBlocks -> Urcu!Shards \cup Urcu!WriterIds] :
             Urcu!PlacedBy(kind, at)
    BY DEF Urcu!OnePlace
  <2>2. PICK b \in UrcuBlocks : b = old[w]
    BY <1>3, UrcuAssumptions DEF Urcu!WriterCallsRcu, Urcu!ControlInv
  <2> DEFINE k == [kind EXCEPT ![b] = "queue"]
  <2>3. k \in [UrcuBlocks -> Urcu!Kinds] /\ at \in [UrcuBlocks -> Urcu!Shards \cup Urcu!WriterIds]
    BY DEF Urcu!Kinds
  <2>4. Urcu!PlacedBy(k, at)'
    BY <1>3, <2>1, <2>2, UrcuAssumptions DEF Urcu!WriterCallsRcu, Urcu!PlacedBy
  <2> QED
    BY <2>3, <2>4 DEF Urcu!OnePlace
<1>4. CASE Urcu!WriterRetires(w)
  <2>1. PICK kind \in [UrcuBlocks -> Urcu!Kinds],
             at \in [UrcuBlocks -> Urcu!Shards \cup Urcu!WriterIds] :
             Urcu!PlacedBy(kind, at)
    BY DEF Urcu!OnePlace
  <2>2. PICK b \in UrcuBlocks : /\ b = old[w] /\ old' = [old EXCEPT ![w] = NULL]
                                /\ retire' = [retire EXCEPT ![w] = @ \cup {b}]
    BY <1>4, UrcuAssumptions DEF Urcu!WriterRetires, Urcu!ControlInv
  <2> DEFINE k == [kind EXCEPT ![b] = "retire"]
             a == [at EXCEPT ![b] = w]
  <2>3. k \in [UrcuBlocks -> Urcu!Kinds] /\ a \in [UrcuBlocks -> Urcu!Shards \cup Urcu!WriterIds]
    BY DEF Urcu!Kinds
  <2>4. Urcu!PlacedBy(k, a)'
    BY <1>4, <2>1, <2>2, UrcuAssumptions DEF Urcu!WriterRetires, Urcu!PlacedBy
  <2> QED
    BY <2>3, <2>4 DEF Urcu!OnePlace
<1>5. CASE Urcu!WriterFrees(w)
  <2>1. PICK kind \in [UrcuBlocks -> Urcu!Kinds],
             at \in [UrcuBlocks -> Urcu!Shards \cup Urcu!WriterIds] :
             Urcu!PlacedBy(kind, at)
    BY DEF Urcu!OnePlace
  <2>2. PICK b \in UrcuBlocks : /\ b \in retire[w] /\ pool' = pool \cup {b}
                                /\ retire' = [retire EXCEPT ![w] = @ \ {b}]
    BY <1>5, UrcuAssumptions DEF Urcu!WriterFrees, Urcu!FreeBlock, Urcu!ControlInv
  <2> DEFINE k == [kind EXCEPT ![b] = "pool"]
  <2>3. k \in [UrcuBlocks -> Urcu!Kinds] /\ at \in [UrcuBlocks -> Urcu!Shards \cup Urcu!WriterIds]
    BY DEF Urcu!Kinds
  <2>4. Urcu!PlacedBy(k, at)'
    BY <1>5, <2>1, <2>2, UrcuAssumptions DEF Urcu!WriterFrees, Urcu!PlacedBy
  <2> QED
    BY <2>3, <2>4 DEF Urcu!OnePlace
<1>6. CASE \/ Urcu!WriterSetsV1(w) \/ Urcu!WriterSetsV2(w)
           \/ Urcu!WriterCounts(w) \/ Urcu!WriterSyncs(w)
           \/ Urcu!WriterSynced(w) \/ Urcu!WriterLeaves(w)
  BY <1>6, UrcuSamePlaces DEF Urcu!WriterSetsV1, Urcu!WriterSetsV2,
     Urcu!WriterCounts, Urcu!WriterSyncs, Urcu!WriterSynced, Urcu!WriterLeaves
<1> QED
  BY <1>1, <1>2, <1>3, <1>4, <1>5, <1>6 DEF Urcu!WriterStep

\* ... of a reader, who moves none ...
LEMMA UrcuReaderPlaces ==
  ASSUME Urcu!TypeOK, Urcu!ControlInv, Urcu!OnePlace,
         NEW r \in Urcu!ReaderIds, Urcu!ReaderStep(r)
  PROVE  Urcu!OnePlace'
<1> USE DEF Urcu!TypeOK, Urcu!ReaderAt, Urcu!writerVars, Urcu!rcuVars
<1>1. CASE \/ Urcu!ReaderLocks(r) \/ Urcu!ReaderDereferences(r)
           \/ Urcu!ReaderReadsV1(r) \/ Urcu!ReaderChecks(r)
           \/ Urcu!ReaderUnlocks(r) \/ Urcu!ReaderLeaves(r)
  BY <1>1, UrcuSamePlaces DEF Urcu!ReaderLocks, Urcu!ReaderDereferences,
     Urcu!ReaderReadsV1, Urcu!ReaderChecks, Urcu!ReaderUnlocks,
     Urcu!ReaderLeaves
<1> QED
  BY <1>1 DEF Urcu!ReaderStep

\* ... and of the others: a callback gives its block back.
LEMMA UrcuOtherPlaces ==
  ASSUME Urcu!TypeOK, Urcu!ControlInv, Urcu!OnePlace,
         Urcu!RcuStep \/ Urcu!TimeIsUp \/ Urcu!MainStep
  PROVE  Urcu!OnePlace'
<1> USE DEF Urcu!TypeOK, Urcu!writerVars, Urcu!readerVars, Urcu!rcuVars
<1>1. CASE Urcu!CallbackCounts
  <2>1. PICK kind \in [UrcuBlocks -> Urcu!Kinds],
             at \in [UrcuBlocks -> Urcu!Shards \cup Urcu!WriterIds] :
             Urcu!PlacedBy(kind, at)
    BY DEF Urcu!OnePlace
  <2>2. PICK b \in UrcuBlocks : b \in queued /\ queued' = queued \ {b} /\ calling' = b
    BY <1>1, UrcuAssumptions DEF Urcu!CallbackCounts, Urcu!ControlInv
  <2> DEFINE k == [kind EXCEPT ![b] = "callback"]
  <2>3. k \in [UrcuBlocks -> Urcu!Kinds] /\ at \in [UrcuBlocks -> Urcu!Shards \cup Urcu!WriterIds]
    BY DEF Urcu!Kinds
  <2>4. Urcu!PlacedBy(k, at)'
    BY <1>1, <2>1, <2>2, UrcuAssumptions DEF Urcu!CallbackCounts, Urcu!PlacedBy
  <2> QED
    BY <2>3, <2>4 DEF Urcu!OnePlace
<1>2. CASE Urcu!CallbackFrees
  <2>1. PICK kind \in [UrcuBlocks -> Urcu!Kinds],
             at \in [UrcuBlocks -> Urcu!Shards \cup Urcu!WriterIds] :
             Urcu!PlacedBy(kind, at)
    BY DEF Urcu!OnePlace
  <2>2. PICK b \in UrcuBlocks : b = calling
    BY <1>2, UrcuAssumptions DEF Urcu!CallbackFrees, Urcu!ControlInv
  <2> DEFINE k == [kind EXCEPT ![b] = "pool"]
  <2>3. k \in [UrcuBlocks -> Urcu!Kinds] /\ at \in [UrcuBlocks -> Urcu!Shards \cup Urcu!WriterIds]
    BY DEF Urcu!Kinds
  <2>4. Urcu!PlacedBy(k, at)'
    BY <1>2, <2>1, <2>2, UrcuAssumptions DEF Urcu!CallbackFrees, Urcu!FreeBlock,
       Urcu!PlacedBy
  <2> QED
    BY <2>3, <2>4 DEF Urcu!OnePlace
<1>3. ASSUME NEW s \in Urcu!Shards, Urcu!StopFrees(s) PROVE Urcu!OnePlace'
  <2>1. PICK kind \in [UrcuBlocks -> Urcu!Kinds],
             at \in [UrcuBlocks -> Urcu!Shards \cup Urcu!WriterIds] :
             Urcu!PlacedBy(kind, at)
    BY DEF Urcu!OnePlace
  <2>2. PICK b \in UrcuBlocks : b = gptrs[s]
    BY <1>3, UrcuAssumptions DEF Urcu!StopFrees, Urcu!ControlInv
  <2> DEFINE k == [kind EXCEPT ![b] = "pool"]
  <2>3. k \in [UrcuBlocks -> Urcu!Kinds] /\ at \in [UrcuBlocks -> Urcu!Shards \cup Urcu!WriterIds]
    BY DEF Urcu!Kinds
  <2>4. Urcu!PlacedBy(k, at)'
    BY <1>3, <2>1, <2>2, UrcuAssumptions DEF Urcu!StopFrees, Urcu!FreeBlock,
       Urcu!PlacedBy
  <2> QED
    BY <2>3, <2>4 DEF Urcu!OnePlace
<1>4. CASE \/ Urcu!TimeIsUp \/ Urcu!Barrier \/ Urcu!DeletePool
  BY <1>4, UrcuSamePlaces DEF Urcu!TimeIsUp, Urcu!Barrier, Urcu!DeletePool
<1> QED
  BY <1>1, <1>2, <1>3, <1>4 DEF Urcu!RcuStep, Urcu!MainStep

\* The current object of a shard is in no one else's hands.
LEMMA UrcuCurrentApart ==
  ASSUME Urcu!OnePlace, NEW s \in Urcu!Shards, gptrs[s] \in UrcuBlocks
  PROVE  /\ gptrs[s] \notin pool /\ gptrs[s] \notin queued /\ gptrs[s] # calling
         /\ \A w \in Urcu!WriterIds : gptrs[s] # new[w] /\ gptrs[s] \notin retire[w]
<1>1. PICK kind \in [UrcuBlocks -> Urcu!Kinds],
           at \in [UrcuBlocks -> Urcu!Shards \cup Urcu!WriterIds] :
           Urcu!PlacedBy(kind, at)
  BY DEF Urcu!OnePlace
<1> QED
  BY <1>1 DEF Urcu!PlacedBy

\* The object a writer fills is in no one else's hands.
LEMMA UrcuNewApart ==
  ASSUME Urcu!OnePlace, NEW w \in Urcu!WriterIds, new[w] \in UrcuBlocks
  PROVE  /\ new[w] \notin pool
         /\ \A x \in Urcu!WriterIds \ {w} : new[x] # new[w]
<1>1. PICK kind \in [UrcuBlocks -> Urcu!Kinds],
           at \in [UrcuBlocks -> Urcu!Shards \cup Urcu!WriterIds] :
           Urcu!PlacedBy(kind, at)
  BY DEF Urcu!OnePlace
<1> QED
  BY <1>1 DEF Urcu!PlacedBy

\* What a reader has dereferenced is kept for it, after a step of a writer
\* ...
LEMMA UrcuWriterReaders ==
  ASSUME Urcu!TypeOK, Urcu!ControlInv, Urcu!OnePlace, Urcu!ReaderInv,
         NEW w \in Urcu!WriterIds, Urcu!WriterStep(w)
  PROVE  Urcu!ReaderInv'
<1> USE DEF Urcu!TypeOK, Urcu!ControlInv, Urcu!ReaderInv, Urcu!WriterAt, Urcu!readerVars, Urcu!rcuVars
<1>1. CASE Urcu!WriterAllocs(w)
  <2>1. PICK b \in pool : new' = [new EXCEPT ![w] = b] /\ pool' = pool \ {b}
    BY <1>1 DEF Urcu!WriterAllocs
  <2>2. b \in UrcuBlocks
    BY <2>1
  <2> QED
    BY <1>1, <2>1, <2>2 DEF Urcu!WriterAllocs
<1>2. CASE Urcu!WriterFrees(w)
  <2>1. PICK b \in retire[w] : pool' = pool \cup {b} /\ retire' = [retire EXCEPT ![w] = @ \ {b}]
    BY <1>2 DEF Urcu!WriterFrees, Urcu!FreeBlock
  <2>2. b \in UrcuBlocks
    BY <2>1
  <2> QED
    BY <1>2, <2>1, <2>2 DEF Urcu!WriterFrees
<1>3. CASE \/ Urcu!WriterSetsV1(w) \/ Urcu!WriterSetsV2(w)
           \/ Urcu!WriterPublishes(w) \/ Urcu!WriterCounts(w)
  BY <1>3 DEF Urcu!WriterSetsV1, Urcu!WriterSetsV2, Urcu!WriterPublishes,
     Urcu!WriterCounts
<1>4. CASE Urcu!WriterCallsRcu(w)
  BY <1>4 DEF Urcu!WriterCallsRcu, Urcu!Reading
<1>5. CASE Urcu!WriterRetires(w)
  BY <1>5 DEF Urcu!WriterRetires
<1>6. CASE Urcu!WriterSyncs(w)
  BY <1>6 DEF Urcu!WriterSyncs, Urcu!Reading
<1>7. CASE Urcu!WriterSynced(w) \/ Urcu!WriterLeaves(w)
  BY <1>7 DEF Urcu!WriterSynced, Urcu!WriterLeaves
<1> QED
  BY <1>1, <1>2, <1>3, <1>4, <1>5, <1>6, <1>7 DEF Urcu!WriterStep

\* ... of a reader ...
LEMMA UrcuReaderReaders ==
  ASSUME Urcu!TypeOK, Urcu!ControlInv, Urcu!OnePlace, Urcu!ReaderInv,
         NEW r \in Urcu!ReaderIds, Urcu!ReaderStep(r)
  PROVE  Urcu!ReaderInv'
<1> USE DEF Urcu!TypeOK, Urcu!ControlInv, Urcu!ReaderInv, Urcu!ReaderAt, Urcu!writerVars, Urcu!rcuVars
<1>1. CASE Urcu!ReaderDereferences(r)
  <2>1. mpc = "join" /\ r % NS \in Urcu!Shards
    BY <1>1, UrcuReaderShard DEF Urcu!ReaderDereferences, Urcu!AllJoined
  <2>2. gptrs[r % NS] \in UrcuBlocks
    BY <2>1
  <2>3. /\ gptrs[r % NS] \notin pool /\ gptrs[r % NS] \notin queued
        /\ gptrs[r % NS] # calling
        /\ \A w \in Urcu!WriterIds : gptrs[r % NS] # new[w] /\ gptrs[r % NS] \notin retire[w]
    BY <2>1, <2>2, UrcuCurrentApart
  <2> QED
    BY <1>1, <2>2, <2>3 DEF Urcu!ReaderDereferences
<1>2. CASE \/ Urcu!ReaderLocks(r) \/ Urcu!ReaderReadsV1(r)
           \/ Urcu!ReaderChecks(r) \/ Urcu!ReaderUnlocks(r)
  BY <1>2 DEF Urcu!ReaderLocks, Urcu!ReaderReadsV1, Urcu!ReaderChecks,
     Urcu!ReaderUnlocks
<1>3. CASE Urcu!ReaderLeaves(r)
  BY <1>3 DEF Urcu!ReaderLeaves
<1> QED
  BY <1>1, <1>2, <1>3 DEF Urcu!ReaderStep

\* ... and of the others: a callback runs when those who may have its block
\* have left.
LEMMA UrcuOtherReaders ==
  ASSUME Urcu!TypeOK, Urcu!ControlInv, Urcu!OnePlace, Urcu!ReaderInv,
         Urcu!RcuStep \/ Urcu!TimeIsUp \/ Urcu!MainStep
  PROVE  Urcu!ReaderInv'
<1> USE DEF Urcu!TypeOK, Urcu!ControlInv, Urcu!ReaderInv, Urcu!writerVars, Urcu!readerVars, Urcu!rcuVars
<1>1. CASE Urcu!CallbackCounts
  <2>1. PICK b \in queued : wait[b] = {} /\ queued' = queued \ {b} /\ calling' = b
    BY <1>1 DEF Urcu!CallbackCounts
  <2>2. b \in UrcuBlocks
    BY <2>1
  <2> QED
    BY <1>1, <2>1, <2>2 DEF Urcu!CallbackCounts
<1>2. ASSUME NEW s \in Urcu!Shards, Urcu!StopFrees(s) PROVE Urcu!ReaderInv'
  <2>1. \A r \in Urcu!ReaderIds : ptr[r] = NULL
    BY <1>2 DEF Urcu!StopFrees, Urcu!AllJoined
  <2> QED
    BY <1>2, <2>1 DEF Urcu!StopFrees, Urcu!AllJoined
<1>3. CASE \/ Urcu!CallbackFrees \/ Urcu!TimeIsUp \/ Urcu!Barrier
           \/ Urcu!DeletePool
  BY <1>3 DEF Urcu!CallbackFrees, Urcu!FreeBlock, Urcu!TimeIsUp, Urcu!Barrier,
     Urcu!DeletePool
<1> QED
  BY <1>1, <1>2, <1>3 DEF Urcu!RcuStep, Urcu!MainStep

\* A freed block is neither looked at by a reader nor filled by a writer.
LEMMA UrcuFreedValues ==
  ASSUME Urcu!TypeOK, Urcu!ControlInv, Urcu!ValueInv,
         NEW b \in UrcuBlocks, Urcu!FreeBlock(b),
         \A x \in Urcu!WriterIds : new[x] # b,
         \A r \in Urcu!ReaderIds : ptr[r] # b,
         UNCHANGED <<v2, new, seq, rpc, ptr, val>>,
         \A x \in Urcu!WriterIds : wpc'[x] \in {"v2", "publish"} => wpc'[x] = wpc[x]
  PROVE  Urcu!ValueInv'
<1>1. /\ pool' = pool \cup {b}
      /\ \A c \in UrcuBlocks : c # b => v1'[c] = v1[c]
  BY UrcuFreed
<1>2. ASSUME NEW c \in UrcuBlocks, c \notin pool', \A x \in Urcu!WriterIds : c # new'[x]
      PROVE  v1'[c] = v2'[c]
  BY <1>1, <1>2 DEF Urcu!ValueInv
<1>3. ASSUME NEW x \in Urcu!WriterIds, wpc'[x] \in {"v2", "publish"}
      PROVE  wpc'[x] = wpc[x] /\ new[x] \in UrcuBlocks /\ v1'[new[x]] = v1[new[x]]
  BY <1>1, <1>3 DEF Urcu!ControlInv, Urcu!TypeOK
<1>4. ASSUME NEW r \in Urcu!ReaderIds, rpc[r] = "v2"
      PROVE  v1'[ptr[r]] = v1[ptr[r]]
  BY <1>1, <1>4 DEF Urcu!ControlInv, Urcu!TypeOK
<1> QED
  BY <1>2, <1>3, <1>4 DEF Urcu!ValueInv

\* The fields of a block that is not being filled agree, after a step of a
\* writer ...
LEMMA UrcuWriterValues ==
  ASSUME Urcu!TypeOK, Urcu!ControlInv, Urcu!OnePlace, Urcu!ReaderInv,
         Urcu!ValueInv,
         NEW w \in Urcu!WriterIds, Urcu!WriterStep(w)
  PROVE  Urcu!ValueInv'
<1> USE DEF Urcu!TypeOK, Urcu!ValueInv, Urcu!WriterAt, Urcu!readerVars, Urcu!rcuVars
<1>1. CASE Urcu!WriterAllocs(w)
  <2>1. PICK b \in pool : new' = [new EXCEPT ![w] = b] /\ pool' = pool \ {b}
    BY <1>1 DEF Urcu!WriterAllocs
  <2>2. new[w] = NULL
    BY <1>1 DEF Urcu!WriterAllocs, Urcu!ControlInv
  <2>3. ASSUME NEW c \in UrcuBlocks, c \notin pool',
               \A x \in Urcu!WriterIds : c # new'[x]
        PROVE  v1'[c] = v2'[c]
    <3>1. c # b /\ c \notin pool
      BY <2>1, <2>3
    <3>2. \A x \in Urcu!WriterIds : c # new[x]
      BY <2>1, <2>2, <2>3, UrcuAssumptions
    <3> QED
      BY <1>1, <3>1, <3>2 DEF Urcu!WriterAllocs
  <2>4. \A x \in Urcu!WriterIds :
          /\ wpc'[x] = "v2" => v1'[new'[x]] = seq'[x]
          /\ wpc'[x] = "publish" => v1'[new'[x]] = v2'[new'[x]]
    BY <1>1, <2>1 DEF Urcu!WriterAllocs
  <2> QED
    BY <1>1, <2>3, <2>4 DEF Urcu!WriterAllocs
<1>2. CASE Urcu!WriterSetsV1(w)
  <2>1. new[w] \in UrcuBlocks
    BY <1>2 DEF Urcu!WriterSetsV1, Urcu!ControlInv
  <2>2. /\ new[w] \notin pool
        /\ \A x \in Urcu!WriterIds \ {w} : new[x] # new[w]
    BY <2>1, UrcuNewApart
  <2>3. \A r \in Urcu!ReaderIds : rpc[r] = "v2" => ptr[r] \in UrcuBlocks /\ ptr[r] # new[w]
    BY DEF Urcu!ControlInv, Urcu!ReaderInv
  <2>4. \A x \in Urcu!WriterIds : wpc[x] \in {"v2", "publish"} => new[x] \in UrcuBlocks
    BY DEF Urcu!ControlInv
  <2> QED
    BY <1>2, <2>1, <2>2, <2>3, <2>4 DEF Urcu!WriterSetsV1
<1>3. CASE Urcu!WriterSetsV2(w)
  <2>1. new[w] \in UrcuBlocks
    BY <1>3 DEF Urcu!WriterSetsV2, Urcu!ControlInv
  <2>2. /\ new[w] \notin pool
        /\ \A x \in Urcu!WriterIds \ {w} : new[x] # new[w]
    BY <2>1, UrcuNewApart
  <2>3. \A r \in Urcu!ReaderIds : rpc[r] = "v2" => ptr[r] \in UrcuBlocks /\ ptr[r] # new[w]
    BY DEF Urcu!ControlInv, Urcu!ReaderInv
  <2>4. \A x \in Urcu!WriterIds : wpc[x] \in {"v2", "publish"} => new[x] \in UrcuBlocks
    BY DEF Urcu!ControlInv
  <2> QED
    BY <1>3, <2>1, <2>2, <2>3, <2>4 DEF Urcu!WriterSetsV2
<1>4. CASE Urcu!WriterFrees(w)
  <2>1. PICK b \in UrcuBlocks : b \in retire[w] /\ Urcu!FreeBlock(b)
    BY <1>4 DEF Urcu!WriterFrees
  <2>2. \A x \in Urcu!WriterIds : new[x] # b
    BY <2>1 DEF Urcu!OnePlace, Urcu!PlacedBy
  <2>3. \A r \in Urcu!ReaderIds : ptr[r] # b
    BY <1>4, <2>1, UrcuAssumptions DEF Urcu!WriterFrees, Urcu!ReaderInv
  <2>4. UNCHANGED <<v2, new, seq, rpc, ptr, val>>
    BY <1>4 DEF Urcu!WriterFrees
  <2>5. \A x \in Urcu!WriterIds : wpc'[x] \in {"v2", "publish"} => wpc'[x] = wpc[x]
    BY <1>4 DEF Urcu!WriterFrees
  <2> QED
    BY <2>1, <2>2, <2>3, <2>4, <2>5, UrcuFreedValues
<1>5. CASE \/ Urcu!WriterPublishes(w) \/ Urcu!WriterCounts(w)
           \/ Urcu!WriterCallsRcu(w) \/ Urcu!WriterRetires(w)
  BY <1>5 DEF Urcu!WriterPublishes, Urcu!WriterCounts, Urcu!WriterCallsRcu,
     Urcu!WriterRetires
<1>6. CASE \/ Urcu!WriterSyncs(w) \/ Urcu!WriterSynced(w)
           \/ Urcu!WriterLeaves(w)
  BY <1>6 DEF Urcu!WriterSyncs, Urcu!WriterSynced, Urcu!WriterLeaves
<1> QED
  BY <1>1, <1>2, <1>3, <1>4, <1>5, <1>6 DEF Urcu!WriterStep

\* ... of a reader ...
LEMMA UrcuReaderValues ==
  ASSUME Urcu!TypeOK, Urcu!ControlInv, Urcu!OnePlace, Urcu!ReaderInv,
         Urcu!ValueInv,
         NEW r \in Urcu!ReaderIds, Urcu!ReaderStep(r)
  PROVE  Urcu!ValueInv'
<1> USE DEF Urcu!TypeOK, Urcu!ValueInv, Urcu!ReaderAt, Urcu!writerVars, Urcu!rcuVars
<1>1. CASE \/ Urcu!ReaderLocks(r) \/ Urcu!ReaderDereferences(r)
           \/ Urcu!ReaderReadsV1(r) \/ Urcu!ReaderChecks(r)
  BY <1>1 DEF Urcu!ReaderLocks, Urcu!ReaderDereferences, Urcu!ReaderReadsV1,
     Urcu!ReaderChecks
<1>2. CASE \/ Urcu!ReaderUnlocks(r) \/ Urcu!ReaderLeaves(r)
  BY <1>2 DEF Urcu!ReaderUnlocks, Urcu!ReaderLeaves
<1> QED
  BY <1>1, <1>2 DEF Urcu!ReaderStep

\* ... and of the others.
LEMMA UrcuOtherValues ==
  ASSUME Urcu!TypeOK, Urcu!ControlInv, Urcu!OnePlace, Urcu!ReaderInv,
         Urcu!ValueInv,
         Urcu!RcuStep \/ Urcu!TimeIsUp \/ Urcu!MainStep
  PROVE  Urcu!ValueInv'
<1> USE DEF Urcu!TypeOK, Urcu!ValueInv, Urcu!writerVars, Urcu!readerVars, Urcu!rcuVars
<1>1. ASSUME NEW s \in Urcu!Shards, Urcu!StopFrees(s) PROVE Urcu!ValueInv'
  <2>1. PICK b \in UrcuBlocks : b = gptrs[s] /\ Urcu!FreeBlock(b)
    BY <1>1 DEF Urcu!StopFrees
  <2>2. \A x \in Urcu!WriterIds : new[x] # b
    BY <2>1, UrcuCurrentApart
  <2>3. \A r \in Urcu!ReaderIds : ptr[r] # b
    BY <1>1, <2>1, UrcuAssumptions DEF Urcu!StopFrees, Urcu!ControlInv, Urcu!AllJoined
  <2> QED
    BY <1>1, <2>1, <2>2, <2>3, UrcuFreedValues DEF Urcu!StopFrees
<1>2. CASE Urcu!CallbackFrees
  <2>1. PICK b \in UrcuBlocks : b = calling /\ Urcu!FreeBlock(b)
    BY <1>2 DEF Urcu!CallbackFrees
  <2>2. \A x \in Urcu!WriterIds : new[x] # b
    BY <2>1 DEF Urcu!OnePlace, Urcu!PlacedBy
  <2>3. \A r \in Urcu!ReaderIds : ptr[r] # b
    BY <2>1, UrcuAssumptions DEF Urcu!ReaderInv
  <2> QED
    BY <1>2, <2>1, <2>2, <2>3, UrcuFreedValues DEF Urcu!CallbackFrees
<1>3. CASE Urcu!CallbackCounts \/ Urcu!TimeIsUp \/ Urcu!Barrier
  BY <1>3 DEF Urcu!CallbackCounts, Urcu!TimeIsUp, Urcu!Barrier
<1>4. CASE Urcu!DeletePool
  BY <1>4 DEF Urcu!DeletePool
<1> QED
  BY <1>1, <1>2, <1>3, <1>4 DEF Urcu!RcuStep, Urcu!MainStep

\* pending stays exact when nothing is counted, queued or handed back.
LEMMA UrcuSamePending ==
  ASSUME Urcu!PendingIsExact, UNCHANGED <<pending, queued>>,
         \A x \in Urcu!WriterIds : wpc'[x] = "call" <=> wpc[x] = "call"
  PROVE  Urcu!PendingIsExact'
<1>1. {x \in Urcu!WriterIds : wpc[x] = "call"}' = {x \in Urcu!WriterIds : wpc[x] = "call"}
  OBVIOUS
<1> QED
  BY <1>1 DEF Urcu!PendingIsExact

\* The sets that pending counts are finite.
LEMMA UrcuCounted ==
  ASSUME Urcu!TypeOK
  PROVE  /\ IsFiniteSet(queued)
         /\ IsFiniteSet({x \in Urcu!WriterIds : wpc[x] = "call"})
<1>1. IsFiniteSet(0 .. NW - 1)
  BY UrcuAssumptions, FS_Interval
<1> QED
  BY <1>1, UrcuAssumptions, FS_Subset DEF Urcu!TypeOK, Urcu!WriterIds

\* The counters account for what is not back in the pool, after a step of a
\* writer ...
LEMMA UrcuWriterPending ==
  ASSUME Urcu!TypeOK, Urcu!ControlInv, Urcu!OnePlace,
         Urcu!PendingIsExact,
         NEW w \in Urcu!WriterIds, Urcu!WriterStep(w)
  PROVE  Urcu!PendingIsExact'
<1> USE DEF Urcu!TypeOK, Urcu!WriterAt, Urcu!readerVars, Urcu!rcuVars
<1>1. CASE Urcu!WriterCounts(w)
  <2> DEFINE C == {x \in Urcu!WriterIds : wpc[x] = "call"}
  <2>1. w \notin C /\ C' = C \cup {w} /\ queued' = queued
    BY <1>1 DEF Urcu!WriterCounts
  <2>2. /\ Cardinality(C') = Cardinality(C) + 1
        /\ Cardinality(C) \in Nat /\ Cardinality(queued) \in Nat
    <3>1. IsFiniteSet(C) /\ IsFiniteSet(queued)
      BY UrcuCounted
    <3> HIDE DEF C
    <3> QED
      BY <2>1, <3>1, FS_AddElement, FS_CardinalityType
  <2>3. pending = Cardinality(queued) + Cardinality(C)
    BY UrcuCardinality DEF Urcu!PendingIsExact
  <2>4. pending' = Cardinality(queued') + Cardinality(C')
    <3>1. pending' = pending + 1
      BY <1>1 DEF Urcu!WriterCounts
    <3> HIDE DEF C
    <3> QED
      BY <2>1, <2>2, <2>3, <3>1
  <2> QED
    BY <2>4, UrcuCardinality DEF Urcu!PendingIsExact
<1>2. CASE Urcu!WriterCallsRcu(w)
  <2> DEFINE C == {x \in Urcu!WriterIds : wpc[x] = "call"}
  <2>1. w \in C /\ C' = C \ {w}
    BY <1>2 DEF Urcu!WriterCallsRcu
  <2>2. PICK kind \in [UrcuBlocks -> Urcu!Kinds],
             at \in [UrcuBlocks -> Urcu!Shards \cup Urcu!WriterIds] :
             Urcu!PlacedBy(kind, at)
    BY DEF Urcu!OnePlace
  <2>3. old[w] \in UrcuBlocks
    BY <1>2 DEF Urcu!WriterCallsRcu, Urcu!ControlInv
  <2>4. old[w] \notin queued /\ queued' = queued \cup {old[w]}
    BY <1>2, <2>2, <2>3 DEF Urcu!WriterCallsRcu, Urcu!PlacedBy
  <2>5. /\ Cardinality(C') = Cardinality(C) - 1
        /\ Cardinality(queued') = Cardinality(queued) + 1
        /\ Cardinality(C) \in Nat /\ Cardinality(queued) \in Nat
    <3> HIDE DEF C
    <3>1. IsFiniteSet(C) /\ IsFiniteSet(queued)
      BY UrcuCounted DEF C
    <3>2. Cardinality(C') = Cardinality(C) - 1
      BY <2>1, <3>1, FS_RemoveElement
    <3>3. Cardinality(queued') = Cardinality(queued) + 1
      BY <2>4, <3>1, FS_AddElement
    <3> QED
      BY <3>1, <3>2, <3>3, FS_CardinalityType
  <2>6. pending = Cardinality(queued) + Cardinality(C)
    BY UrcuCardinality DEF Urcu!PendingIsExact
  <2>7. pending' = Cardinality(queued') + Cardinality(C')
    <3>1. pending' = pending
      BY <1>2 DEF Urcu!WriterCallsRcu
    <3> HIDE DEF C
    <3> QED
      BY <2>5, <2>6, <3>1
  <2> QED
    BY <2>7, UrcuCardinality DEF Urcu!PendingIsExact
<1>3. CASE \/ Urcu!WriterAllocs(w) \/ Urcu!WriterSetsV1(w)
           \/ Urcu!WriterSetsV2(w) \/ Urcu!WriterPublishes(w)
           \/ Urcu!WriterRetires(w) \/ Urcu!WriterSyncs(w)
           \/ Urcu!WriterSynced(w) \/ Urcu!WriterFrees(w)
           \/ Urcu!WriterLeaves(w)
  BY <1>3, UrcuSamePending DEF Urcu!WriterAllocs, Urcu!WriterSetsV1,
     Urcu!WriterSetsV2, Urcu!WriterPublishes, Urcu!WriterRetires,
     Urcu!WriterSyncs, Urcu!WriterSynced, Urcu!WriterFrees, Urcu!WriterLeaves
<1> QED
  BY <1>1, <1>2, <1>3 DEF Urcu!WriterStep

\* ... of a reader ...
LEMMA UrcuReaderPending ==
  ASSUME Urcu!TypeOK, Urcu!ControlInv, Urcu!OnePlace,
         Urcu!PendingIsExact,
         NEW r \in Urcu!ReaderIds, Urcu!ReaderStep(r)
  PROVE  Urcu!PendingIsExact'
<1> USE DEF Urcu!TypeOK, Urcu!ReaderAt, Urcu!writerVars, Urcu!rcuVars
<1>1. CASE \/ Urcu!ReaderLocks(r) \/ Urcu!ReaderDereferences(r)
           \/ Urcu!ReaderReadsV1(r) \/ Urcu!ReaderChecks(r)
           \/ Urcu!ReaderUnlocks(r) \/ Urcu!ReaderLeaves(r)
  BY <1>1, UrcuSamePending DEF Urcu!ReaderLocks, Urcu!ReaderDereferences,
     Urcu!ReaderReadsV1, Urcu!ReaderChecks, Urcu!ReaderUnlocks,
     Urcu!ReaderLeaves
<1> QED
  BY <1>1 DEF Urcu!ReaderStep

\* ... and of the others.
LEMMA UrcuOtherPending ==
  ASSUME Urcu!TypeOK, Urcu!ControlInv, Urcu!OnePlace,
         Urcu!PendingIsExact,
         Urcu!RcuStep \/ Urcu!TimeIsUp \/ Urcu!MainStep
  PROVE  Urcu!PendingIsExact'
<1> USE DEF Urcu!TypeOK, Urcu!writerVars, Urcu!readerVars, Urcu!rcuVars
<1>1. CASE Urcu!CallbackCounts
  <2> DEFINE C == {x \in Urcu!WriterIds : wpc[x] = "call"}
  <2>1. PICK b \in queued : queued' = queued \ {b}
    BY <1>1 DEF Urcu!CallbackCounts
  <2>2. C' = C
    BY <1>1 DEF Urcu!CallbackCounts
  <2>3. /\ Cardinality(queued') = Cardinality(queued) - 1
        /\ Cardinality(C) \in Nat /\ Cardinality(queued) \in Nat
    BY <2>1, UrcuCounted, FS_RemoveElement, FS_CardinalityType
  <2>4. pending = Cardinality(queued) + Cardinality(C)
    BY UrcuCardinality DEF Urcu!PendingIsExact
  <2>5. pending' = Cardinality(queued') + Cardinality(C')
    <3>1. pending' = pending - 1
      BY <1>1 DEF Urcu!CallbackCounts
    <3> HIDE DEF C
    <3> QED
      BY <2>2, <2>3, <2>4, <3>1
  <2> QED
    BY <2>5, UrcuCardinality DEF Urcu!PendingIsExact
<1>2. ASSUME NEW s \in Urcu!Shards, Urcu!StopFrees(s) PROVE Urcu!PendingIsExact'
  BY <1>2, UrcuSamePending DEF Urcu!StopFrees
<1>3. CASE \/ Urcu!CallbackFrees \/ Urcu!TimeIsUp \/ Urcu!Barrier
           \/ Urcu!DeletePool
  BY <1>3, UrcuSamePending DEF Urcu!CallbackFrees, Urcu!TimeIsUp,
     Urcu!Barrier, Urcu!DeletePool
<1> QED
  BY <1>1, <1>2, <1>3 DEF Urcu!RcuStep, Urcu!MainStep

\* UrcuInv is inductive.
LEMMA UrcuStep ==
  Urcu!UrcuInv /\ (Urcu!Next \/ UNCHANGED Urcu!vars) => Urcu!UrcuInv'
<1> SUFFICES ASSUME Urcu!UrcuInv, Urcu!Next \/ UNCHANGED Urcu!vars
             PROVE  Urcu!UrcuInv'
  OBVIOUS
<1> USE DEF Urcu!UrcuInv
<1>1. ASSUME NEW w \in Urcu!WriterIds, Urcu!WriterStep(w) PROVE Urcu!UrcuInv'
  BY <1>1, UrcuWriterType, UrcuWriterControl, UrcuWriterPlaces, UrcuWriterReaders,
     UrcuWriterValues, UrcuWriterPending
<1>2. ASSUME NEW r \in Urcu!ReaderIds, Urcu!ReaderStep(r) PROVE Urcu!UrcuInv'
  BY <1>2, UrcuReaderType, UrcuReaderControl, UrcuReaderPlaces, UrcuReaderReaders,
     UrcuReaderValues, UrcuReaderPending
<1>3. CASE Urcu!RcuStep \/ Urcu!TimeIsUp \/ Urcu!MainStep
  BY <1>3, UrcuOtherType, UrcuOtherControl, UrcuOtherPlaces, UrcuOtherReaders,
     UrcuOtherValues, UrcuOtherPending
<1>4. CASE UNCHANGED Urcu!vars
  <2> USE <1>4 DEF Urcu!vars, Urcu!writerVars, Urcu!readerVars, Urcu!rcuVars
  <2>1. Urcu!TypeOK'
    BY DEF Urcu!TypeOK
  <2>2. Urcu!ControlInv'
    BY DEF Urcu!ControlInv, Urcu!AllJoined
  <2>3. Urcu!OnePlace'
    BY UrcuSamePlaces
  <2>4. Urcu!ReaderInv'
    BY DEF Urcu!ReaderInv
  <2>5. Urcu!ValueInv'
    BY DEF Urcu!ValueInv
  <2>6. Urcu!PendingIsExact'
    BY UrcuSamePending
  <2> QED
    BY <2>1, <2>2, <2>3, <2>4, <2>5, <2>6
<1> QED
  BY <1>1, <1>2, <1>3, <1>4 DEF Urcu!Next

\* What the invariant says of readers, of the counter and of the end.
LEMMA UrcuConsequences ==
  ASSUME Urcu!UrcuInv
  PROVE  /\ Urcu!NoMismatch /\ Urcu!DereferencedIsLive
         /\ Urcu!PendingIsExact /\ Urcu!StopFreesEverything
<1> USE DEF Urcu!UrcuInv
<1>1. Urcu!NoMismatch
  BY DEF Urcu!NoMismatch, Urcu!TypeOK
<1>2. Urcu!DereferencedIsLive
  BY UrcuAssumptions DEF Urcu!DereferencedIsLive, Urcu!ReaderInv, Urcu!TypeOK
<1>3. Urcu!StopFreesEverything
  <2> SUFFICES ASSUME Urcu!Ended PROVE pool = UrcuBlocks /\ calling = NULL
    BY DEF Urcu!StopFreesEverything
  <2>1. /\ \A w \in Urcu!WriterIds : new[w] = NULL /\ old[w] = NULL /\ retire[w] = {}
        /\ \A s \in Urcu!Shards : gptrs[s] = NULL
        /\ queued = {} /\ calling = NULL
    BY DEF Urcu!Ended, Urcu!ControlInv, Urcu!AllJoined
  <2>2. PICK kind \in [UrcuBlocks -> Urcu!Kinds],
             at \in [UrcuBlocks -> Urcu!Shards \cup Urcu!WriterIds] :
             Urcu!PlacedBy(kind, at)
    BY DEF Urcu!OnePlace
  <2>3. ASSUME NEW b \in UrcuBlocks PROVE b \in pool
    <3>1. b # NULL
      BY UrcuAssumptions
    <3>2. kind[b] \notin {"queue", "callback", "shard", "new", "old", "retire"}
      BY <2>1, <2>2, <3>1 DEF Urcu!PlacedBy
    <3>3. kind[b] = "pool"
      BY <3>2 DEF Urcu!Kinds
    <3> QED
      BY <2>2, <3>3 DEF Urcu!PlacedBy
  <2> QED
    BY <2>1, <2>3 DEF Urcu!TypeOK
<1> QED
  BY <1>1, <1>2, <1>3

-----------------------------------------------------------------------------
(***************************************************************************)
(* The two backends in the benchmark.                                      *)
(***************************************************************************)
BackendsInv ==
  /\ part = "atomsnap" => BackendInv
  /\ part = "urcu" => Urcu!UrcuInv

\* The inductive invariants hold at the start of their parts.
LEMMA BackendsInit == BenchInit => BackendsInv
  BY BackendStarts, UrcuInit DEF BenchInit, BackendsInv

\* A step of the benchmark is one of the part that runs.
LEMMA BackendsStep == BackendsInv /\ [BenchNext]_allVars => BackendsInv'
<1> SUFFICES ASSUME BackendsInv, [BenchNext]_allVars PROVE BackendsInv'
  OBVIOUS
<1> USE DEF BackendsInv
<1>1. CASE \/ \E t \in Threads : AtomThread(t)
           \/ AtomTimer \/ AtomStop
  <2>1. part = "atomsnap" /\ part' = part /\ BackendNext
    BY <1>1 DEF AtomThread, AtomTimer, AtomStop, AtomFrame, BackendNext
  <2> QED
    BY <2>1, BackendStep
<1>2. CASE \/ \E w \in Urcu!WriterIds : UrcuWriter(w)
           \/ \E r \in Urcu!ReaderIds : UrcuReader(r)
           \/ UrcuCallback \/ UrcuTimer \/ UrcuMain
  <2>1. part = "urcu" /\ part' = part /\ Urcu!Next
    BY <1>2 DEF UrcuWriter, UrcuReader, UrcuCallback, UrcuTimer, UrcuMain, UrcuFrame,
                Urcu!Next
  <2> QED
    BY <2>1, UrcuStep
<1>3. CASE ListStep \/ StatsStep
  BY <1>3 DEF ListStep, StatsStep
<1>4. CASE UNCHANGED allVars
  <2>1. part' = part
    BY <1>4 DEF allVars
  <2>2. UNCHANGED backendVars
    BY <1>4 DEF allVars, atomVars, backendVars, vars, poolVars, counterVars
  <2>3. UNCHANGED Urcu!vars
    BY <1>4 DEF allVars, urcuVars, Urcu!vars, Urcu!writerVars, Urcu!readerVars, Urcu!rcuVars
  <2> QED
    BY <2>1, <2>2, <2>3, BackendStep, UrcuStep
<1> QED
  BY <1>1, <1>2, <1>3, <1>4 DEF BenchNext

\* The inductive invariants of the backends always hold.
LEMMA BackendsAlways == BenchSpec => []BackendsInv
  BY BackendsInit, BackendsStep, PTL DEF BenchSpec

(***************************************************************************)
(* No reader of either backend reaches its abort(): the object it looks at *)
(* is not given back to the pool and filled again while it looks, be it a  *)
(* version that it has acquired or a pointer it has dereferenced.          *)
(***************************************************************************)
THEOREM ReadersSeeNoMismatch == BenchSpec => []NoMismatch
<1>1. BackendsInv => NoMismatch
  BY BackendConsequences, UrcuConsequences DEF BackendsInv, NoMismatch
<1> QED
  BY <1>1, BackendsAlways, PTL

(***************************************************************************)
(* atomsnap_free_cb gives each block back exactly once: at any time a      *)
(* block is the pool's, one writer's or the object of one version in use.  *)
(***************************************************************************)
THEOREM OneOwnerPerBlock == BenchSpec => []BlockHasOneOwner
<1>1. BackendsInv => BlockHasOneOwner
  BY BackendConsequences DEF BackendsInv, BlockHasOneOwner
<1> QED
  BY <1>1, BackendsAlways, PTL

(***************************************************************************)
(* What finalize() reports as pending is right: nothing replaced is left   *)
(* when the threads of the atomsnap backend are joined, the liburcu        *)
(* backend counts the callbacks not run, and its stop() finds every block  *)
(* returned.                                                               *)
(***************************************************************************)
THEOREM ReportedPendingIsRight == BenchSpec => []PendingIsRight
<1>1. BackendsInv => PendingIsRight
  BY BackendConsequences, UrcuConsequences DEF BackendsInv, PendingIsRight
<1> QED
  BY <1>1, BackendsAlways, PTL
=============================================================================
