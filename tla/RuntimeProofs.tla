---------------------------- MODULE RuntimeProofs ---------------------------
(***************************************************************************)
(* Proofs about what the library builds on: the registry of threads        *)
(* (Registry), for any number of threads and of ids, and the memory under  *)
(* the arenas (ArenaPages), for any number of slots and any page size.     *)
(***************************************************************************)
EXTENDS Registry, ArenaPages, FiniteSetTheorems, TLAPS

\* The provers, in the order in which they try each step.
USE SMT, Zenon, SMTT(60)

(***************************************************************************)
(* global_init_routine establishes the invariant.                          *)
(***************************************************************************)
LEMMA InitInv == Init => RegistryInv
<1> SUFFICES ASSUME Init PROVE RegistryInv
  OBVIOUS
<1> USE RegistryAssumption DEF Init, Tids, Has
<1>1. TypeOK
  BY DEF TypeOK
<1>2. CallState /\ LeakedIsNobodys
  BY DEF CallState, LeakedIsNobodys
<1>3. ContextExclusive /\ UsedIffHad
  BY DEF ContextExclusive, UsedIffHad
<1> QED
  BY <1>1, <1>2, <1>3 DEF RegistryInv

(***************************************************************************)
(* Steps that leave the ids, the contexts had and the leaks as they are:   *)
(* the scan, the refusal and the calls that find their context.            *)
(***************************************************************************)
LEMMA NoIdChangesInv ==
  ASSUME RegistryInv, NEW t \in Threads,
         \/ UseContext(t) \/ Return(t) \/ InitThread(t) \/ ScanUsed(t)
         \/ ScanFree(t) \/ RegistryFull(t) \/ Refused(t)
  PROVE  RegistryInv'
<1> USE RegistryAssumption DEF RegistryInv, Tids, Goto, UseContext, Return,
        InitThread, ScanUsed, ScanFree, RegistryFull, Refused
<1>1. TypeOK'
  <2>1. i' \in [Threads -> 0 .. MaxThreads]
    BY DEF TypeOK
  <2>2. pc' \in [Threads -> {"outside", "using", "scan", "claim", "refused",
                             "adopt", "destroy"}]
    BY Zenon DEF TypeOK
  <2>3. UNCHANGED <<used, exists, tls, leaked>>
    OBVIOUS
  <2> QED
    BY <2>1, <2>2, <2>3 DEF TypeOK
<1>2. CallState'
  BY DEF TypeOK, CallState
<1>3. \A u \in Threads, k \in Tids : Has(u, k)' <=> Has(u, k)
  BY DEF TypeOK, Has
<1>4. used' = used /\ leaked' = leaked
  OBVIOUS
<1>5. leaked \subseteq Tids
  BY DEF TypeOK
<1> QED
  BY <1>1, <1>2, <1>3, <1>4, <1>5 DEF ContextExclusive, UsedIffHad, LeakedIsNobodys

(***************************************************************************)
(* The claim of an id: the CAS finds it free, so nobody has it.            *)
(***************************************************************************)
LEMMA ClaimTidInv ==
  ASSUME RegistryInv, NEW t \in Threads, ClaimTid(t)
  PROVE  RegistryInv'
<1> USE RegistryAssumption DEF RegistryInv, Tids, Goto
<1>0. i[t] \in Tids /\ tls[t] = NULL /\ pc[t] = "claim"
  BY DEF ClaimTid, CallState
<1>1. CASE used[i[t]]
  <2>1. /\ i' = [i EXCEPT ![t] = i[t] + 1] /\ pc' = [pc EXCEPT ![t] = "scan"]
        /\ UNCHANGED <<used, exists, tls, leaked>>
    BY <1>1 DEF ClaimTid
  <2>2. TypeOK'
    BY <1>0, <2>1 DEF TypeOK
  <2>3. CallState'
    BY <1>0, <2>1 DEF TypeOK, CallState
  <2>4. \A u \in Threads, k \in Tids : Has(u, k)' <=> Has(u, k)
    BY <1>0, <2>1 DEF TypeOK, Has
  <2> QED
    BY <2>1, <2>2, <2>3, <2>4 DEF TypeOK, ContextExclusive, UsedIffHad, LeakedIsNobodys
<1>2. CASE ~used[i[t]]
  <2>1. /\ used' = [used EXCEPT ![i[t]] = TRUE]
        /\ pc' = [pc EXCEPT ![t] = "adopt"]
        /\ UNCHANGED <<exists, tls, i, leaked>>
    BY <1>2 DEF ClaimTid
  <2>2. TypeOK'
    BY <1>0, <2>1 DEF TypeOK
  <2>3. CallState'
    BY <1>0, <2>1 DEF TypeOK, CallState
  <2>4. i[t] \notin leaked /\ \A u \in Threads : ~Has(u, i[t])
    BY <1>0, <1>2 DEF UsedIffHad
  <2>5. \A u \in Threads, k \in Tids :
          Has(u, k)' <=> Has(u, k) \/ (u = t /\ k = i[t])
    BY <1>0, <2>1 DEF TypeOK, Has
  <2>6. \A k \in Tids : used'[k] <=> used[k] \/ k = i[t]
    BY <1>0, <2>1 DEF TypeOK
  <2>7. ContextExclusive'
    BY <2>4, <2>5 DEF ContextExclusive
  <2>8. UsedIffHad'
    BY <1>0, <2>1, <2>5, <2>6 DEF UsedIffHad
  <2>9. LeakedIsNobodys'
    BY <2>1, <2>4, <2>5 DEF TypeOK, LeakedIsNobodys
  <2> QED
    BY <2>2, <2>3, <2>7, <2>8, <2>9
<1> QED
  BY <1>1, <1>2

(***************************************************************************)
(* The context moves from the claim to the TLS, and from the TLS to the    *)
(* destructor: the thread has it all the time.                             *)
(***************************************************************************)
LEMMA HandOverInv ==
  ASSUME RegistryInv, NEW t \in Threads, Adopt(t) \/ ThreadExits(t)
  PROVE  RegistryInv'
<1> USE RegistryAssumption DEF RegistryInv, Tids, Goto, Adopt, ThreadExits
<1>0. pc[t] = "adopt" => i[t] \in Tids /\ tls[t] = NULL
  BY DEF CallState
<1>1. tls[t] # NULL => tls[t] \in Tids
  BY DEF TypeOK
<1>2. used' = used /\ leaked' = leaked
  OBVIOUS
<1>3. TypeOK'
  <2>1. CASE Adopt(t)
    BY <2>1, <1>0 DEF TypeOK
  <2>2. CASE ThreadExits(t)
    BY <2>2, <1>1 DEF TypeOK
  <2> QED
    BY <2>1, <2>2
<1>4. CallState'
  BY <1>0, <1>1 DEF TypeOK, CallState
<1>5. \A u \in Threads, k \in Tids : Has(u, k)' <=> Has(u, k)
  BY <1>0, <1>1 DEF TypeOK, Has
<1> QED
  BY <1>2, <1>3, <1>4, <1>5 DEF TypeOK, ContextExclusive, UsedIffHad, LeakedIsNobodys

(***************************************************************************)
(* The id is given back, by the destructor or after a failed calloc: its   *)
(* thread was the only one to have it.                                     *)
(***************************************************************************)
LEMMA GiveBackInv ==
  ASSUME RegistryInv, NEW t \in Threads, ContextFails(t) \/ ReleaseTid(t)
  PROVE  RegistryInv'
<1> USE RegistryAssumption DEF RegistryInv, Tids, Goto
<1>0. /\ pc[t] \in {"adopt", "destroy"}
      /\ used' = [used EXCEPT ![i[t]] = FALSE]
      /\ pc' = [pc EXCEPT ![t] = "outside"]
      /\ UNCHANGED <<exists, tls, i, leaked>>
  BY DEF ContextFails, ReleaseTid
<1>1. i[t] \in Tids /\ tls[t] = NULL
  BY <1>0 DEF CallState
<1>2. TypeOK'
  BY <1>0, <1>1 DEF TypeOK
<1>3. CallState'
  BY <1>0, <1>1 DEF TypeOK, CallState
<1>4. Has(t, i[t]) /\ \A k \in Tids : Has(t, k) => k = i[t]
  BY <1>0, <1>1 DEF Has
<1>5. \A u \in Threads, k \in Tids : Has(u, k)' <=> Has(u, k) /\ u # t
  BY <1>0, <1>1 DEF TypeOK, Has
<1>6. \A k \in Tids : used'[k] <=> used[k] /\ k # i[t]
  BY <1>0, <1>1 DEF TypeOK
<1>7. ContextExclusive'
  BY <1>5 DEF ContextExclusive
<1>8. LeakedIsNobodys'
  BY <1>0, <1>5 DEF TypeOK, LeakedIsNobodys
<1>9. i[t] \notin leaked
  BY <1>4 DEF LeakedIsNobodys
<1>10. UsedIffHad'
  BY <1>0, <1>1, <1>4, <1>5, <1>6, <1>9 DEF UsedIffHad, ContextExclusive
<1> QED
  BY <1>2, <1>3, <1>7, <1>8, <1>10

(***************************************************************************)
(* A failed pthread_setspecific: the id goes from its thread to the leaks. *)
(***************************************************************************)
LEMMA SetSpecificFailsInv ==
  ASSUME RegistryInv, NEW t \in Threads, SetSpecificFails(t)
  PROVE  RegistryInv'
<1> USE RegistryAssumption DEF RegistryInv, Tids, Goto
<1>0. /\ pc[t] = "adopt"
      /\ exists' = [exists EXCEPT ![i[t]] = TRUE]
      /\ leaked' = leaked \cup {i[t]}
      /\ pc' = [pc EXCEPT ![t] = "outside"]
      /\ UNCHANGED <<used, tls, i>>
  BY DEF SetSpecificFails
<1>1. i[t] \in Tids /\ tls[t] = NULL
  BY <1>0 DEF CallState
<1>2. TypeOK'
  BY <1>0, <1>1, Zenon DEF TypeOK
<1>3. CallState'
  BY <1>0, <1>1 DEF TypeOK, CallState
<1>4. Has(t, i[t]) /\ \A k \in Tids : Has(t, k) => k = i[t]
  BY <1>0, <1>1 DEF Has
<1>5. \A u \in Threads, k \in Tids : Has(u, k)' <=> Has(u, k) /\ u # t
  BY <1>0, <1>1 DEF TypeOK, Has
<1>6. ContextExclusive'
  BY <1>5 DEF ContextExclusive
<1>7. LeakedIsNobodys'
  BY <1>0, <1>1, <1>4, <1>5 DEF TypeOK, LeakedIsNobodys, ContextExclusive
<1>8. UsedIffHad'
  BY <1>0, <1>1, <1>4, <1>5 DEF UsedIffHad
<1> QED
  BY <1>2, <1>3, <1>6, <1>7, <1>8

(***************************************************************************)
(* The invariant of the registry.                                          *)
(***************************************************************************)
THEOREM RegistryInvariant == Spec => []RegistryInv
<1>1. RegistryInv /\ [Next]_vars => RegistryInv'
  <2> SUFFICES ASSUME RegistryInv, [Next]_vars PROVE RegistryInv'
    OBVIOUS
  <2>1. CASE Next
    <3>1. PICK t \in Threads :
            UseContext(t) \/ InitThread(t) \/ ThreadExits(t) \/ Step(t)
      BY <2>1 DEF Next
    <3> QED
      BY <3>1, NoIdChangesInv, ClaimTidInv, HandOverInv, GiveBackInv,
         SetSpecificFailsInv DEF Step
  <2>2. CASE UNCHANGED vars
    BY <2>2 DEF vars, RegistryInv, TypeOK, CallState, ContextExclusive,
       UsedIffHad, LeakedIsNobodys, Has
  <2> QED
    BY <2>1, <2>2
<1> QED
  BY InitInv, <1>1, PTL DEF Spec

(***************************************************************************)
(* A thread context has one thread at a time, however many threads start,  *)
(* fail to start and exit: the claim's CAS and the late return of the id   *)
(* in tls_destructor suffice.                                              *)
(***************************************************************************)
THEOREM RegistryExclusive == Spec => []ContextExclusive
<1>1. RegistryInv => ContextExclusive
  BY DEF RegistryInv
<1> QED
  BY RegistryInvariant, <1>1, PTL

(***************************************************************************)
(* An id that is marked used has a thread, or was left claimed by a failed *)
(* pthread_setspecific.                                                    *)
(***************************************************************************)
THEOREM RegistryLosesNoId == Spec => []UsedIffHad
<1>1. RegistryInv => UsedIffHad
  BY DEF RegistryInv
<1> QED
  BY RegistryInvariant, <1>1, PTL

(***************************************************************************)
(* Types of the registry.                                                  *)
(***************************************************************************)
THEOREM RegistryTypeCorrect == Spec => []TypeOK
<1>1. RegistryInv => TypeOK
  BY DEF RegistryInv
<1> QED
  BY RegistryInvariant, <1>1, PTL

-----------------------------------------------------------------------------
(* Nobody is refused while there is room: the sets that ScanCount counts   *)
(* are finite.                                                             *)
LEMMA CountedSets ==
  ASSUME TypeOK, NEW k \in 0 .. MaxThreads
  PROVE  /\ IsFiniteSet(leaked) /\ Cardinality(leaked) \in Nat
         /\ IsFiniteSet(Threads) /\ Cardinality(Threads) \in Nat
         /\ IsFiniteSet(Beyond(k)) /\ Cardinality(Beyond(k)) \in Nat
         /\ Cardinality(Beyond(k)) <= Cardinality(Threads)
         /\ IsFiniteSet(LeakedFrom(k)) /\ Cardinality(LeakedFrom(k)) \in Nat
         /\ Cardinality(LeakedFrom(k)) <= Cardinality(leaked)
<1>1. IsFiniteSet(Tids)
  BY RegistryAssumption, FS_Interval DEF Tids
<1>2. IsFiniteSet(leaked)
  BY <1>1, FS_Subset DEF TypeOK
<1>3. Beyond(k) \in SUBSET Threads /\ LeakedFrom(k) \in SUBSET leaked
  BY DEF Beyond, LeakedFrom
<1> QED
  BY <1>2, <1>3, ThreadsAssumption, FS_Subset, FS_CardinalityType

(***************************************************************************)
(* A step that moves nobody forward and leaks nothing keeps the count.     *)
(***************************************************************************)
LEMMA FewerBeyond ==
  ASSUME TypeOK, TypeOK', leaked' = leaked, NEW k \in 0 .. MaxThreads,
         Beyond(k)' \subseteq Beyond(k),
         Beyond(k) # {} =>
           Cardinality(Beyond(k)) + Cardinality(LeakedFrom(k)) + k
             <= Cardinality(Threads) + Cardinality(leaked)
  PROVE  Beyond(k)' # {} =>
           Cardinality(Beyond(k)') + Cardinality(LeakedFrom(k)') + k
             <= Cardinality(Threads) + Cardinality(leaked')
<1> DEFINE B == Beyond(k)  C == Beyond(k)'
<1>1. LeakedFrom(k)' = LeakedFrom(k)
  BY DEF LeakedFrom
<1>2. IsFiniteSet(B) /\ C \in SUBSET B
  BY CountedSets
<1>3. IsFiniteSet(C) /\ Cardinality(C) <= Cardinality(B)
  BY <1>2, FS_Subset
<1>4. Cardinality(C) \in Nat
  BY <1>3, FS_CardinalityType
<1> HIDE DEF B, C
<1>5. C # {} => B # {}
  BY <1>2
<1> QED
  BY <1>1, <1>3, <1>4, <1>5, CountedSets DEF B, C

\* A thread that goes beyond no further id leaves the counts as they are, or
\* lower.
LEMMA StaysBehind ==
  ASSUME RegistryInv, RegistryInv', ScanCount, RefusedAtEnd, NEW t \in Threads,
         \/ UseContext(t) \/ Return(t) \/ ScanFree(t) \/ RegistryFull(t)
         \/ Refused(t) \/ Adopt(t) \/ ThreadExits(t) \/ ContextFails(t)
         \/ ReleaseTid(t)
  PROVE  ScanCount' /\ RefusedAtEnd'
<1> USE RegistryAssumption
<1>1. TypeOK /\ TypeOK' /\ leaked' = leaked
  BY DEF RegistryInv, UseContext, Return, ScanFree, RegistryFull, Refused,
     Adopt, ThreadExits, ContextFails, ReleaseTid
<1>2. ASSUME NEW k \in 0 .. MaxThreads
      PROVE  Beyond(k)' \subseteq Beyond(k)
  BY DEF Beyond, InScan, RegistryInv, CallState, TypeOK, Tids, Goto, UseContext,
     Return, ScanFree, RegistryFull, Refused, Adopt, ThreadExits, ContextFails,
     ReleaseTid
<1>3. RefusedAtEnd'
  BY DEF RefusedAtEnd, RegistryInv, CallState, TypeOK, Tids, Goto, UseContext,
     Return, ScanFree, RegistryFull, Refused, Adopt, ThreadExits, ContextFails,
     ReleaseTid
<1> QED
  BY <1>1, <1>2, <1>3, FewerBeyond DEF ScanCount

(***************************************************************************)
(* A thread begins its scan at id 0, where the count says nothing.         *)
(***************************************************************************)
LEMMA BeginsScan ==
  ASSUME RegistryInv, RegistryInv', ScanCount, RefusedAtEnd, NEW t \in Threads,
         InitThread(t)
  PROVE  ScanCount' /\ RefusedAtEnd'
<1> USE RegistryAssumption
<1>1. TypeOK /\ TypeOK' /\ leaked' = leaked
  BY DEF RegistryInv, InitThread
<1>2. ASSUME NEW k \in 0 .. MaxThreads, k # 0
      PROVE  Beyond(k)' \subseteq Beyond(k)
  BY <1>2 DEF Beyond, InScan, RegistryInv, TypeOK, Tids, Goto, InitThread
<1>4. ASSUME NEW k \in 0 .. MaxThreads, k = 0
      PROVE  Cardinality(Beyond(k)') + Cardinality(LeakedFrom(k)') + k
               <= Cardinality(Threads) + Cardinality(leaked')
  <2>1. LeakedFrom(k)' = LeakedFrom(k)
    BY <1>1 DEF LeakedFrom
  <2>2. Beyond(k)' \in SUBSET Threads
    BY DEF Beyond
  <2>3. IsFiniteSet(Beyond(k)') /\ Cardinality(Beyond(k)') <= Cardinality(Threads)
    BY <2>2, ThreadsAssumption, FS_Subset
  <2>4. Cardinality(Beyond(k)') \in Nat
    BY <2>3, FS_CardinalityType
  <2> QED
    BY <1>1, <1>4, <2>1, <2>3, <2>4, CountedSets
<1>5. RefusedAtEnd'
  BY DEF RefusedAtEnd, RegistryInv, TypeOK, Goto, InitThread
<1> QED
  BY <1>1, <1>2, <1>4, <1>5, FewerBeyond DEF ScanCount

(***************************************************************************)
(* A thread passes an id, in the scan or after a lost race: the id is used *)
(* by a thread or a leak, which counts up to that id and not beyond it.    *)
(***************************************************************************)
LEMMA PassesId ==
  ASSUME RegistryInv, RegistryInv', ScanCount, RefusedAtEnd, NEW t \in Threads,
         \/ ScanUsed(t)
         \/ ClaimTid(t) /\ used[i[t]]
  PROVE  ScanCount' /\ RefusedAtEnd'
<1> USE RegistryAssumption
<1>0. PICK n \in Tids : n = i[t]
  BY DEF RegistryInv, CallState, TypeOK, ScanUsed, ClaimTid, Tids
<1>1. /\ TypeOK /\ TypeOK' /\ leaked' = leaked /\ tls' = tls /\ i[t] = n
      /\ i' = [i EXCEPT ![t] = n + 1] /\ pc' = [pc EXCEPT ![t] = "scan"]
      /\ n \in Tids /\ used[n] /\ tls[t] = NULL /\ pc[t] \in {"scan", "claim"}
  BY <1>0 DEF RegistryInv, CallState, TypeOK, ScanUsed, ClaimTid, Goto, Tids
<1>2. n \in 0 .. MaxThreads /\ n + 1 \in 0 .. MaxThreads
  BY <1>1 DEF Tids
<1>3. ASSUME NEW k \in 0 .. MaxThreads, k # n + 1
      PROVE  Beyond(k)' \subseteq Beyond(k)
  BY <1>1, <1>3 DEF Beyond, InScan, TypeOK, Tids
<1>4. Beyond(n + 1)' \subseteq Beyond(n) /\ t \in Beyond(n)
  BY <1>1 DEF Beyond, InScan, TypeOK, Tids
<1>5. LeakedFrom(n + 1)' \subseteq LeakedFrom(n)
  <2>1. \A l \in leaked : l \in Int /\ (l >= n + 1 => l >= n)
    BY <1>1 DEF TypeOK, Tids
  <2> QED
    BY <1>1, <2>1 DEF LeakedFrom
<1>6. \/ \E u \in Threads : u \in Beyond(n) /\ u \notin Beyond(n + 1)'
      \/ n \in LeakedFrom(n) /\ n \notin LeakedFrom(n + 1)'
  <2>1. CASE n \in leaked
    BY <1>1, <2>1 DEF LeakedFrom, Tids
  <2>2. CASE \E u \in Threads : Has(u, n)
    <3>1. PICK u \in Threads : Has(u, n)
      BY <2>2
    <3>2. u # t
      BY <1>1, <3>1 DEF Has, Tids
    <3>3. u \in Beyond(n)
      BY <1>1, <3>1 DEF Has, Beyond, InScan, Tids
    <3>4. u \notin Beyond(n + 1)'
      BY <1>1, <3>1, <3>2 DEF Has, Beyond, InScan, Tids, TypeOK, RegistryInv,
         CallState
    <3> QED
      BY <3>3, <3>4
  <2> QED
    BY <1>1, <2>1, <2>2 DEF RegistryInv, UsedIffHad
<1>7. Cardinality(Beyond(n + 1)') + Cardinality(LeakedFrom(n + 1)') + (n + 1)
        <= Cardinality(Threads) + Cardinality(leaked')
  <2> DEFINE B == Beyond(n)  C == Beyond(n + 1)'
             L == LeakedFrom(n)  K == LeakedFrom(n + 1)'
  <2>1. /\ IsFiniteSet(B) /\ Cardinality(B) \in Nat
        /\ IsFiniteSet(L) /\ Cardinality(L) \in Nat
        /\ Cardinality(Threads) \in Nat /\ Cardinality(leaked) \in Nat
    BY <1>1, <1>2, CountedSets
  <2>2. C \in SUBSET B /\ K \in SUBSET L /\ (C # B \/ K # L)
    BY <1>4, <1>5, <1>6
  <2>3. B # {}
    BY <1>4
  <2>4. Cardinality(B) + Cardinality(L) + n
          <= Cardinality(Threads) + Cardinality(leaked)
    BY <1>2, <2>3 DEF ScanCount
  <2> HIDE DEF B, C, L, K
  <2>5. /\ IsFiniteSet(C) /\ Cardinality(C) <= Cardinality(B)
        /\ Cardinality(B) = Cardinality(C) => B = C
    BY <2>1, <2>2, FS_Subset
  <2>6. /\ IsFiniteSet(K) /\ Cardinality(K) <= Cardinality(L)
        /\ Cardinality(L) = Cardinality(K) => L = K
    BY <2>1, <2>2, FS_Subset
  <2>7. Cardinality(C) \in Nat /\ Cardinality(K) \in Nat
    BY <2>5, <2>6, FS_CardinalityType
  <2>8. Cardinality(C) + Cardinality(K) < Cardinality(B) + Cardinality(L)
    BY <2>1, <2>2, <2>5, <2>6, <2>7
  <2> QED
    BY <1>1, <1>2, <2>1, <2>4, <2>7, <2>8 DEF B, C, L, K
<1>8. RefusedAtEnd'
  BY <1>1 DEF RefusedAtEnd, TypeOK
<1>9. ASSUME NEW k \in 0 .. MaxThreads, Beyond(k)' # {}
      PROVE  Cardinality(Beyond(k)') + Cardinality(LeakedFrom(k)') + k
               <= Cardinality(Threads) + Cardinality(leaked')
  <2>1. CASE k = n + 1
    BY <1>7, <2>1
  <2>2. CASE k # n + 1
    BY <1>1, <1>3, <1>9, <2>2, FewerBeyond DEF ScanCount
  <2> QED
    BY <2>1, <2>2
<1> QED
  BY <1>8, <1>9 DEF ScanCount

(***************************************************************************)
(* A failed pthread_setspecific: a leak takes the place of the thread.     *)
(***************************************************************************)
LEMMA LeaksId ==
  ASSUME RegistryInv, RegistryInv', ScanCount, RefusedAtEnd, NEW t \in Threads,
         SetSpecificFails(t)
  PROVE  ScanCount' /\ RefusedAtEnd'
<1> USE RegistryAssumption
<1>0. PICK n \in Tids : n = i[t]
  BY DEF RegistryInv, CallState, SetSpecificFails
<1>1. /\ TypeOK /\ TypeOK' /\ leaked' = leaked \cup {n} /\ tls' = tls /\ i' = i
      /\ pc' = [pc EXCEPT ![t] = "outside"] /\ n \in Tids /\ tls[t] = NULL
      /\ pc[t] = "adopt" /\ n \notin leaked
  BY <1>0 DEF RegistryInv, CallState, TypeOK, SetSpecificFails, Goto, LeakedIsNobodys, Has
<1>2. RefusedAtEnd'
  BY <1>1 DEF RefusedAtEnd, TypeOK
<1>3. Cardinality(leaked') = Cardinality(leaked) + 1
  <2>1. 0 \in 0 .. MaxThreads
    OBVIOUS
  <2>2. IsFiniteSet(leaked)
    BY <1>1, <2>1, CountedSets
  <2> QED
    BY <1>1, <2>2, FS_AddElement
<1>4. ASSUME NEW k \in 0 .. MaxThreads, Beyond(k)' # {}
      PROVE  Cardinality(Beyond(k)') + Cardinality(LeakedFrom(k)') + k
               <= Cardinality(Threads) + Cardinality(leaked')
  <2> DEFINE B == Beyond(k)  C == Beyond(k)'
             L == LeakedFrom(k)  K == LeakedFrom(k)'
  <2>1. /\ IsFiniteSet(B) /\ Cardinality(B) \in Nat
        /\ IsFiniteSet(L) /\ Cardinality(L) \in Nat
        /\ Cardinality(Threads) \in Nat /\ Cardinality(leaked) \in Nat
    BY <1>1, CountedSets
  <2>2. C \in SUBSET B /\ K = L \cup ({n} \cap {l \in Tids : l >= k})
    BY <1>1 DEF Beyond, InScan, LeakedFrom, TypeOK, Tids
  <2>3. B # {}
    BY <1>4, <2>2
  <2>4. Cardinality(B) + Cardinality(L) + k
          <= Cardinality(Threads) + Cardinality(leaked)
    BY <2>3 DEF ScanCount
  <2> HIDE DEF B, C, L, K
  <2>5. K = L \/ K = L \cup {n}
    BY <2>2
  <2>6. Cardinality(K) <= Cardinality(L) + 1 /\ Cardinality(K) \in Nat
    <3>1. Cardinality(L \cup {n}) \in {Cardinality(L), Cardinality(L) + 1}
      BY <2>1, FS_AddElement
    <3>2. Cardinality(K) \in {Cardinality(L), Cardinality(L) + 1}
      BY <2>5, <3>1, Zenon
    <3> QED
      BY <2>1, <3>2
  <2>7. IsFiniteSet(C) /\ Cardinality(C) <= Cardinality(B)
    BY <2>1, <2>2, FS_Subset
  <2>8. Cardinality(C) \in Nat
    BY <2>7, FS_CardinalityType
  <2> QED
    BY <1>3, <2>1, <2>4, <2>6, <2>7, <2>8 DEF B, C, L, K
<1> QED
  BY <1>2, <1>4 DEF ScanCount

(***************************************************************************)
(* The claim of a free id moves nobody.                                    *)
(***************************************************************************)
LEMMA ClaimsId ==
  ASSUME RegistryInv, RegistryInv', ScanCount, RefusedAtEnd, NEW t \in Threads,
         ClaimTid(t), ~used[i[t]]
  PROVE  ScanCount' /\ RefusedAtEnd'
<1> USE RegistryAssumption
<1>1. /\ TypeOK /\ TypeOK' /\ leaked' = leaked /\ tls' = tls /\ i' = i
      /\ pc[t] = "claim" /\ pc' = [pc EXCEPT ![t] = "adopt"]
  BY DEF RegistryInv, ClaimTid, Goto
<1>2. ASSUME NEW k \in 0 .. MaxThreads
      PROVE  Beyond(k)' \subseteq Beyond(k)
  BY <1>1 DEF Beyond, InScan, TypeOK
<1>3. RefusedAtEnd'
  BY <1>1 DEF RefusedAtEnd, TypeOK
<1> QED
  BY <1>1, <1>2, <1>3, FewerBeyond DEF ScanCount

(***************************************************************************)
(* The count is kept by every step of the registry.                        *)
(***************************************************************************)
THEOREM RegistryCountInvariant == Spec => []CountInv
<1>1. Init => CountInv
  <2> SUFFICES ASSUME Init PROVE CountInv
    OBVIOUS
  <2>1. RegistryInv
    BY InitInv
  <2>2. RefusedAtEnd
    BY DEF Init, RefusedAtEnd
  <2>3. ASSUME NEW k \in 0 .. MaxThreads, Beyond(k) # {}
        PROVE  FALSE
    BY <2>3 DEF Init, Beyond, InScan
  <2> QED
    BY <2>1, <2>2, <2>3 DEF CountInv, ScanCount
<1>2. CountInv /\ RegistryInv' /\ [Next]_vars => CountInv'
  <2> SUFFICES ASSUME CountInv, RegistryInv', [Next]_vars PROVE CountInv'
    OBVIOUS
  <2>1. RegistryInv /\ ScanCount /\ RefusedAtEnd
    BY DEF CountInv
  <2>2. CASE Next
    <3>1. PICK t \in Threads :
            UseContext(t) \/ InitThread(t) \/ ThreadExits(t) \/ Step(t)
      BY <2>2 DEF Next
    <3>2. ScanCount' /\ RefusedAtEnd'
      BY <2>1, <3>1, StaysBehind, BeginsScan, PassesId, ClaimsId, LeaksId DEF Step
    <3> QED
      BY <3>2 DEF CountInv
  <2>3. CASE UNCHANGED vars
    BY <2>1, <2>3 DEF vars, CountInv, ScanCount, RefusedAtEnd, Beyond, InScan,
       LeakedFrom
  <2> QED
    BY <2>2, <2>3
<1> QED
  BY RegistryInvariant, <1>1, <1>2, PTL DEF Spec

(***************************************************************************)
(* atomsnap_thread_init_internal refuses a thread only if there are more   *)
(* threads and leaked ids than MAX_THREADS, although its scan sees each id *)
(* once, at a different time, and ids behind it may have become free.      *)
(***************************************************************************)
THEOREM RegistryRefusesNobody == Spec => []NoSpuriousRefusal
<1>1. CountInv => NoSpuriousRefusal
  <2> SUFFICES ASSUME CountInv, NEW t \in Threads, pc[t] = "refused"
               PROVE  Cardinality(Threads) + Cardinality(leaked) > MaxThreads
    <3>1. 0 \in 0 .. MaxThreads /\ (CountInv => TypeOK)
      BY RegistryAssumption DEF CountInv, RegistryInv
    <3>2. CountInv => Cardinality(Threads) \in Nat /\ Cardinality(leaked) \in Nat
      BY <3>1, CountedSets
    <3> QED
      BY <3>2, RegistryAssumption DEF NoSpuriousRefusal
  <2> DEFINE B == Beyond(MaxThreads)
  <2>1. TypeOK /\ MaxThreads \in 0 .. MaxThreads
    BY RegistryAssumption DEF CountInv, RegistryInv
  <2>2. t \in B
    BY <2>1, RegistryAssumption DEF CountInv, RefusedAtEnd, Beyond, InScan
  <2>3. Cardinality(B) + Cardinality(LeakedFrom(MaxThreads)) + MaxThreads
          <= Cardinality(Threads) + Cardinality(leaked)
    BY <2>1, <2>2 DEF CountInv, ScanCount
  <2>4. /\ IsFiniteSet(B) /\ Cardinality(B) \in Nat
        /\ Cardinality(LeakedFrom(MaxThreads)) \in Nat
        /\ Cardinality(Threads) \in Nat /\ Cardinality(leaked) \in Nat
    BY <2>1, CountedSets
  <2>5. Cardinality(B) # 0
    BY <2>2, <2>4, FS_EmptySet
  <2> QED
    BY <2>3, <2>4, <2>5, RegistryAssumption
<1> QED
  BY RegistryCountInvariant, <1>1, PTL

-----------------------------------------------------------------------------
(***************************************************************************)
(* ArenaPages: reclaiming one arena leaves the others as they are, because *)
(* the page in which an arena ends is before the page in which any arena   *)
(* behind it begins.                                                       *)
(***************************************************************************)

(* Division with a rest.                                                   *)
LEMMA DivMod ==
  ASSUME NEW p \in Nat \ {0}, NEW x \in Nat
  PROVE  /\ x \div p \in Nat
         /\ x % p \in 0 .. p - 1
         /\ x = p * (x \div p) + (x % p)
  BY Z3T(30)

(* The multiples of p are p apart.                                         *)
LEMMA ProductStep ==
  ASSUME NEW p \in Nat \ {0}, NEW j \in Nat, NEW k \in Nat, j < k
  PROVE  p * j + p <= p * k
<1>1. PICK d \in Nat : k = j + 1 + d
  BY SMT
<1>2. p * (j + 1 + d) = p * j + p + p * d
  BY SMT
<1>3. p * d \in Nat /\ p * j \in Nat /\ p * k \in Nat
  BY SMT
<1> QED
  BY <1>1, <1>2, <1>3

(* A word in a page that does not lie behind the page of x is before every *)
(* page boundary that x is before.                                         *)
LEMMA PageBoundary ==
  ASSUME NEW p \in Nat \ {0}, NEW b \in Nat, b % p = 0,
         NEW x \in Nat, x < b, NEW w \in Nat, w \div p <= x \div p
  PROVE  w < b
<1> DEFINE k == b \div p  j == x \div p  l == w \div p
<1>1. k \in Nat /\ b = p * k
  BY DivMod
<1>2. j \in Nat /\ \E r \in 0 .. p - 1 : x = p * j + r
  BY DivMod
<1>3. l \in Nat /\ \E r \in 0 .. p - 1 : w = p * l + r
  BY DivMod
<1>4. l <= j
  OBVIOUS
<1> HIDE DEF k, j, l
<1>5. p * k \in Nat /\ p * j \in Nat /\ p * l \in Nat
  BY <1>1, <1>2, <1>3, SMT
<1>6. j < k
  <2>1. SUFFICES ASSUME ~(j < k) PROVE FALSE
    OBVIOUS
  <2>2. CASE j = k
    BY <1>1, <1>2, <1>5, <2>2
  <2>3. CASE k < j
    <3>1. p * k + p <= p * j
      BY <1>1, <1>2, <2>3, ProductStep
    <3> QED
      BY <1>1, <1>2, <1>5, <3>1
  <2> QED
    BY <1>1, <1>2, <2>1, <2>2, <2>3
<1>7. p * l + p <= p * k
  BY <1>1, <1>2, <1>3, <1>4, <1>6, ProductStep
<1> QED
  BY <1>1, <1>3, <1>5, <1>7

-----------------------------------------------------------------------------
(* Addresses and sizes are natural numbers, and sizes are not zero.        *)
LEMMA HeapIsNat ==
  Heap \subseteq Nat /\ ArenaWords \in Nat \ {0} /\ PageWords \in Nat \ {0}
  BY PagesAssumption DEF Heap, ArenaWords

(* What madvise takes with one arena is disjoint from any other arena.     *)
LEMMA DropIsOwn ==
  ASSUME NEW a \in Heap, NEW b \in Heap, b % PageWords = 0,
         Arena(a) \cap Arena(b) = {}
  PROVE  Dropped(a) \cap Arena(b) = {}
<1> SUFFICES ASSUME NEW w \in Dropped(a), w \in Arena(b)
             PROVE  FALSE
  OBVIOUS
<1> USE HeapIsNat
<1>1. a \in Nat /\ b \in Nat /\ w \in Nat /\ w >= a /\ w >= b
  BY DEF Dropped, Arena, Words
<1>2. a \notin Arena(b) /\ b \notin Arena(a)
  BY <1>1 DEF Arena, Words
<1>3. CASE a >= b
  BY <1>1, <1>2, <1>3 DEF Arena, Words
<1>4. CASE a < b
  <2> DEFINE x == a + ArenaWords - 1
  <2>1. x \in Nat /\ x < b
    BY <1>1, <1>2, <1>4 DEF Arena, Words
  <2>2. w \div PageWords <= x \div PageWords
    BY DEF Dropped
  <2> HIDE DEF x
  <2>3. w < b
    BY <1>1, <2>1, <2>2, PageBoundary
  <2> QED
    BY <1>1, <2>3
<1> QED
  BY <1>1, <1>3, <1>4

-----------------------------------------------------------------------------
(* At first there is no arena.                                             *)
LEMMA InitPages == PagesInit => PagesInv
  BY DEF PagesInit, PagesInv, PagesTypeOK, Aligned, Apart, ActiveArenaIntact

(* Each operation on the heap keeps the invariant.                         *)
LEMMA NextPages == PagesInv /\ [PagesNext]_pageVars => PagesInv'
<1> SUFFICES ASSUME PagesInv, [PagesNext]_pageVars PROVE PagesInv'
  OBVIOUS
<1> USE DEF PagesInv, PagesTypeOK, Aligned, Apart, ActiveArenaIntact
<1>1. ASSUME NEW a \in Heap, InitArena(a) PROVE PagesInv'
  <2>1. /\ DOMAIN arenas' = DOMAIN arenas \cup {a}
        /\ arenas'[a] = "active"
        /\ \A b \in DOMAIN arenas : b # a => arenas'[b] = arenas[b]
        /\ \A w \in Heap : mem'[w] = IF w \in Arena(a) THEN "arena" ELSE mem[w]
        /\ others' = others
    BY <1>1 DEF InitArena, With, Written
  <2>2. /\ a % PageWords = 0 /\ Arena(a) \subseteq Heap
        /\ \A b \in DOMAIN arenas : a # b => Arena(a) \cap Arena(b) = {}
        /\ \A o \in others : Arena(a) \cap Other(o) = {}
    BY <1>1 DEF InitArena, AlignedAlloc, Allocated
  <2>3. PagesTypeOK' /\ Aligned' /\ Apart'
    <3>1. PagesTypeOK'
      BY <1>1, <2>1 DEF InitArena, Written
    <3>2. Aligned'
      BY <2>1, <2>2
    <3>3. Apart'
      BY <2>1, <2>2
    <3> QED
      BY <3>1, <3>2, <3>3
  <2>4. ActiveArenaIntact'
    BY <2>1, <2>2
  <2> QED
    BY <2>3, <2>4
<1>2. ASSUME NEW a \in Heap, OtherAllocates(a) PROVE PagesInv'
  <2>1. /\ \A b \in DOMAIN arenas : Arena(b) \cap Other(a) = {}
        /\ \A w \in Heap : mem'[w] = IF w \in Other(a) THEN "other" ELSE mem[w]
        /\ others' = others \cup {a} /\ arenas' = arenas
    BY <1>2 DEF OtherAllocates, Allocated, Written
  <2>2. PagesTypeOK' /\ Aligned' /\ Apart'
    BY <1>2, <2>1 DEF OtherAllocates, Written
  <2>3. ActiveArenaIntact'
    BY <2>1
  <2> QED
    BY <2>2, <2>3
<1>3. ASSUME NEW a \in DOMAIN arenas, Reclaim(a) PROVE PagesInv'
  <2>1. /\ DOMAIN arenas' = DOMAIN arenas
        /\ arenas'[a] = "reclaimed"
        /\ \A b \in DOMAIN arenas : b # a => arenas'[b] = arenas[b]
        /\ \A w \in Heap : mem'[w] = IF w \in Dropped(a) THEN "zero" ELSE mem[w]
        /\ others' = others
    BY <1>3 DEF Reclaim, With, Written
  <2>2. PagesTypeOK' /\ Aligned' /\ Apart'
    BY <1>3, <2>1 DEF Reclaim, Written
  <2>3. \A b \in DOMAIN arenas : b # a => Dropped(a) \cap Arena(b) = {}
    BY DropIsOwn
  <2>4. ActiveArenaIntact'
    BY <2>1, <2>3
  <2> QED
    BY <2>2, <2>4
<1>4. ASSUME NEW a \in others, OtherFrees(a) PROVE PagesInv'
  BY <1>4 DEF OtherFrees
<1>5. CASE UNCHANGED pageVars
  BY <1>5 DEF pageVars
<1> QED
  BY <1>1, <1>2, <1>3, <1>4, <1>5 DEF PagesNext

(***************************************************************************)
(* The memory of an arena in use is never dropped with another arena,      *)
(* whatever the number of slots, the page size and the heap.               *)
(***************************************************************************)
THEOREM ReclaimKeepsOtherArenas == PagesSpec => []ActiveArenaIntact
<1>1. PagesInv => ActiveArenaIntact
  BY DEF PagesInv
<1> QED
  BY InitPages, NextPages, <1>1, PTL DEF PagesSpec
=============================================================================
