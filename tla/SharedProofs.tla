---------------------------- MODULE SharedProofs ----------------------------
(***************************************************************************)
(* Proofs about what the two backends of benchmark 2 share: the pool of    *)
(* payload blocks and the statistics, for any number of threads, blocks,   *)
(* tags and latencies.                                                     *)
(***************************************************************************)
EXTENDS MCBenchmark2, LinkedListProofs, Sequences

\* The provers, in the order in which they try each step.
USE ZenonT(3), SMT, ZenonT(20), SMTT(60)

-----------------------------------------------------------------------------
(***************************************************************************)
(* The pool of payload blocks (TaggedFreeList).                            *)
(***************************************************************************)

\* What the free list is made from.
LEMMA ListFinite ==
  ASSUME NEW S
  PROVE  List!IsFiniteSet(S) <=> IsFiniteSet(S)
  BY DEF List!IsFiniteSet, IsFiniteSet

\* The instance has the cardinalities of FiniteSets ...
LEMMA ListCardinality ==
  ASSUME NEW S
  PROVE  List!Cardinality(S) = Cardinality(S)
  BY DEF List!Cardinality, Cardinality

\* ... the reachability of LinkedList ...
LEMMA ListReach ==
  ASSUME NEW h, NEW after, NEW nodes
  PROVE  List!Reach(h, after, nodes) = Reach(h, after, nodes)
  BY ListCardinality DEF List!Reach, Reach

\* ... and its stacks.
LEMMA ListStack ==
  ASSUME NEW L, NEW h, NEW rank, NEW after, NEW nodes, NEW null
  PROVE  List!IsStack(L, h, rank, after, nodes, null)
           <=> IsStack(L, h, rank, after, nodes, null)
  BY DEF List!IsStack, IsStack, List!IsList, IsList

\* What Benchmark2Assumption says of the constants of the instance.
LEMMA PoolAssumption ==
  /\ T \in Nat \ {0}
  /\ IsFiniteSet(Blocks)
  /\ NULL \notin Blocks /\ USER \notin Blocks /\ USER # NULL
  BY Benchmark2Assumption, ListFinite DEF List!FreeListAssumption

\* A tag read m changes ago, for m less than T, is another one, and one more
\* change adds one to the difference.
LEMMA TagAge ==
  ASSUME NEW a \in 0 .. T - 1, NEW m \in 0 .. T - 1
  PROVE  /\ (a + m) % T \in 0 .. T - 1
         /\ (a + m) % T = a <=> m = 0
         /\ (((a + m) % T) + 1) % T = (a + (m + 1)) % T
<1> T \in Nat /\ T > 0
  BY PoolAssumption
<1>1. (a + m) % T = IF a + m < T THEN a + m ELSE a + m - T
  OBVIOUS
<1>2. CASE a + m + 1 < T
  <2>1. (a + (m + 1)) % T = a + m + 1
    BY <1>2
  <2>2. (a + m + 1) % T = a + m + 1
    BY <1>2
  <2> QED
    BY <1>1, <1>2, <2>1, <2>2
<1>3. CASE a + m + 1 >= T
  <2>1. (a + (m + 1)) % T = a + m + 1 - T
    BY <1>3
  <2>2. a + m + 1 = T => (a + m + 1) % T = 0
    OBVIOUS
  <2>3. a + m >= T => (a + m - T + 1) % T = a + m + 1 - T
    OBVIOUS
  <2> QED
    BY <1>1, <1>3, <2>1, <2>2, <2>3
<1> QED
  BY <1>2, <1>3

\* The pool is built with every block in its list.
LEMMA PoolInit == List!Init => List!FreeListInv
<1> SUFFICES ASSUME List!Init PROVE List!FreeListInv
  OBVIOUS
<1> USE PoolAssumption DEF List!Init
<1>1. List!TypeOK
  <2>1. [ptr |-> NULL, tag |-> 0] \in List!Heads /\ NULL \in List!Words
    BY DEF List!Heads, List!Words
  <2>2. lapsed \in BOOLEAN
    OBVIOUS
  <2> QED
    BY <2>1, <2>2 DEF List!TypeOK
<1>2. List!CallInv
  BY DEF List!CallInv
<1>3. List!AtRest = {}
  BY DEF List!AtRest
<1>4. List!OneHome /\ List!LinkInv
  BY DEF List!OneHome, List!LinkInv
<1>5. List!ListInv
  <2>1. PICK rank \in [Blocks -> 1 .. Cardinality(Blocks)] : TRUE
    <3>1. Cardinality(Blocks) \in Nat /\ (Blocks # {} => Cardinality(Blocks) # 0)
      BY FS_CardinalityType, FS_EmptySet
    <3>2. [b \in Blocks |-> 1] \in [Blocks -> 1 .. Cardinality(Blocks)]
      BY <3>1
    <3> QED
      BY <3>2
  <2>2. IsStack(List!AtRest, head.ptr, rank, next, Blocks, NULL)
    BY <1>3 DEF IsStack
  <2> QED
    BY <2>2, ListStack, ListCardinality DEF List!ListInv
<1> QED
  BY <1>1, <1>2, <1>4, <1>5 DEF List!FreeListInv

\* A compare_exchange that succeeds gives the word the next tag, which makes
\* every other thread's word one change older.
LEMMA SwapAge ==
  ASSUME List!TypeOK, List!CallInv, NEW t \in Threads, NEW p \in List!Words,
         pc[t] # "idle", List!Swap(t, p)
  PROVE  /\ head' \in List!Heads /\ head'.ptr = p
         /\ missed' \in [Threads -> 0 .. T] /\ lapsed' \in BOOLEAN
         /\ old' \in [Threads -> List!Heads]
         /\ ~lapsed' => missed[t] = 0
         /\ \A u \in Threads \ {t} :
              /\ pc[u] = "idle" => missed'[u] = 0
              /\ pc[u] # "idle" =>
                   /\ missed'[u] # 0
                   /\ missed'[u] < T => head'.tag = (old[u].tag + missed'[u]) % T
<1> USE PoolAssumption DEF List!Swap, List!Packed
<1>1. /\ head.tag \in 0 .. T - 1 /\ head.ptr \in List!Words
      /\ \A u \in Threads : old[u].tag \in 0 .. T - 1 /\ missed[u] \in 0 .. T
  BY DEF List!TypeOK, List!Heads
<1>2. (head.tag + 1) % T \in 0 .. T - 1
  BY <1>1
<1>3. head' = [ptr |-> p, tag |-> (head.tag + 1) % T]
  OBVIOUS
<1>4. head' \in List!Heads /\ head'.ptr = p /\ head'.tag = (head.tag + 1) % T
  BY <1>2, <1>3 DEF List!Heads
<1>5. missed' \in [Threads -> 0 .. T] /\ lapsed' \in BOOLEAN
  BY <1>1
<1>6. old' \in [Threads -> List!Heads]
  <2>1. [ptr |-> NULL, tag |-> 0] \in List!Heads
    BY DEF List!Heads, List!Words
  <2> QED
    BY <2>1 DEF List!TypeOK
<1>7. ASSUME ~lapsed' PROVE missed[t] = 0
  <2>1. missed[t] # T
    BY <1>7
  <2>2. missed[t] \in 0 .. T - 1
    BY <1>1, <2>1
  <2>3. head.tag = (old[t].tag + missed[t]) % T
    BY <2>2 DEF List!CallInv
  <2>4. (old[t].tag + missed[t]) % T = old[t].tag
    BY <2>3
  <2> QED
    BY <1>1, <2>2, <2>4, TagAge
<1>8. ASSUME NEW u \in Threads \ {t}, pc[u] # "idle"
      PROVE  /\ missed'[u] # 0
             /\ missed'[u] < T => head'.tag = (old[u].tag + missed'[u]) % T
  <2>1. missed'[u] = IF missed[u] = T THEN T ELSE missed[u] + 1
    BY <1>8
  <2>2. ASSUME missed'[u] < T PROVE head'.tag = (old[u].tag + missed'[u]) % T
    <3>1. missed[u] \in 0 .. T - 1 /\ missed'[u] = missed[u] + 1
      BY <1>1, <2>1, <2>2
    <3>2. head.tag = (old[u].tag + missed[u]) % T
      BY <1>8, <3>1 DEF List!CallInv
    <3>3. (((old[u].tag + missed[u]) % T) + 1) % T = (old[u].tag + (missed[u] + 1)) % T
      BY <1>1, <3>1, TagAge
    <3> QED
      BY <1>4, <3>1, <3>2, <3>3
  <2> QED
    BY <1>1, <2>1, <2>2
<1>9. ASSUME NEW u \in Threads \ {t}, pc[u] = "idle" PROVE missed'[u] = 0
  BY <1>9
<1> QED
  BY <1>4, <1>5, <1>6, <1>7, <1>8, <1>9

\* A step of a thread keeps the types ...
LEMMA PoolType ==
  ASSUME List!FreeListInv, ~lapsed, NEW t \in Threads, List!Step(t)
  PROVE  List!TypeOK'
<1>1. List!TypeOK /\ List!CallInv
  BY DEF List!FreeListInv
<1> USE <1>1, PoolAssumption DEF List!TypeOK
<1>2. [ptr |-> NULL, tag |-> 0] \in List!Heads /\ Blocks \cup {NULL, USER} = List!Words
  BY DEF List!Heads, List!Words
<1>3. \A u \in Threads : old[u].ptr \in Blocks \cup {NULL}
  <2>1. \A u \in Threads : old[u].ptr \in List!Words
    BY DEF List!Heads
  <2> QED
    BY <1>2, <2>1 DEF List!CallInv
<1>4. CASE List!AllocLoads(t)
  BY <1>4 DEF List!AllocLoads, List!Load, List!Goto
<1>5. CASE List!AllocThrows(t)
  BY <1>2, <1>5 DEF List!AllocThrows, List!Goto
<1>6. CASE List!AllocReads(t)
  BY <1>2, <1>3, <1>6 DEF List!AllocReads, List!Goto
<1>7. CASE List!AllocSucceeds(t)
  <2> USE <1>7 DEF List!AllocSucceeds
  <2>1. link[t] \in List!Words /\ pc[t] # "idle" /\ old[t].ptr \in Blocks
    BY <1>3 DEF List!CallInv
  <2>2. /\ head' \in List!Heads /\ lapsed' \in BOOLEAN
        /\ missed' \in [Threads -> 0 .. T] /\ old' \in [Threads -> List!Heads]
    BY <2>1, SwapAge
  <2> QED
    BY <1>2, <2>1, <2>2 DEF List!Swap, List!Goto
<1>8. CASE List!AllocRetries(t)
  BY <1>2, <1>8 DEF List!AllocRetries, List!Load, List!Goto
<1>9. CASE List!FreeLinks(t)
  <2>1. old[t].ptr \in List!Words
    BY <1>2, <1>3
  <2> QED
    BY <1>9, <2>1 DEF List!FreeLinks, List!Goto
<1>10. CASE List!FreeSucceeds(t)
  <2> USE <1>10 DEF List!FreeSucceeds
  <2>1. node[t] \in List!Words /\ pc[t] # "idle"
    BY <1>2
  <2>2. /\ head' \in List!Heads /\ lapsed' \in BOOLEAN
        /\ missed' \in [Threads -> 0 .. T] /\ old' \in [Threads -> List!Heads]
    BY <2>1, SwapAge
  <2> QED
    BY <2>2 DEF List!Swap, List!Goto
<1>11. CASE List!FreeRetries(t)
  BY <1>11 DEF List!FreeRetries, List!Load, List!Goto
<1>12. ASSUME NEW b \in Blocks, List!AllocNew(t, b) PROVE List!TypeOK'
  BY <1>2, <1>12 DEF List!AllocNew, List!Goto
<1>13. ASSUME NEW b \in Blocks, List!FreeLoads(t, b) PROVE List!TypeOK'
  BY <1>13 DEF List!FreeLoads, List!Load, List!Goto
<1> QED
  BY <1>4, <1>5, <1>6, <1>7, <1>8, <1>9, <1>10, <1>11, <1>12, <1>13 DEF List!Step

\* ... what is known of the calls under way ...
LEMMA PoolCalls ==
  ASSUME List!FreeListInv, ~lapsed, NEW t \in Threads, List!Step(t)
  PROVE  List!CallInv'
<1>1. List!TypeOK /\ List!CallInv
  BY DEF List!FreeListInv
<1> USE <1>1, PoolAssumption
<1>2. head.tag \in 0 .. T - 1 /\ head.tag = (head.tag + 0) % T
  <2>1. head.tag \in 0 .. T - 1
    BY DEF List!TypeOK, List!Heads
  <2>2. 0 \in 0 .. T - 1
    OBVIOUS
  <2> QED
    BY <2>1, <2>2, TagAge
<1>3. head.ptr # USER
  <2>1. PICK rank \in [Blocks -> 1 .. Cardinality(Blocks)] :
          IsStack(List!AtRest, head.ptr, rank, next, Blocks, NULL)
    BY ListStack, ListCardinality DEF List!FreeListInv, List!ListInv
  <2>2. head.ptr = NULL \/ head.ptr \in List!AtRest
    BY <2>1 DEF IsStack, IsList
  <2> QED
    BY <2>2 DEF List!AtRest
<1>4. /\ pc \in [Threads -> {"idle", "alloc", "pop", "link", "push"}]
      /\ old \in [Threads -> List!Heads] /\ node \in [Threads -> Blocks \cup {NULL}]
      /\ missed \in [Threads -> 0 .. T] /\ live \in SUBSET Blocks
  BY DEF List!TypeOK
<1> USE <1>4 DEF List!CallInv
<1>5. CASE List!AllocLoads(t)
  BY <1>2, <1>3, <1>5 DEF List!AllocLoads, List!Load, List!Goto
<1>6. CASE List!AllocThrows(t)
  BY <1>6 DEF List!AllocThrows, List!Goto
<1>7. CASE List!AllocReads(t)
  BY <1>7 DEF List!AllocReads, List!Goto
<1>8. CASE List!AllocSucceeds(t)
  <2> USE <1>8 DEF List!AllocSucceeds
  <2>1. link[t] \in List!Words /\ pc[t] # "idle"
    BY DEF List!TypeOK
  <2>2. \A u \in Threads \ {t} :
              /\ pc[u] = "idle" => missed'[u] = 0
              /\ pc[u] # "idle" =>
                   /\ missed'[u] # 0
                   /\ missed'[u] < T => head'.tag = (old[u].tag + missed'[u]) % T
    BY <2>1, SwapAge
  <2> QED
    BY <2>2 DEF List!Swap, List!Goto
<1>9. CASE List!AllocRetries(t)
  BY <1>2, <1>3, <1>9 DEF List!AllocRetries, List!Load, List!Goto
<1>10. CASE List!FreeLinks(t)
  BY <1>10 DEF List!FreeLinks, List!Goto
<1>11. CASE List!FreeSucceeds(t)
  <2> USE <1>11 DEF List!FreeSucceeds
  <2>1. node[t] \in List!Words /\ pc[t] # "idle"
    BY DEF List!Words
  <2>2. \A u \in Threads \ {t} :
              /\ pc[u] = "idle" => missed'[u] = 0
              /\ pc[u] # "idle" =>
                   /\ missed'[u] # 0
                   /\ missed'[u] < T => head'.tag = (old[u].tag + missed'[u]) % T
    BY <2>1, SwapAge
  <2> QED
    BY <2>2 DEF List!Swap, List!Goto
<1>12. CASE List!FreeRetries(t)
  BY <1>2, <1>3, <1>12 DEF List!FreeRetries, List!Load, List!Goto
<1>13. ASSUME NEW b \in Blocks, List!AllocNew(t, b) PROVE List!CallInv'
  BY <1>13 DEF List!AllocNew, List!Goto
<1>14. ASSUME NEW b \in Blocks, List!FreeLoads(t, b) PROVE List!CallInv'
  BY <1>2, <1>3, <1>14 DEF List!FreeLoads, List!Load, List!Goto
<1> QED
  BY <1>5, <1>6, <1>7, <1>8, <1>9, <1>10, <1>11, <1>12, <1>13, <1>14 DEF List!Step

\* The list stays what it is while the blocks at rest and their links do.
LEMMA SameList ==
  ASSUME List!ListInv, List!AtRest' = List!AtRest, head'.ptr = head.ptr,
         \A b \in List!AtRest : next'[b] = next[b]
  PROVE  List!ListInv'
<1>1. PICK rank \in [Blocks -> 1 .. Cardinality(Blocks)] :
        IsStack(List!AtRest, head.ptr, rank, next, Blocks, NULL)
  BY ListStack, ListCardinality DEF List!ListInv
<1>2. IsStack(List!AtRest', head'.ptr, rank, next', Blocks, NULL)
  BY <1>1, StackFrame
<1> QED
  BY <1>2, ListStack, ListCardinality DEF List!ListInv

\* The top of the list is a block at rest.
LEMMA TopAtRest ==
  ASSUME List!ListInv
  PROVE  head.ptr = NULL \/ head.ptr \in List!AtRest
<1>1. PICK rank \in [Blocks -> 1 .. Cardinality(Blocks)] :
        IsStack(List!AtRest, head.ptr, rank, next, Blocks, NULL)
  BY ListStack, ListCardinality DEF List!ListInv
<1> QED
  BY <1>1 DEF IsStack, IsList

\* A block at rest is in nobody's hands.
LEMMA Resting ==
  ASSUME NEW b
  PROVE  b \in List!AtRest <=>
           b \in Blocks /\ b \notin fresh /\ b \notin live
             /\ (b # NULL => \A u \in Threads : node[u] # b)
  BY PoolAssumption DEF List!AtRest, List!Freeing

\* alloc takes the top of the list, if its word is not stale.
LEMMA PoolPop ==
  ASSUME List!FreeListInv, ~lapsed, NEW t \in Threads, List!AllocSucceeds(t), ~lapsed'
  PROVE  List!OneHome' /\ List!LinkInv' /\ List!ListInv'
<1> USE PoolAssumption DEF List!AllocSucceeds
<1>1. List!TypeOK /\ List!CallInv /\ List!OneHome /\ List!LinkInv /\ List!ListInv
  BY DEF List!FreeListInv
<1> DEFINE h == head.ptr
<1>2. pc[t] = "pop" /\ link[t] \in List!Words
  BY <1>1 DEF List!TypeOK
<1>3. /\ missed[t] = 0 /\ head'.ptr = link[t]
      /\ \A u \in Threads \ {t} : pc[u] # "idle" => missed'[u] # 0
  BY <1>1, <1>2, SwapAge
<1>4. old[t].ptr = h /\ h # NULL /\ link[t] = next[h]
  BY <1>1, <1>2, <1>3 DEF List!CallInv, List!LinkInv
<1>5. h \in List!AtRest /\ h \in Blocks
  BY <1>1, <1>4, TopAtRest, Resting
<1>6. h \notin fresh /\ h \notin live /\ \A u \in Threads : node[u] # h
  BY <1>4, <1>5, Resting
<1>7. /\ live' = live \cup {h} /\ fresh' = fresh /\ node' = node
      /\ next' = [next EXCEPT ![h] = USER] /\ next \in [Blocks -> List!Words]
      /\ pc \in [Threads -> {"idle", "alloc", "pop", "link", "push"}]
      /\ pc' = [pc EXCEPT ![t] = "idle"] /\ live \in SUBSET Blocks
      /\ old' = [old EXCEPT ![t] = [ptr |-> NULL, tag |-> 0]] /\ DOMAIN old = Threads
  BY <1>1, <1>4 DEF List!Swap, List!Goto, List!TypeOK
<1> HIDE DEF h
<1>8. List!OneHome'
  BY <1>1, <1>6, <1>7 DEF List!OneHome
<1>9. List!LinkInv'
  <2>1. \A b \in live' : next'[b] = USER
    BY <1>1, <1>5, <1>6, <1>7 DEF List!LinkInv
  <2>2. ASSUME NEW u \in Threads
        PROVE  /\ ~(pc'[u] = "pop" /\ missed'[u] = 0)
               /\ pc'[u] = "push" => next'[node'[u]] = old'[u].ptr
    BY <1>1, <1>3, <1>6, <1>7 DEF List!LinkInv, List!TypeOK, List!CallInv
  <2> QED
    BY <2>1, <2>2 DEF List!LinkInv
<1>10. List!AtRest' = List!AtRest \ {h}
  BY <1>7 DEF List!AtRest, List!Freeing
<1>11. List!ListInv'
  <2>1. PICK rank \in [Blocks -> 1 .. Cardinality(Blocks)] :
          IsStack(List!AtRest, h, rank, next, Blocks, NULL)
    BY <1>1, ListStack, ListCardinality DEF List!ListInv, h
  <2>2. rank \in [Blocks -> Nat] /\ List!AtRest \in SUBSET Blocks
    BY <2>1, FS_CardinalityType DEF List!AtRest
  <2>3. IsStack(List!AtRest \ {h}, next[h], rank, next, Blocks, NULL)
    BY <1>4, <2>1, <2>2, StackPop
  <2>4. \A x \in List!AtRest \ {h} : next'[x] = next[x] /\ rank[x] = rank[x]
    BY <1>7, <2>2
  <2>5. IsStack(List!AtRest \ {h}, next[h], rank, next', Blocks, NULL)
    BY <2>3, <2>4, StackFrame
  <2> QED
    BY <1>3, <1>4, <1>10, <2>5, ListStack, ListCardinality DEF List!ListInv
<1> QED
  BY <1>8, <1>9, <1>11

\* free puts its block on top of the list, if its word is not stale.
LEMMA PoolPush ==
  ASSUME List!FreeListInv, ~lapsed, NEW t \in Threads, List!FreeSucceeds(t), ~lapsed'
  PROVE  List!OneHome' /\ List!LinkInv' /\ List!ListInv'
<1> USE PoolAssumption DEF List!FreeSucceeds
<1>1. List!TypeOK /\ List!CallInv /\ List!OneHome /\ List!LinkInv /\ List!ListInv
  BY DEF List!FreeListInv
<1> DEFINE n == node[t]
<1>2. pc[t] = "push" /\ n \in Blocks /\ n \in List!Words
  BY <1>1 DEF List!TypeOK, List!CallInv, List!Words
<1>3. /\ missed[t] = 0 /\ head'.ptr = n
      /\ \A u \in Threads \ {t} : pc[u] # "idle" => missed'[u] # 0
  BY <1>1, <1>2, SwapAge
<1>4. next[n] = head.ptr
  BY <1>1, <1>2 DEF List!LinkInv, List!Swap
<1>5. /\ live' = live /\ fresh' = fresh /\ node' = [node EXCEPT ![t] = NULL]
      /\ next' = next /\ node \in [Threads -> Blocks \cup {NULL}]
      /\ pc \in [Threads -> {"idle", "alloc", "pop", "link", "push"}]
      /\ pc' = [pc EXCEPT ![t] = "idle"]
      /\ old' = [old EXCEPT ![t] = [ptr |-> NULL, tag |-> 0]] /\ DOMAIN old = Threads
  BY <1>1 DEF List!Swap, List!Goto, List!TypeOK
<1>6. List!OneHome'
  BY <1>1, <1>5 DEF List!OneHome, List!TypeOK
<1>7. List!LinkInv'
  <2>1. \A b \in live' : next'[b] = USER
    BY <1>1, <1>5 DEF List!LinkInv
  <2>2. ASSUME NEW u \in Threads
        PROVE  /\ ~(pc'[u] = "pop" /\ missed'[u] = 0)
               /\ pc'[u] = "push" => next'[node'[u]] = old'[u].ptr
    BY <1>1, <1>3, <1>5 DEF List!LinkInv
  <2> QED
    BY <2>1, <2>2 DEF List!LinkInv
<1>8. n \notin List!AtRest
  BY <1>2, Resting
<1>9. List!AtRest' = List!AtRest \cup {n}
  <2>1. n \notin fresh \cup live
    BY <1>1 DEF List!OneHome
  <2>2. \A u \in Threads : node[u] = n => u = t
    BY <1>1, <1>2 DEF List!OneHome
  <2>3. List!Freeing' = List!Freeing \ {n}
    BY <1>2, <1>5, <2>2 DEF List!Freeing
  <2> QED
    BY <1>2, <1>5, <2>1, <2>3 DEF List!AtRest
<1>10. List!ListInv'
  <2>1. PICK rank \in [Blocks -> 1 .. Cardinality(Blocks)] :
          IsStack(List!AtRest, head.ptr, rank, next, Blocks, NULL)
    BY <1>1, ListStack, ListCardinality DEF List!ListInv
  <2>2. List!AtRest \in SUBSET Blocks
    BY DEF List!AtRest
  <2>3. \E r \in [Blocks -> 1 .. Cardinality(Blocks)] :
          IsStack(List!AtRest \cup {n}, n, r, next, Blocks, NULL)
    BY <1>2, <1>4, <1>8, <2>1, <2>2, StackPush
  <2> QED
    BY <1>3, <1>5, <1>9, <2>3, ListStack, ListCardinality DEF List!ListInv
<1> QED
  BY <1>6, <1>7, <1>10

\* ... and the list with the blocks in it, unless a tag comes round.
LEMMA PoolBlocks ==
  ASSUME List!FreeListInv, ~lapsed, NEW t \in Threads, List!Step(t), ~lapsed'
  PROVE  List!OneHome' /\ List!LinkInv' /\ List!ListInv'
<1>1. List!TypeOK /\ List!CallInv /\ List!OneHome /\ List!LinkInv /\ List!ListInv
  BY DEF List!FreeListInv
<1>2. /\ pc \in [Threads -> {"idle", "alloc", "pop", "link", "push"}]
      /\ old \in [Threads -> List!Heads] /\ node \in [Threads -> Blocks \cup {NULL}]
      /\ missed \in [Threads -> 0 .. T] /\ live \in SUBSET Blocks
      /\ fresh \in SUBSET Blocks /\ next \in [Blocks -> List!Words]
      /\ link \in [Threads -> List!Words]
  BY <1>1 DEF List!TypeOK
<1>3. ASSUME UNCHANGED <<head, next, fresh, live, node>>
      PROVE  List!OneHome' /\ List!ListInv' /\ \A b \in live' : next'[b] = USER
  <2>1. List!OneHome' /\ \A b \in live' : next'[b] = USER
    BY <1>1, <1>3 DEF List!OneHome, List!LinkInv
  <2>2. List!AtRest' = List!AtRest
    BY <1>3 DEF List!AtRest, List!Freeing
  <2> QED
    BY <1>1, <1>3, <2>1, <2>2, SameList
<1>4. CASE List!AllocLoads(t)
  BY <1>1, <1>2, <1>3, <1>4 DEF List!AllocLoads, List!Load, List!Goto, List!LinkInv
<1>5. CASE List!AllocThrows(t)
  BY <1>1, <1>2, <1>3, <1>5 DEF List!AllocThrows, List!Goto, List!LinkInv
<1>6. CASE List!AllocReads(t)
  BY <1>1, <1>2, <1>3, <1>6 DEF List!AllocReads, List!Goto, List!LinkInv
<1>7. CASE List!AllocRetries(t)
  BY <1>1, <1>2, <1>3, <1>7 DEF List!AllocRetries, List!Load, List!Goto, List!LinkInv
<1>8. CASE List!FreeRetries(t)
  BY <1>1, <1>2, <1>3, <1>8 DEF List!FreeRetries, List!Load, List!Goto, List!LinkInv
<1>9. \A u \in Threads : pc[u] = "pop" /\ missed[u] = 0 =>
                           old[u].ptr \in List!AtRest /\ old[u].ptr \in Blocks
  BY <1>1, TopAtRest, Resting DEF List!CallInv
<1>10. CASE List!FreeLinks(t)
  <2> USE <1>10 DEF List!FreeLinks, List!Goto
  <2>1. node[t] \in Blocks /\ node[t] \notin live /\ node[t] \notin List!AtRest
    BY <1>1, <1>2, PoolAssumption, Resting DEF List!CallInv, List!OneHome
  <2>2. \A u \in Threads \ {t} : node[u] # node[t]
    BY <1>1, <2>1, PoolAssumption DEF List!OneHome
  <2>3. List!AtRest' = List!AtRest /\ head' = head
    BY DEF List!AtRest, List!Freeing
  <2>4. List!OneHome'
    BY <1>1 DEF List!OneHome
  <2>5. List!LinkInv'
    <3>1. \A b \in live' : next'[b] = USER
      BY <1>1, <1>2, <2>1 DEF List!LinkInv
    <3>2. ASSUME NEW u \in Threads, pc'[u] = "pop", missed'[u] = 0
          PROVE  link'[u] = next'[old'[u].ptr]
      BY <1>1, <1>2, <1>9, <2>1, <3>2 DEF List!LinkInv
    <3>3. ASSUME NEW u \in Threads, pc'[u] = "push"
          PROVE  next'[node'[u]] = old'[u].ptr
      <4>1. CASE u = t
        BY <1>2, <2>1, <4>1
      <4>2. CASE u # t
        <5>1. node[u] \in Blocks /\ next[node[u]] = old[u].ptr
          BY <1>1, <1>2, <3>3, <4>2 DEF List!LinkInv, List!CallInv
        <5> QED
          BY <1>2, <2>1, <2>2, <4>2, <5>1
      <4> QED
        BY <4>1, <4>2
    <3> QED
      BY <3>1, <3>2, <3>3 DEF List!LinkInv
  <2>6. List!ListInv'
    <3>1. \A b \in List!AtRest : next'[b] = next[b]
      BY <1>2, <2>1 DEF List!AtRest
    <3> QED
      BY <1>1, <2>3, <3>1, SameList
  <2> QED
    BY <2>4, <2>5, <2>6
<1>11. ASSUME NEW b \in Blocks, List!AllocNew(t, b)
       PROVE  List!OneHome' /\ List!LinkInv' /\ List!ListInv'
  <2> USE <1>11 DEF List!AllocNew, List!Goto
  <2>1. b \in fresh /\ b \notin live /\ b \notin List!AtRest /\ \A u \in Threads : node[u] # b
    BY <1>1, Resting DEF List!OneHome
  <2>2. List!AtRest' = List!AtRest /\ head' = head
    BY DEF List!AtRest, List!Freeing
  <2>3. List!OneHome'
    BY <1>1, <2>1 DEF List!OneHome
  <2>4. List!LinkInv'
    <3>1. \A c \in live' : next'[c] = USER
      BY <1>1, <1>2, <2>1 DEF List!LinkInv
    <3>2. ASSUME NEW u \in Threads, pc'[u] = "pop", missed'[u] = 0
          PROVE  link'[u] = next'[old'[u].ptr]
      BY <1>1, <1>2, <1>9, <2>1, <3>2 DEF List!LinkInv
    <3>3. ASSUME NEW u \in Threads, pc'[u] = "push"
          PROVE  next'[node'[u]] = old'[u].ptr
      <4>1. u # t /\ pc[u] = "push"
        BY <1>2, <3>3
      <4>2. node[u] \in Blocks /\ next[node[u]] = old[u].ptr
        BY <1>1, <1>2, <4>1 DEF List!LinkInv, List!CallInv
      <4> QED
        BY <1>2, <2>1, <4>1, <4>2
    <3> QED
      BY <3>1, <3>2, <3>3 DEF List!LinkInv
  <2>5. List!ListInv'
    <3>1. \A c \in List!AtRest : next'[c] = next[c]
      BY <1>2, <2>1 DEF List!AtRest
    <3> QED
      BY <1>1, <2>2, <3>1, SameList
  <2> QED
    BY <2>3, <2>4, <2>5
<1>12. ASSUME NEW b \in Blocks, List!FreeLoads(t, b)
       PROVE  List!OneHome' /\ List!LinkInv' /\ List!ListInv'
  <2> USE <1>12 DEF List!FreeLoads, List!Load, List!Goto
  <2>1. b \in live /\ b \notin fresh /\ node[t] = NULL /\ \A u \in Threads : node[u] # b
    BY <1>1 DEF List!OneHome, List!CallInv
  <2>2. /\ node' = [node EXCEPT ![t] = b] /\ live' = live \ {b} /\ fresh' = fresh
        /\ head' = head /\ next' = next
    OBVIOUS
  <2>3. List!Freeing' = List!Freeing \cup {b}
    BY <1>2, <2>1, <2>2, PoolAssumption DEF List!Freeing
  <2>4. List!AtRest' = List!AtRest
    BY <2>1, <2>2, <2>3 DEF List!AtRest
  <2>5. List!OneHome'
    BY <1>1, <1>2, <2>1, <2>2 DEF List!OneHome
  <2>6. List!LinkInv'
    BY <1>1, <1>2, <2>2 DEF List!LinkInv
  <2>7. List!ListInv'
    BY <1>1, <2>2, <2>4, SameList
  <2> QED
    BY <2>5, <2>6, <2>7
<1> QED
  BY <1>4, <1>5, <1>6, <1>7, <1>8, <1>10, <1>11, <1>12, PoolPop, PoolPush DEF List!Step

\* A step of the pool, or of the others, keeps the invariant.
LEMMA PoolStep ==
  ASSUME List!FreeListInv, List!Next \/ UNCHANGED List!vars
  PROVE  List!FreeListInv'
<1>1. CASE UNCHANGED List!vars
  <2> USE <1>1 DEF List!vars
  <2>1. List!TypeOK' <=> List!TypeOK
    BY DEF List!TypeOK
  <2>2. List!CallInv' <=> List!CallInv
    BY DEF List!CallInv
  <2>3. (List!OneHome' <=> List!OneHome) /\ (List!LinkInv' <=> List!LinkInv)
    BY DEF List!OneHome, List!LinkInv
  <2>4. List!ListInv' <=> List!ListInv
    BY DEF List!ListInv, List!AtRest, List!Freeing
  <2> QED
    BY <2>1, <2>2, <2>3, <2>4 DEF List!FreeListInv
<1>2. ASSUME ~lapsed, NEW t \in Threads, List!Step(t) PROVE List!FreeListInv'
  <2>1. List!TypeOK' /\ List!CallInv'
    BY <1>2, PoolType, PoolCalls
  <2>2. ~lapsed' => List!OneHome' /\ List!LinkInv' /\ List!ListInv'
    BY <1>2, PoolBlocks
  <2> QED
    BY <2>1, <2>2 DEF List!FreeListInv
<1> QED
  BY <1>1, <1>2 DEF List!Next, List!Lapsed

\* What the invariant says to a user of the pool.
LEMMA PoolStale ==
  ASSUME List!FreeListInv
  PROVE  List!StaleWordDiffers
<1> SUFFICES ASSUME NEW t \in Threads, pc[t] # "idle", missed[t] \in 1 .. T - 1, head = old[t]
             PROVE  FALSE
  BY DEF List!StaleWordDiffers
<1>1. old[t].tag \in 0 .. T - 1 /\ missed[t] \in 0 .. T - 1 /\ missed[t] # 0
  BY DEF List!FreeListInv, List!TypeOK, List!Heads
<1>2. old[t].tag = (old[t].tag + missed[t]) % T
  BY <1>1, PoolAssumption DEF List!FreeListInv, List!CallInv
<1> QED
  BY <1>1, <1>2, TagAge

\* The invariant accounts for every block.
LEMMA PoolEveryBlockOnce ==
  ASSUME List!FreeListInv
  PROVE  List!EveryBlockOnce
<1> SUFFICES ASSUME ~lapsed PROVE List!EveryBlockOnce
  BY DEF List!EveryBlockOnce
<1> USE PoolAssumption
<1>1. List!TypeOK /\ List!OneHome /\ List!LinkInv /\ List!ListInv
  BY DEF List!FreeListInv
<1>2. List!Listed = List!AtRest
  <2>1. PICK rank \in [Blocks -> 1 .. Cardinality(Blocks)] :
          IsStack(List!AtRest, head.ptr, rank, next, Blocks, NULL)
    BY <1>1, ListStack, ListCardinality DEF List!ListInv
  <2>2. rank \in [Blocks -> Nat] /\ List!AtRest \in SUBSET Blocks
    BY <2>1, FS_CardinalityType DEF List!AtRest
  <2>3. Reach(head.ptr, next, Blocks) \ {NULL} = List!AtRest
    BY <2>1, <2>2, StackReach
  <2> QED
    BY <2>3, ListReach DEF List!Listed
<1> DEFINE A == fresh
           B == live
           C == List!Freeing
           D == List!AtRest
<1>3. /\ A \in SUBSET Blocks /\ B \in SUBSET Blocks /\ C \in SUBSET Blocks
      /\ A \cap B = {} /\ (A \cup B) \cap C = {}
  BY <1>1 DEF List!TypeOK, List!OneHome, List!Freeing
<1>4. D = Blocks \ (A \cup B \cup C)
  BY DEF List!AtRest
<1> HIDE DEF A, B, C, D
<1>5. /\ (A \cup B \cup C) \cup D = Blocks /\ (A \cup B \cup C) \cap D = {}
      /\ D \in SUBSET Blocks
  BY <1>3, <1>4
<1>6. IsFiniteSet(A) /\ IsFiniteSet(B) /\ IsFiniteSet(C) /\ IsFiniteSet(D)
  BY <1>3, <1>5, FS_Subset
<1>7. IsFiniteSet(A \cup B) /\ Cardinality(A \cup B) = Cardinality(A) + Cardinality(B)
  BY <1>3, <1>6, CountedApart
<1>8. /\ IsFiniteSet(A \cup B \cup C)
      /\ Cardinality(A \cup B \cup C) = Cardinality(A \cup B) + Cardinality(C)
  BY <1>3, <1>6, <1>7, CountedApart
<1>9. Cardinality((A \cup B \cup C) \cup D) = Cardinality(A \cup B \cup C) + Cardinality(D)
  BY <1>5, <1>6, <1>8, CountedApart
<1>10. Cardinality(A) + Cardinality(B) + Cardinality(C) + Cardinality(D)
         = Cardinality(Blocks)
  <2>1. /\ Cardinality(A) \in Nat /\ Cardinality(B) \in Nat
        /\ Cardinality(C) \in Nat /\ Cardinality(D) \in Nat
    BY <1>6, FS_CardinalityType
  <2>2. Cardinality((A \cup B \cup C) \cup D) = Cardinality(Blocks)
    BY <1>5
  <2> QED
    BY <1>7, <1>8, <1>9, <2>1, <2>2
<1>11. /\ fresh \cup live \cup List!Freeing \cup List!Listed = Blocks
       /\ List!Cardinality(fresh) + List!Cardinality(live) + List!Cardinality(List!Freeing)
            + List!Cardinality(List!Listed) = List!Cardinality(Blocks)
  BY <1>2, <1>5, <1>10, ListCardinality DEF A, B, C, D
<1> QED
  BY <1>1, <1>11 DEF List!EveryBlockOnce, List!OneHome, List!LinkInv

-----------------------------------------------------------------------------
(***************************************************************************)
(* The statistics (LatencyStats).                                          *)
(***************************************************************************)

\* The instance's cardinality and finiteness are the library's.
LEMMA StatsCardinality ==
  ASSUME NEW S
  PROVE  Stats!Cardinality(S) = Cardinality(S) /\ (Stats!IsFiniteSet(S) <=> IsFiniteSet(S))
  BY DEF Stats!Cardinality, Cardinality, Stats!IsFiniteSet, IsFiniteSet

\* A latency of n is n units.
LEMMA UnitsOfOne ==
  ASSUME NEW a, NEW n \in Nat
  PROVE  IsFiniteSet({a} \X (1 .. n)) /\ Cardinality({a} \X (1 .. n)) = n
<1>1. IsFiniteSet({a}) /\ Cardinality({a}) = 1
  BY FS_Singleton
<1>2. IsFiniteSet(1 .. n) /\ Cardinality(1 .. n) = n
  BY FS_Interval
<1>3. /\ IsFiniteSet({a} \X (1 .. n))
      /\ Cardinality({a} \X (1 .. n)) = Cardinality({a}) * Cardinality(1 .. n)
  BY <1>1, <1>2, FS_Product
<1> QED
  BY <1>1, <1>2, <1>3

\* The units of all latencies together are finitely many.
LEMMA UnitsFinite ==
  ASSUME Stats!TypeOK
  PROVE  IsFiniteSet(Stats!Units)
<1>1. MaxNs \in Nat /\ Len(added) \in Nat
  BY Benchmark2Assumption DEF Stats!StatsAssumption, Stats!TypeOK
<1>2. IsFiniteSet(1 .. Len(added)) /\ IsFiniteSet(1 .. MaxNs)
  BY <1>1, FS_Interval
<1>3. IsFiniteSet((1 .. Len(added)) \X (1 .. MaxNs))
  BY <1>2, FS_Product
<1> QED
  BY <1>3, FS_Subset DEF Stats!Units

\* The elements of a sequence.
LEMMA SequenceElements ==
  ASSUME NEW S, NEW q \in Seq(S), NEW i \in 1 .. Len(q)
  PROVE  q[i] \in S
  OBVIOUS

\* StatsInv holds before the first call of add.
LEMMA StatsInit == Stats!Init => Stats!StatsInv
<1> SUFFICES ASSUME Stats!Init PROVE Stats!StatsInv
  OBVIOUS
<1> USE DEF Stats!Init
<1>1. Stats!TypeOK /\ samples = Len(added)
  BY Benchmark2Assumption DEF Stats!StatsAssumption, Stats!TypeOK
<1>2. Stats!NotSummed = {}
  BY DEF Stats!NotSummed
<1>3. Stats!Units = {}
  BY DEF Stats!Units
<1>4. Stats!SumInv
  BY <1>2, <1>3, StatsCardinality, FS_EmptySet DEF Stats!SumInv
<1>5. Stats!MaxInv
  BY DEF Stats!MaxInv
<1> QED
  BY <1>1, <1>4, <1>5 DEF Stats!StatsInv

\* A step of add keeps the types and the number of samples.
LEMMA StatsType ==
  ASSUME Stats!TypeOK, samples = Len(added), Stats!Next
  PROVE  Stats!TypeOK' /\ samples' = Len(added')
<1> USE DEF Stats!TypeOK, Stats!At
<1>1. PICK t \in Threads : \/ \E n \in 0 .. MaxNs : Stats!AddCounts(t, n)
                           \/ Stats!AddSums(t) \/ Stats!AddLoads(t)
                           \/ Stats!AddReturns(t) \/ Stats!AddRaises(t)
                           \/ Stats!AddRetries(t)
  BY DEF Stats!Next
<1>2. ASSUME NEW n \in 0 .. MaxNs, Stats!AddCounts(t, n)
      PROVE  Stats!TypeOK' /\ samples' = Len(added')
  <2>1. added' \in Seq(0 .. MaxNs) /\ Len(added') = Len(added) + 1
    BY <1>2 DEF Stats!AddCounts
  <2> QED
    BY <1>2, <2>1 DEF Stats!AddCounts
<1>3. CASE Stats!AddSums(t)
  BY <1>3 DEF Stats!AddSums
<1>4. CASE Stats!AddLoads(t)
  BY <1>4 DEF Stats!AddLoads
<1>5. CASE Stats!AddReturns(t)
  BY <1>5 DEF Stats!AddReturns
<1>6. CASE Stats!AddRaises(t)
  BY <1>6 DEF Stats!AddRaises
<1>7. CASE Stats!AddRetries(t)
  BY <1>7 DEF Stats!AddRetries
<1> QED
  BY <1>1, <1>2, <1>3, <1>4, <1>5, <1>6, <1>7

\* A step of add keeps the sum: what is not summed up yet is counted apart.
LEMMA StatsSum ==
  ASSUME Stats!TypeOK, Stats!TypeOK', Stats!SumInv, Stats!Next
  PROVE  Stats!SumInv'
<1> DEFINE N == Stats!NotSummed
           U == Stats!Units
<1>1. PICK t \in Threads : \/ \E n \in 0 .. MaxNs : Stats!AddCounts(t, n)
                           \/ Stats!AddSums(t) \/ Stats!AddLoads(t)
                           \/ Stats!AddReturns(t) \/ Stats!AddRaises(t)
                           \/ Stats!AddRetries(t)
  BY DEF Stats!Next
<1>2. /\ IsFiniteSet(N) /\ sum_ns + Cardinality(N) = Cardinality(U)
      /\ IsFiniteSet(U) /\ Cardinality(N) \in Nat /\ Cardinality(U) \in Nat
      /\ sum_ns \in Nat /\ MaxNs \in Nat /\ Len(added) \in Nat
  BY StatsCardinality, UnitsFinite, FS_CardinalityType, Benchmark2Assumption
     DEF Stats!SumInv, Stats!TypeOK, Stats!StatsAssumption
<1>3. SUFFICES IsFiniteSet(N') /\ sum_ns' + Cardinality(N') = Cardinality(U')
  BY StatsCardinality DEF Stats!SumInv
<1>4. ASSUME NEW n \in 0 .. MaxNs, Stats!AddCounts(t, n)
      PROVE  IsFiniteSet(N') /\ sum_ns' + Cardinality(N') = Cardinality(U')
  <2> DEFINE R == {t} \X (1 .. n)
             S == {Len(added) + 1} \X (1 .. n)
  <2>1. /\ Len(added') = Len(added) + 1 /\ added'[Len(added) + 1] = n
        /\ \A i \in 1 .. Len(added) : added'[i] = added[i]
    BY <1>4 DEF Stats!AddCounts, Stats!TypeOK
  <2>2. N' = N \cup R
    <3>1. /\ pc[t] = "idle" /\ pc' = [pc EXCEPT ![t] = "sum"]
          /\ ns' = [ns EXCEPT ![t] = n]
      BY <1>4 DEF Stats!AddCounts, Stats!At
    <3>2. \A x \in Threads, k \in 1 .. MaxNs : <<x, k>> \in N' <=> <<x, k>> \in N \cup R
      <4> TAKE x \in Threads, k \in 1 .. MaxNs
      <4>1. <<x, k>> \in N <=> pc[x] = "sum" /\ k <= ns[x]
        BY DEF Stats!NotSummed
      <4>2. <<x, k>> \in N' <=> pc'[x] = "sum" /\ k <= ns'[x]
        BY DEF Stats!NotSummed
      <4>3. <<x, k>> \in R <=> x = t /\ k <= n
        BY <1>2
      <4>4. CASE x = t
        BY <3>1, <4>1, <4>2, <4>3, <4>4 DEF Stats!TypeOK
      <4>5. CASE x # t
        BY <3>1, <4>1, <4>2, <4>3, <4>5 DEF Stats!TypeOK
      <4> QED
        BY <4>4, <4>5
    <3>3. 1 .. n \subseteq 1 .. MaxNs
      BY <1>2
    <3> QED
      BY <3>2, <3>3 DEF Stats!NotSummed
  <2>3. N \cap R = {}
    BY <1>4 DEF Stats!AddCounts, Stats!At, Stats!NotSummed
  <2>4. U' = U \cup S
    <3>1. \A i \in 1 .. Len(added'), k \in 1 .. MaxNs :
            <<i, k>> \in U' <=> <<i, k>> \in U \cup S
      BY <1>2, <2>1 DEF Stats!Units
    <3>2. 1 .. n \subseteq 1 .. MaxNs /\ 1 .. Len(added) \subseteq 1 .. Len(added')
      BY <1>2, <2>1
    <3>3. Len(added) + 1 \in 1 .. Len(added')
      BY <1>2, <2>1
    <3> QED
      BY <3>1, <3>2, <3>3 DEF Stats!Units
  <2>5. U \cap S = {}
    BY <1>2 DEF Stats!Units
  <2>6. IsFiniteSet(R) /\ Cardinality(R) = n /\ IsFiniteSet(S) /\ Cardinality(S) = n
    <3>1. n \in Nat
      BY <1>2
    <3> QED
      BY <3>1, UnitsOfOne
  <2> HIDE DEF N, U, R, S
  <2>7. IsFiniteSet(N') /\ Cardinality(N') = Cardinality(N) + n
    <3>1. IsFiniteSet(N \cup R) /\ Cardinality(N \cup R) = Cardinality(N) + Cardinality(R)
      BY <1>2, <2>3, <2>6, CountedApart
    <3> QED
      BY <2>2, <2>6, <3>1
  <2>8. Cardinality(U') = Cardinality(U) + n
    <3>1. Cardinality(U \cup S) = Cardinality(U) + Cardinality(S)
      BY <1>2, <2>5, <2>6, CountedApart
    <3> QED
      BY <2>4, <2>6, <3>1
  <2>9. sum_ns' = sum_ns
    BY <1>4 DEF Stats!AddCounts
  <2> QED
    BY <1>2, <2>7, <2>8, <2>9
<1>5. CASE Stats!AddSums(t)
  <2> DEFINE R == {t} \X (1 .. ns[t])
             Rest == N \ R
  <2>1. ns[t] \in 0 .. MaxNs /\ pc[t] = "sum"
    BY <1>5 DEF Stats!AddSums, Stats!At, Stats!TypeOK
  <2>2. N' = Rest
    BY <1>5 DEF Stats!AddSums, Stats!At, Stats!NotSummed, Stats!TypeOK
  <2>3. R \subseteq N
    BY <1>2, <2>1 DEF Stats!NotSummed
  <2>4. N = Rest \cup R /\ Rest \cap R = {}
    BY <2>3
  <2>5. IsFiniteSet(R) /\ Cardinality(R) = ns[t]
    <3>1. ns[t] \in Nat
      BY <1>2, <2>1
    <3> QED
      BY <3>1, UnitsOfOne
  <2>6. U' = U /\ sum_ns' = sum_ns + ns[t]
    BY <1>5 DEF Stats!AddSums, Stats!Units
  <2>7. IsFiniteSet(Rest)
    BY <1>2, FS_Subset
  <2> HIDE DEF N, U, R, Rest
  <2>8. Cardinality(N) = Cardinality(Rest) + ns[t] /\ Cardinality(Rest) \in Nat
    BY <2>4, <2>5, <2>7, CountedApart, FS_CardinalityType
  <2> QED
    BY <1>2, <2>1, <2>2, <2>6, <2>7, <2>8
<1>6. CASE Stats!AddLoads(t) \/ Stats!AddReturns(t) \/ Stats!AddRaises(t) \/ Stats!AddRetries(t)
  <2>1. UNCHANGED <<ns, added, sum_ns>> /\ \A x \in Threads : pc'[x] = "sum" <=> pc[x] = "sum"
    BY <1>6 DEF Stats!AddLoads, Stats!AddReturns, Stats!AddRaises, Stats!AddRetries,
                Stats!At, Stats!TypeOK
  <2>2. N' = N /\ U' = U
    BY <2>1 DEF Stats!NotSummed, Stats!Units
  <2> HIDE DEF N, U
  <2> QED
    BY <1>2, <2>1, <2>2
<1> QED
  BY <1>1, <1>4, <1>5, <1>6

\* A step of add keeps what is known of the maximum.
LEMMA StatsMax ==
  ASSUME Stats!TypeOK, Stats!MaxInv, Stats!Next
  PROVE  Stats!MaxInv'
<1> USE DEF Stats!TypeOK, Stats!At, Stats!MaxInv
<1>1. PICK t \in Threads : \/ \E n \in 0 .. MaxNs : Stats!AddCounts(t, n)
                           \/ Stats!AddSums(t) \/ Stats!AddLoads(t)
                           \/ Stats!AddReturns(t) \/ Stats!AddRaises(t)
                           \/ Stats!AddRetries(t)
  BY DEF Stats!Next
<1>2. ASSUME NEW n \in 0 .. MaxNs, Stats!AddCounts(t, n)
      PROVE  Stats!MaxInv'
  <2>1. /\ Len(added) \in Nat /\ Len(added') = Len(added) + 1
        /\ added'[Len(added) + 1] = n
        /\ \A i \in 1 .. Len(added) : added'[i] = added[i]
    BY <1>2 DEF Stats!AddCounts
  <2>2. /\ UNCHANGED <<max_ns, cur>> /\ pc[t] = "idle"
        /\ pc' = [pc EXCEPT ![t] = "sum"] /\ ns' = [ns EXCEPT ![t] = n]
    BY <1>2 DEF Stats!AddCounts
  <2>3. \A i \in 1 .. Len(added') : i \in 1 .. Len(added) \/ i = Len(added) + 1
    BY <2>1
  <2>4. /\ Len(added) + 1 \in 1 .. Len(added')
        /\ \A i \in 1 .. Len(added) : i \in 1 .. Len(added')
    BY <2>1
  <2>5. \A i \in 1 .. Len(added') :
          \/ added'[i] <= max_ns'
          \/ \E x \in Threads : pc'[x] # "idle" /\ ns'[x] = added'[i]
    BY <2>1, <2>2, <2>3
  <2>6. \A x \in Threads :
          /\ pc'[x] # "idle" => \E i \in 1 .. Len(added') : added'[i] = ns'[x]
          /\ pc'[x] = "raise" => cur'[x] <= max_ns'
    BY <2>1, <2>2, <2>4
  <2>7. max_ns' # 0 => \E i \in 1 .. Len(added') : added'[i] = max_ns'
    BY <2>1, <2>2, <2>4
  <2> QED
    BY <2>5, <2>6, <2>7
<1>3. CASE Stats!AddSums(t)
  BY <1>3 DEF Stats!AddSums
<1>4. CASE Stats!AddLoads(t)
  BY <1>4 DEF Stats!AddLoads
<1>5. CASE Stats!AddReturns(t)
  <2>1. /\ ns[t] <= max_ns /\ UNCHANGED <<max_ns, ns, cur, added>>
        /\ pc' = [pc EXCEPT ![t] = "idle"]
    BY <1>5 DEF Stats!AddReturns
  <2>2. \A i \in 1 .. Len(added) :
          \/ added[i] <= max_ns
          \/ \E x \in Threads : pc'[x] # "idle" /\ ns[x] = added[i]
    BY <2>1
  <2> QED
    BY <2>1, <2>2
<1>6. CASE Stats!AddRaises(t)
  <2>1. /\ max_ns < ns[t] /\ max_ns' = ns[t] /\ UNCHANGED <<ns, cur, added>>
        /\ pc[t] = "raise" /\ pc' = [pc EXCEPT ![t] = "idle"]
    BY <1>6 DEF Stats!AddRaises
  <2>2. \A i \in 1 .. Len(added) : added[i] \in 0 .. MaxNs
    BY SequenceElements
  <2>3. ASSUME NEW i \in 1 .. Len(added), ~(added[i] <= max_ns')
        PROVE  \E x \in Threads : pc'[x] # "idle" /\ ns[x] = added[i]
    <3>1. PICK x \in Threads : pc[x] # "idle" /\ ns[x] = added[i]
      BY <2>1, <2>2, <2>3
    <3>2. x # t
      BY <2>1, <2>2, <2>3, <3>1
    <3> QED
      BY <2>1, <3>1, <3>2
  <2>4. \A x \in Threads :
          /\ pc'[x] # "idle" => \E i \in 1 .. Len(added) : added[i] = ns[x]
          /\ pc'[x] = "raise" => cur[x] <= max_ns'
    BY <2>1
  <2>5. \E i \in 1 .. Len(added) : added[i] = max_ns'
    BY <2>1
  <2> QED
    BY <2>1, <2>3, <2>4, <2>5
<1>7. CASE Stats!AddRetries(t)
  BY <1>7 DEF Stats!AddRetries
<1> QED
  BY <1>1, <1>2, <1>3, <1>4, <1>5, <1>6, <1>7

\* StatsInv is inductive.
LEMMA StatsStepInv ==
  Stats!StatsInv /\ (Stats!Next \/ UNCHANGED Stats!vars) => Stats!StatsInv'
<1> USE DEF Stats!StatsInv
<1>1. Stats!StatsInv /\ Stats!Next => Stats!StatsInv'
  BY StatsType, StatsSum, StatsMax
<1>2. Stats!StatsInv /\ UNCHANGED Stats!vars => Stats!StatsInv'
  BY DEF Stats!vars, Stats!TypeOK, Stats!SumInv, Stats!MaxInv, Stats!NotSummed, Stats!Units
<1> QED
  BY <1>1, <1>2

\* It gives the exact statistics when no call of add is under way.
LEMMA StatsExact ==
  ASSUME Stats!StatsInv
  PROVE  Stats!StatsAreExact
<1> SUFFICES ASSUME \A t \in Threads : pc[t] = "idle"
             PROVE  /\ samples = Len(added)
                    /\ sum_ns = Cardinality(Stats!Units)
                    /\ \A i \in 1 .. Len(added) : added[i] <= max_ns
                    /\ max_ns # 0 => \E i \in 1 .. Len(added) : added[i] = max_ns
  BY StatsCardinality DEF Stats!StatsAreExact
<1>1. Stats!NotSummed = {}
  BY DEF Stats!NotSummed
<1>2. Cardinality(Stats!NotSummed) = 0
  BY <1>1, FS_EmptySet
<1>3. sum_ns + Cardinality(Stats!NotSummed) = Cardinality(Stats!Units) /\ sum_ns \in Nat
  BY StatsCardinality DEF Stats!StatsInv, Stats!SumInv, Stats!TypeOK
<1>4. sum_ns = Cardinality(Stats!Units)
  BY <1>2, <1>3
<1> QED
  BY <1>4 DEF Stats!StatsInv, Stats!MaxInv

-----------------------------------------------------------------------------
(***************************************************************************)
(* The two parts in the benchmark.                                         *)
(***************************************************************************)
SharedInv ==
  /\ part = "pool" => List!FreeListInv
  /\ part = "statistics" => Stats!StatsInv

\* The inductive invariants hold at the start of their parts.
LEMMA SharedInit == BenchInit => SharedInv
  BY PoolInit, StatsInit DEF BenchInit, SharedInv

\* A step of the benchmark is one of the part that runs.
LEMMA SharedStep == SharedInv /\ [BenchNext]_allVars => SharedInv'
<1> SUFFICES ASSUME SharedInv, [BenchNext]_allVars PROVE SharedInv'
  OBVIOUS
<1> USE DEF SharedInv
<1>1. CASE \/ \E t \in Threads : AtomThread(t)
           \/ AtomTimer \/ AtomStop
           \/ \E w \in Urcu!WriterIds : UrcuWriter(w)
           \/ \E r \in Urcu!ReaderIds : UrcuReader(r)
           \/ UrcuCallback \/ UrcuTimer \/ UrcuMain
  BY <1>1 DEF AtomThread, AtomTimer, AtomStop, AtomFrame, UrcuWriter, UrcuReader,
              UrcuCallback, UrcuTimer, UrcuMain, UrcuFrame
<1>2. CASE ListStep
  <2>1. part = "pool" /\ part' = part /\ List!Next
    BY <1>2 DEF ListStep
  <2> QED
    BY <2>1, PoolStep
<1>3. CASE StatsStep
  <2>1. part = "statistics" /\ part' = part /\ Stats!Next
    BY <1>3 DEF StatsStep
  <2> QED
    BY <2>1, StatsStepInv
<1>4. CASE UNCHANGED allVars
  <2>1. part' = part
    BY <1>4 DEF allVars
  <2>2. UNCHANGED List!vars
    BY <1>4 DEF allVars, listVars, List!vars
  <2>3. UNCHANGED Stats!vars
    BY <1>4 DEF allVars, statsVars, Stats!vars
  <2> QED
    BY <2>1, <2>2, <2>3, PoolStep, StatsStepInv
<1> QED
  BY <1>1, <1>2, <1>3, <1>4 DEF BenchNext

\* The inductive invariants of the parts always hold.
LEMMA SharedAlways == BenchSpec => []SharedInv
  BY SharedInit, SharedStep, PTL DEF BenchSpec

(***************************************************************************)
(* In TaggedPoolAllocator's free list a CAS that finds the word it loaded  *)
(* changed meanwhile finds it T changes older: the tag makes every word of *)
(* the last T differ.                                                      *)
(***************************************************************************)
THEOREM PoolWordIsFresh == BenchSpec => []StaleWordDiffers
<1>1. SharedInv => StaleWordDiffers
  BY PoolStale DEF SharedInv, StaleWordDiffers
<1> QED
  BY <1>1, SharedAlways, PTL

(***************************************************************************)
(* alloc() and free() of the pool neither lose a block nor hand one out    *)
(* twice, whatever the number of threads and blocks, as long as no CAS     *)
(* slept through T changes of head_.                                       *)
(***************************************************************************)
THEOREM PoolKeepsBlocks == BenchSpec => []EveryBlockOnce
<1>1. SharedInv => EveryBlockOnce
  BY PoolEveryBlockOnce DEF SharedInv, EveryBlockOnce, List!FreeListInv
<1> QED
  BY <1>1, SharedAlways, PTL

(***************************************************************************)
(* LatencyStats reports the number, the sum and the maximum of what was    *)
(* added: no update of the three atomics is lost.                          *)
(***************************************************************************)
THEOREM StatisticsAreExact == BenchSpec => []StatsAreExact
<1>1. SharedInv => StatsAreExact
  BY StatsExact DEF SharedInv, StatsAreExact
<1> QED
  BY <1>1, SharedAlways, PTL
=============================================================================
