-------------------------- MODULE LinkedListProofs --------------------------
(***************************************************************************)
(* What the free lists' proofs use of linked lists: counting by numbering, *)
(* the least of a set of numbers, and what Reach finds on a list.          *)
(***************************************************************************)
EXTENDS LinkedList, FiniteSetTheorems, TLAPS

\* The provers, in the order in which they try each step.
USE SMT, Zenon, SMTT(60)

(***************************************************************************)
(* What the links of a list lead to: its elements, as many as the rank of  *)
(* the first.                                                              *)
(***************************************************************************)

(***************************************************************************)
(* A set whose elements are numbered from 1 to n has n elements.           *)
(***************************************************************************)
LEMMA CountedBy ==
  ASSUME NEW S, NEW n \in Nat, NEW f \in [1 .. n -> S],
         \A k, l \in 1 .. n : f[k] = f[l] => k = l,
         \A x \in S : \E k \in 1 .. n : f[k] = x
  PROVE  IsFiniteSet(S) /\ Cardinality(S) = n
<1>1. f \in Bijection(1 .. n, S)
  BY DEF Bijection, Injection, Surjection, IsInjective
<1>2. IsFiniteSet(1 .. n) /\ Cardinality(1 .. n) = n
  BY FS_Interval
<1>3. ExistsBijection(1 .. n, S)
  BY <1>1 DEF ExistsBijection
<1> QED
  BY <1>2, <1>3, FS_Bijection

(***************************************************************************)
(* Two sets without a common element count together what they count each.  *)
(***************************************************************************)
LEMMA CountedApart ==
  ASSUME NEW S, NEW R, IsFiniteSet(S), IsFiniteSet(R), S \cap R = {}
  PROVE  IsFiniteSet(S \cup R) /\ Cardinality(S \cup R) = Cardinality(S) + Cardinality(R)
<1>1. Cardinality(S \cap R) = 0
  BY FS_EmptySet
<1>2. /\ IsFiniteSet(S \cup R)
      /\ Cardinality(S \cup R) = Cardinality(S) + Cardinality(R) - Cardinality(S \cap R)
  BY FS_Union
<1>3. Cardinality(S) \in Nat /\ Cardinality(R) \in Nat
  BY FS_CardinalityType
<1> QED
  BY <1>1, <1>2, <1>3

(***************************************************************************)
(* A set of natural numbers has a least element.                           *)
(***************************************************************************)
LEMMA LeastNat ==
  ASSUME NEW S \in SUBSET Nat, S # {}
  PROVE  \E x \in S : \A y \in S : x <= y
<1> DEFINE R == OpToRel(<, Nat)
<1>1. IsWellFoundedOn(R, Nat)
  BY NatLessThanWellFounded
<1>2. \A x, y \in Nat : x < y => <<x, y>> \in R
  BY DEF OpToRel
<1> HIDE DEF R
<1>3. PICK x \in S : \A y \in S : ~(<<y, x>> \in R)
  BY <1>1, WFMin
<1>4. ASSUME NEW y \in S PROVE x <= y
  <2>1. ~(y < x)
    BY <1>2, <1>3
  <2> QED
    BY <2>1
<1> QED
  BY <1>4

(***************************************************************************)
(* One step of Reach: what is reached in n links, given what is reached in *)
(* fewer.                                                                  *)
(***************************************************************************)
StepOf(g, h, after, nodes, n) ==
  IF n = 0 THEN {h}
  ELSE g[n - 1] \cup {after[x] : x \in g[n - 1] \cap nodes}

(***************************************************************************)
(* A function that satisfies the equation of Reach is what Reach computes. *)
(***************************************************************************)
LEMMA ReachUnfolds ==
  ASSUME NEW h, NEW after, NEW nodes, Cardinality(nodes) \in Nat, NEW g,
         g = [n \in 0 .. Cardinality(nodes) |-> g[n]],
         \A n \in 0 .. Cardinality(nodes) : g[n] = StepOf(g, h, after, nodes, n)
  PROVE  Reach(h, after, nodes) = g[Cardinality(nodes)]
<1> DEFINE D == 0 .. Cardinality(nodes)
           reach == CHOOSE f : f = [n \in D |-> StepOf(f, h, after, nodes, n)]
<1>1. Reach(h, after, nodes) = reach[Cardinality(nodes)]
  BY DEF Reach, StepOf
<1>2. reach = [n \in D |-> StepOf(reach, h, after, nodes, n)]
  <2>1. g = [n \in D |-> StepOf(g, h, after, nodes, n)]
    BY Zenon
  <2> QED
    BY <2>1, Zenon
<1> HIDE DEF reach
<1>3. ASSUME NEW n \in D, reach[n] # g[n] PROVE FALSE
  <2> DEFINE S == {m \in D : reach[m] # g[m]}
  <2>1. S \in SUBSET Nat
    OBVIOUS
  <2>2. S # {}
    BY <1>3, Zenon
  <2>3. PICK m \in S : \A k \in S : m <= k
    BY <2>1, <2>2, LeastNat
  <2>4. m \in D /\ reach[m] # g[m]
    OBVIOUS
  <2>5. m # 0
    BY <1>2, <2>4 DEF StepOf
  <2>6. m - 1 \in D /\ ~(m <= m - 1)
    BY <2>4, <2>5
  <2>7. reach[m - 1] = g[m - 1]
    BY <2>3, <2>6
  <2>8. reach[m] = g[m]
    BY <1>2, <2>4, <2>5, <2>7, Zenon DEF StepOf
  <2> QED
    BY <2>4, <2>8
<1> QED
  BY <1>1, <1>3

(***************************************************************************)
(* Every rank up to that of the first element is the rank of an element.   *)
(***************************************************************************)
LEMMA RanksAreUsed ==
  ASSUME NEW nodes, NEW after, NEW L, NEW h, NEW rank,
         rank[h] \in Nat, IsList(L, h, rank, after, nodes),
         NEW n \in 1 .. rank[h]
  PROVE  \E x \in L : rank[x] = n
<1> SUFFICES ASSUME ~\E x \in L : rank[x] = n PROVE FALSE
  OBVIOUS
<1> DEFINE S == {d \in 0 .. rank[h] - 1 : ~\E x \in L : rank[x] = rank[h] - d}
<1>1. S \in SUBSET Nat
  OBVIOUS
<1>2. rank[h] - n \in S
  <2>1. rank[h] - n \in 0 .. rank[h] - 1 /\ rank[h] - (rank[h] - n) = n
    OBVIOUS
  <2> QED
    BY <2>1, Zenon
<1>3. PICK d \in S : \A k \in S : d <= k
  BY <1>1, <1>2, LeastNat
<1>4. d \in 0 .. rank[h] - 1 /\ ~\E x \in L : rank[x] = rank[h] - d
  OBVIOUS
<1>5. d # 0
  BY <1>4 DEF IsList
<1>6. d - 1 \in 0 .. rank[h] - 1 /\ ~(d <= d - 1)
  BY <1>4, <1>5
<1>7. d - 1 \notin S
  BY <1>3, <1>6
<1>8. PICK x \in L : rank[x] = rank[h] - (d - 1)
  BY <1>6, <1>7
<1>9. after[x] \in L /\ rank[after[x]] = rank[h] - d
  BY <1>4, <1>5, <1>8 DEF IsList
<1> QED
  BY <1>4, <1>9

(***************************************************************************)
(* A list has as many elements as the rank of the first one says.          *)
(***************************************************************************)
LEMMA ListLength ==
  ASSUME NEW nodes, NEW after, NEW L, NEW h, NEW rank,
         rank[h] \in Nat, IsList(L, h, rank, after, nodes)
  PROVE  IsFiniteSet(L) /\ Cardinality(L) = rank[h]
<1> DEFINE f == [n \in 1 .. rank[h] |-> CHOOSE x \in L : rank[x] = n]
<1>1. \A n \in 1 .. rank[h] : f[n] \in L /\ rank[f[n]] = n
  BY RanksAreUsed
<1>2. f \in [1 .. rank[h] -> L] /\ \A k, l \in 1 .. rank[h] : f[k] = f[l] => k = l
  BY <1>1
<1>3. \A x \in L : rank[x] \in 1 .. rank[h] /\ f[rank[x]] = x
  BY <1>1 DEF IsList
<1>4. \A x \in L : \E k \in 1 .. rank[h] : f[k] = x
  BY <1>3
<1>5. PICK m \in Nat : m = rank[h]
  OBVIOUS
<1> HIDE DEF f
<1>6. PICK g \in [1 .. m -> L] : g = f
  BY <1>2, <1>5
<1>7. /\ \A k, l \in 1 .. m : g[k] = g[l] => k = l
      /\ \A x \in L : \E k \in 1 .. m : g[k] = x
  BY <1>2, <1>4, <1>5, <1>6
<1>8. IsFiniteSet(L) /\ Cardinality(L) = m
  BY <1>7, CountedBy
<1> QED
  BY <1>5, <1>8

(***************************************************************************)
(* A list that consists of some of finitely many nodes.                    *)
(***************************************************************************)
ListAmong(nodes, L, h, rank, after) ==
  /\ IsFiniteSet(nodes) /\ L \in SUBSET nodes
  /\ rank[h] \in Nat /\ IsList(L, h, rank, after, nodes)

(***************************************************************************)
(* Reach finds the elements of a list, and what ends it.                   *)
(***************************************************************************)
LEMMA ReachOfList ==
  ASSUME NEW nodes, NEW L, NEW h, NEW rank, NEW after, ListAmong(nodes, L, h, rank, after)
  PROVE  \A z : z \in Reach(h, after, nodes) <=> z \in L \/ \E x \in L : z = after[x]
<1> DEFINE c == Cardinality(nodes)
           In(n) == {x \in L : rank[x] + n >= rank[h]}
           Out(n) == {x \in L : rank[x] + n > rank[h]}
           g == [n \in 0 .. c |-> In(n) \cup {after[x] : x \in Out(n)}]
<1> /\ IsFiniteSet(nodes) /\ L \in SUBSET nodes
    /\ rank[h] \in Nat /\ IsList(L, h, rank, after, nodes)
  BY DEF ListAmong
<1>1. c \in Nat /\ rank[h] <= c
  <2>1. Cardinality(L) = rank[h]
    BY ListLength
  <2> QED
    BY <2>1, FS_Subset, FS_CardinalityType
<1>2. \A x \in L : rank[x] \in 1 .. rank[h]
  BY DEF IsList
<1>3. ASSUME NEW n \in 0 .. c PROVE g[n] = StepOf(g, h, after, nodes, n)
  <2>1. CASE n = 0
    <3>1. In(0) = {h}
      BY <1>2 DEF IsList
    <3>2. Out(0) = {}
      BY <1>2
    <3>3. g[0] = In(0) \cup {after[x] : x \in Out(0)}
      BY <1>1
    <3> QED
      BY <2>1, <3>1, <3>2, <3>3 DEF StepOf
  <2>2. CASE n # 0
    <3>1. n - 1 \in 0 .. c
      BY <1>1, <2>2
    <3>2. In(n - 1) = Out(n)
      BY <1>1, <1>2
    <3>3. ASSUME NEW x \in Out(n - 1), after[x] \in nodes
          PROVE  after[x] \in In(n - 1)
      BY <1>1, <1>2, <3>3 DEF IsList
    <3>4. g[n - 1] \cap nodes = Out(n)
      BY <3>1, <3>2, <3>3
    <3>5. ASSUME NEW x \in In(n), x \notin Out(n)
          PROVE  x \in {after[y] : y \in Out(n)}
      <4>1. rank[x] + n = rank[h] /\ x \in L
        BY <1>1, <1>2, <3>5
      <4>2. PICK y \in L : rank[y] = rank[x] + 1
        BY <1>1, <1>2, <2>2, <4>1, RanksAreUsed
      <4>3. after[y] \in L /\ rank[after[y]] = rank[x]
        BY <1>2, <4>1, <4>2 DEF IsList
      <4>4. after[y] = x
        BY <4>1, <4>3 DEF IsList
      <4>5. y \in Out(n)
        BY <1>1, <1>2, <4>1, <4>2
      <4> QED
        BY <4>4, <4>5
    <3>6. Out(n) \subseteq In(n) /\ Out(n - 1) \subseteq Out(n)
      BY <1>1, <1>2
    <3>7. g[n - 1] = In(n - 1) \cup {after[x] : x \in Out(n - 1)}
      BY <3>1
    <3>8. g[n] = In(n) \cup {after[x] : x \in Out(n)}
      OBVIOUS
    <3> HIDE DEF In, Out, g
    <3>9. g[n] = g[n - 1] \cup {after[x] : x \in Out(n)}
      BY <3>2, <3>5, <3>6, <3>7, <3>8
    <3> QED
      BY <2>2, <3>4, <3>9 DEF StepOf
  <2> QED
    BY <2>1, <2>2
<1>4. g = [n \in 0 .. c |-> g[n]]
  OBVIOUS
<1>5. In(c) = L /\ Out(c) = L
  BY <1>1, <1>2
<1>6. g[c] = L \cup {after[x] : x \in L}
  BY <1>1, <1>5
<1> HIDE DEF g
<1>7. Reach(h, after, nodes) = g[c]
  BY <1>1, <1>3, <1>4, ReachUnfolds
<1> QED
  BY <1>6, <1>7

(***************************************************************************)
(* The nodes that Reach finds are the elements of the list.                *)
(***************************************************************************)
COROLLARY ReachedNodes ==
  ASSUME NEW nodes, IsFiniteSet(nodes), NEW after, NEW L \in SUBSET nodes, NEW h,
         NEW rank, rank[h] \in Nat, IsList(L, h, rank, after, nodes)
  PROVE  Reach(h, after, nodes) \cap nodes = L
<1>1. \A z : z \in Reach(h, after, nodes) <=> z \in L \/ \E x \in L : z = after[x]
  <2>1. ListAmong(nodes, L, h, rank, after)
    BY DEF ListAmong
  <2> QED
    BY <2>1, ReachOfList
<1>2. \A x \in L : after[x] \in nodes => after[x] \in L
  BY DEF IsList
<1> QED
  BY <1>1, <1>2

(***************************************************************************)
(* If the list ends with null, nothing but its elements and null is found. *)
(***************************************************************************)
COROLLARY ReachedWords ==
  ASSUME NEW nodes, IsFiniteSet(nodes), NEW after, NEW L \in SUBSET nodes, NEW h,
         NEW rank, rank[h] \in Nat, IsList(L, h, rank, after, nodes),
         NEW null, null \notin nodes, \A x \in L : rank[x] = 1 => after[x] = null
  PROVE  Reach(h, after, nodes) \ {null} = L
<1>1. \A z : z \in Reach(h, after, nodes) <=> z \in L \/ \E x \in L : z = after[x]
  <2>1. ListAmong(nodes, L, h, rank, after)
    BY DEF ListAmong
  <2> QED
    BY <2>1, ReachOfList
<1>2. \A x \in L : after[x] \in L \/ after[x] = null
  BY DEF IsList
<1> QED
  BY <1>1, <1>2

(***************************************************************************)
(* From any element of a list, as many nodes are reached as its rank says. *)
(***************************************************************************)
COROLLARY RankIsLength ==
  ASSUME NEW nodes, IsFiniteSet(nodes), NEW after, NEW L \in SUBSET nodes, NEW h,
         NEW rank, rank[h] \in Nat, IsList(L, h, rank, after, nodes), NEW g \in L
  PROVE  Cardinality(Reach(g, after, nodes) \cap nodes) = rank[g]
<1> DEFINE T == {x \in L : rank[x] <= rank[g]}
<1>1. rank[g] \in Nat /\ \A x \in L : rank[x] \in 1 .. rank[h]
  BY DEF IsList
<1>2. g \in T /\ T \in SUBSET nodes
  BY <1>1
<1>3. ASSUME NEW x \in T
      PROVE  /\ rank[x] \in 1 .. rank[g]
             /\ rank[x] = 1 => after[x] \notin nodes
             /\ rank[x] > 1 => after[x] \in T /\ rank[after[x]] = rank[x] - 1
             /\ \A y \in T : rank[x] = rank[y] => x = y
  <2>1. x \in L /\ rank[x] \in 1 .. rank[h] /\ rank[x] <= rank[g]
    BY <1>1
  <2>2. rank[x] > 1 => after[x] \in L /\ rank[after[x]] = rank[x] - 1
    BY <2>1 DEF IsList
  <2> QED
    BY <1>1, <2>1, <2>2 DEF IsList
<1>4. IsList(T, g, rank, after, nodes)
  BY <1>2, <1>3 DEF IsList
<1> HIDE DEF T
<1>5. Reach(g, after, nodes) \cap nodes = T
  BY <1>1, <1>2, <1>4, ReachedNodes
<1>6. Cardinality(T) = rank[g]
  BY <1>1, <1>4, ListLength
<1> QED
  BY <1>5, <1>6

(***************************************************************************)
(* The steps of a free list: a node is pushed, the first one is popped, and *)
(* what is done to other nodes does not matter.                             *)
(***************************************************************************)

(***************************************************************************)
(* No rank is greater than the number of nodes in the list.                *)
(***************************************************************************)
LEMMA StackRank ==
  ASSUME NEW nodes, NEW null, NEW after, NEW L \in SUBSET nodes, NEW h,
         NEW rank \in [nodes -> Nat], IsStack(L, h, rank, after, nodes, null), h # null
  PROVE  IsFiniteSet(L) /\ Cardinality(L) = rank[h]
<1>1. IsList(L, h, rank, after, nodes)
  BY DEF IsStack
<1>2. rank[h] \in Nat
  BY <1>1 DEF IsList
<1> QED
  BY <1>1, <1>2, ListLength

(***************************************************************************)
(* A node that links to the first one becomes the first one.               *)
(***************************************************************************)
LEMMA StackPush ==
  ASSUME NEW nodes, IsFiniteSet(nodes), NEW null, null \notin nodes, NEW after,
         NEW L \in SUBSET nodes, NEW h, NEW rank \in [nodes -> 1 .. Cardinality(nodes)],
         IsStack(L, h, rank, after, nodes, null), NEW n \in nodes, n \notin L, after[n] = h
  PROVE  \E r \in [nodes -> 1 .. Cardinality(nodes)] :
           /\ IsStack(L \cup {n}, n, r, after, nodes, null)
           /\ \A x \in nodes \ {n} : r[x] = rank[x]
<1>1. /\ Cardinality(nodes) \in Nat /\ Cardinality(nodes) >= 1
      /\ rank \in [nodes -> Nat] /\ n # null
  <2>1. Cardinality(nodes) \in Nat /\ Cardinality(nodes) # 0
    BY FS_CardinalityType, FS_EmptySet
  <2> QED
    BY <2>1
<1>2. CASE h = null
  <2> DEFINE r == [rank EXCEPT ![n] = 1]
  <2>1. L \cup {n} = {n} /\ r[n] = 1 /\ r \in [nodes -> 1 .. Cardinality(nodes)]
    BY <1>1, <1>2 DEF IsStack
  <2>2. IsList({n}, n, r, after, nodes)
    BY <1>2, <2>1 DEF IsList
  <2>3. IsStack(L \cup {n}, n, r, after, nodes, null)
    BY <1>1, <1>2, <2>1, <2>2 DEF IsStack
  <2>4. \A x \in nodes \ {n} : r[x] = rank[x]
    OBVIOUS
  <2> QED
    BY <2>1, <2>3, <2>4
<1>3. CASE h # null
  <2> DEFINE r == [rank EXCEPT ![n] = rank[h] + 1]
  <2>1. IsList(L, h, rank, after, nodes) /\ \A x \in L : rank[x] = 1 => after[x] = null
    BY <1>3 DEF IsStack
  <2>2. h \in L /\ rank[h] \in Nat /\ rank[h] >= 1
    BY <1>1, <2>1 DEF IsList
  <2>3. rank[h] + 1 <= Cardinality(nodes)
    <3>1. IsFiniteSet(L) /\ Cardinality(L) = rank[h]
      BY <1>1, <1>3, StackRank
    <3>2. Cardinality(L \cup {n}) = rank[h] + 1
      BY <3>1, FS_AddElement
    <3>3. L \cup {n} \in SUBSET nodes
      OBVIOUS
    <3> QED
      BY <3>2, <3>3, FS_Subset
  <2>4. /\ r \in [nodes -> 1 .. Cardinality(nodes)] /\ r[n] = rank[h] + 1
        /\ \A x \in nodes \ {n} : r[x] = rank[x]
        /\ \A x \in L : r[x] = rank[x]
    BY <1>1, <2>2, <2>3
  <2>5. ASSUME NEW x \in L
        PROVE  /\ r[x] \in 1 .. rank[h] + 1 /\ r[x] # rank[h] + 1
               /\ r[x] = 1 => after[x] \notin nodes /\ after[x] = null
               /\ r[x] > 1 => after[x] \in L /\ r[after[x]] = r[x] - 1
               /\ \A y \in L : r[x] = r[y] => x = y
    <3>1. rank[x] \in 1 .. rank[h]
      BY <2>1 DEF IsList
    <3> QED
      BY <2>1, <2>2, <2>4, <3>1 DEF IsList
  <2> HIDE DEF r
  <2>6. IsList(L \cup {n}, n, r, after, nodes)
    BY <2>2, <2>4, <2>5 DEF IsList
  <2>7. \A x \in L \cup {n} : r[x] = 1 => after[x] = null
    BY <2>2, <2>4, <2>5
  <2>8. IsStack(L \cup {n}, n, r, after, nodes, null)
    BY <1>1, <2>6, <2>7 DEF IsStack
  <2> QED
    BY <2>4, <2>8
<1> QED
  BY <1>2, <1>3

(***************************************************************************)
(* Without the first node, the list begins with the one it links to.       *)
(***************************************************************************)
LEMMA StackPop ==
  ASSUME NEW nodes, NEW null, null \notin nodes, NEW after, NEW L \in SUBSET nodes, NEW h,
         NEW rank \in [nodes -> Nat], IsStack(L, h, rank, after, nodes, null), h # null
  PROVE  h \in L /\ IsStack(L \ {h}, after[h], rank, after, nodes, null)
<1>1. IsList(L, h, rank, after, nodes) /\ \A x \in L : rank[x] = 1 => after[x] = null
  BY DEF IsStack
<1>2. h \in L /\ rank[h] \in Nat /\ rank[h] >= 1 /\ \A x \in L : rank[x] \in 1 .. rank[h]
  BY <1>1 DEF IsList
<1>3. \A x \in L : rank[x] = rank[h] => x = h
  BY <1>1, <1>2 DEF IsList
<1>4. CASE rank[h] = 1
  <2>1. after[h] = null
    BY <1>1, <1>2, <1>4
  <2>2. \A x \in L : x = h
    BY <1>2, <1>3, <1>4
  <2> QED
    BY <1>2, <2>1, <2>2 DEF IsStack
<1>5. CASE rank[h] > 1
  <2>1. after[h] \in L /\ rank[after[h]] = rank[h] - 1 /\ after[h] # h /\ after[h] # null
    BY <1>1, <1>2, <1>5 DEF IsList
  <2>2. ASSUME NEW x \in L \ {h}
        PROVE  /\ rank[x] \in 1 .. rank[h] - 1
               /\ rank[x] = 1 => after[x] \notin nodes
               /\ rank[x] > 1 => after[x] \in L /\ after[x] # h /\ rank[after[x]] = rank[x] - 1
               /\ \A y \in L : rank[x] = rank[y] => x = y
    <3>1. rank[x] \in 1 .. rank[h] /\ rank[x] # rank[h]
      BY <1>2, <1>3
    <3>2. rank[x] > 1 => after[x] \in L /\ rank[after[x]] = rank[x] - 1
      BY <1>1 DEF IsList
    <3>3. rank[x] > 1 => after[x] # h
      BY <1>2, <3>1, <3>2
    <3> QED
      BY <1>1, <1>2, <3>1, <3>2, <3>3 DEF IsList
  <2>3. IsList(L \ {h}, after[h], rank, after, nodes)
    BY <2>1, <2>2 DEF IsList
  <2> QED
    BY <1>1, <1>2, <2>1, <2>3 DEF IsStack
<1> QED
  BY <1>2, <1>4, <1>5

(***************************************************************************)
(* A list is what it was as long as its own links and ranks are.           *)
(***************************************************************************)
LEMMA StackFrame ==
  ASSUME NEW nodes, NEW null, NEW after, NEW L, NEW h, NEW rank,
         IsStack(L, h, rank, after, nodes, null),
         NEW after2, NEW rank2,
         \A x \in L : after2[x] = after[x] /\ rank2[x] = rank[x]
  PROVE  IsStack(L, h, rank2, after2, nodes, null)
<1>1. CASE h = null
  BY <1>1 DEF IsStack
<1>2. CASE h # null
  <2>1. IsList(L, h, rank, after, nodes) /\ \A x \in L : rank[x] = 1 => after[x] = null
    BY <1>2 DEF IsStack
  <2>2. IsList(L, h, rank2, after2, nodes)
    BY <2>1 DEF IsList
  <2> QED
    BY <1>2, <2>1, <2>2 DEF IsStack
<1> QED
  BY <1>1, <1>2

(***************************************************************************)
(* From its first node, the links of a list lead to its nodes.             *)
(***************************************************************************)
LEMMA StackReach ==
  ASSUME NEW nodes, IsFiniteSet(nodes), NEW null, null \notin nodes, NEW after,
         NEW L \in SUBSET nodes, NEW h,
         NEW rank \in [nodes -> Nat], IsStack(L, h, rank, after, nodes, null)
  PROVE  Reach(h, after, nodes) \ {null} = L
<1>1. CASE h = null
  <2> DEFINE c == Cardinality(nodes)
             g == [n \in 0 .. c |-> {h}]
  <2>1. c \in Nat
    BY FS_CardinalityType
  <2>2. \A n \in 0 .. c : g[n] = StepOf(g, h, after, nodes, n)
    <3> TAKE n \in 0 .. c
    <3>1. n # 0 => n - 1 \in 0 .. c
      BY <2>1
    <3>2. n # 0 => g[n - 1] \cap nodes = {}
      BY <1>1, <3>1
    <3> QED
      BY <3>1, <3>2 DEF StepOf
  <2>3. g = [n \in 0 .. c |-> g[n]] /\ g[c] = {h}
    BY <2>1
  <2> HIDE DEF g
  <2>4. Reach(h, after, nodes) = {h}
    BY <2>1, <2>2, <2>3, ReachUnfolds
  <2> QED
    BY <1>1, <2>4 DEF IsStack
<1>2. CASE h # null
  <2>1. IsList(L, h, rank, after, nodes) /\ \A x \in L : rank[x] = 1 => after[x] = null
    BY <1>2 DEF IsStack
  <2>2. rank[h] \in Nat
    BY <2>1 DEF IsList
  <2> QED
    BY <2>1, <2>2, ReachedWords
<1> QED
  BY <1>1, <1>2
=============================================================================
