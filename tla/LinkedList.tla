----------------------------- MODULE LinkedList -----------------------------
(***************************************************************************)
(* What a chain of links leads to.  The free lists of the repository are   *)
(* stacks linked through a word of their own elements; their invariants    *)
(* speak of the elements on a list.                                        *)
(***************************************************************************)
EXTENDS Integers, FiniteSets

(* Everything the links lead to from h, h included, as long as they lead   *)
(* to nodes: the elements of a list and the word that ends it.             *)
Reach(h, after, nodes) ==
  LET reach[n \in 0 .. Cardinality(nodes)] ==
        IF n = 0 THEN {h}
        ELSE LET r == reach[n - 1] IN r \cup {after[x] : x \in r \cap nodes}
  IN  reach[Cardinality(nodes)]

(* L is a list with first element h: rank numbers its elements from the    *)
(* last, 1, to the first, and every link leads to the rank below.          *)
IsList(L, h, rank, after, nodes) ==
  /\ h \in L
  /\ \A x \in L :
       /\ rank[x] \in 1 .. rank[h]
       /\ rank[x] = 1 => after[x] \notin nodes
       /\ rank[x] > 1 => after[x] \in L /\ rank[after[x]] = rank[x] - 1
       /\ \A y \in L : rank[x] = rank[y] => x = y

(* The same of a list that may be empty and ends with the word null.       *)
IsStack(L, h, rank, after, nodes, null) ==
  IF h = null THEN L = {}
  ELSE /\ IsList(L, h, rank, after, nodes)
       /\ \A x \in L : rank[x] = 1 => after[x] = null
=============================================================================
