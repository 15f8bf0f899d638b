----------------------------- MODULE ArenaPages -----------------------------
(***************************************************************************)
(* The memory under the arenas of atomsnap.c, in words of 8 bytes: where   *)
(* aligned_alloc puts an arena, what set-up writes, and which pages        *)
(* madvise(MADV_DONTNEED) takes away from a fully free arena, which is     *)
(* kept for reuse.  The rest of the process allocates from the same heap.  *)
(***************************************************************************)
EXTENDS Integers, FiniteSets

CONSTANTS
  N,          \* SLOTS_PER_ARENA
  PageWords,  \* PAGE_SIZE / 8
  HeapPages,  \* bound: the pages of the heap
  OtherWords, \* bound: the size of an allocation of the rest of the process
  MaxOthers   \* bound: how many such allocations there are at a time

ASSUME PagesAssumption ==
  /\ N \in Nat \ {0} /\ PageWords \in Nat \ {0}
  /\ HeapPages \in Nat /\ OtherWords \in Nat \ {0} /\ MaxOthers \in Nat

VARIABLES
  mem,     \* what is in each word: "zero", or what its owner wrote
  arenas,  \* the address of each arena, with "active" or "reclaimed"
  others   \* the addresses of the other allocations

pageVars == <<mem, arenas, others>>

Heap == 0 .. HeapPages * PageWords - 1

\* sizeof(struct memory_arena): top_handle, and five words for each slot.
ArenaWords == 1 + 5 * N

Words(at, size) == at .. at + size - 1

Arena(a) == Words(a, ArenaWords)
Other(a) == Words(a, OtherWords)

Allocated ==
  UNION ({Arena(a) : a \in DOMAIN arenas} \cup {Other(a) : a \in others})

PagesInit ==
  /\ mem    = [w \in Heap |-> "zero"]
  /\ arenas = [a \in {} |-> "active"]
  /\ others = {}

Written(ws, what) == [w \in Heap |-> IF w \in ws THEN what ELSE mem[w]]

With(a, status) == [x \in DOMAIN arenas \cup {a} |-> IF x = a THEN status ELSE arenas[x]]

\* Faulty variant of AlignedAlloc: malloc.
Malloc(a) == Arena(a) \subseteq Heap \ Allocated

\* aligned_alloc(PAGE_SIZE, sizeof(struct memory_arena)) may return a: it
\* owes the caller that many bytes, and not the rest of the last page.
AlignedAlloc(a) ==
  /\ a % PageWords = 0
  /\ Arena(a) \subseteq Heap \ Allocated

(* init_arena: a new arena, or one that was reclaimed, is set up.          *)
InitArena(a) ==
  /\ \/ AlignedAlloc(a)
     \/ a \in DOMAIN arenas /\ arenas[a] = "reclaimed"
  /\ arenas' = With(a, "active")
  /\ mem'    = Written(Arena(a), "arena")
  /\ UNCHANGED others

\* madvise takes whole pages: the length is rounded up.
Dropped(a) ==
  {w \in Heap : w >= a /\ w \div PageWords <= (a + ArenaWords - 1) \div PageWords}

(* reclaim_last_arena_if_empty of an arena whose slots are all free.       *)
Reclaim(a) ==
  /\ arenas[a] = "active"
  /\ mem'    = Written(Dropped(a), "zero")
  /\ arenas' = With(a, "reclaimed")
  /\ UNCHANGED others

(* Another part of the process allocates, and fills what it got; or frees. *)
OtherAllocates(a) ==
  /\ Cardinality(others) < MaxOthers
  /\ Other(a) \subseteq Heap \ Allocated
  /\ others' = others \cup {a}
  /\ mem'    = Written(Other(a), "other")
  /\ UNCHANGED arenas

OtherFrees(a) ==
  /\ others' = others \ {a}
  /\ UNCHANGED <<mem, arenas>>

PagesNext ==
  \/ \E a \in Heap : InitArena(a) \/ OtherAllocates(a)
  \/ \E a \in DOMAIN arenas : Reclaim(a)
  \/ \E a \in others : OtherFrees(a)

PagesSpec == PagesInit /\ [][PagesNext]_pageVars

-----------------------------------------------------------------------------
(***************************************************************************)
(* Reclaiming an arena takes nothing from another one: although madvise    *)
(* takes the rest of its last page too, no other arena begins there.       *)
(***************************************************************************)
ActiveArenaIntact ==
  \A a \in DOMAIN arenas :
    arenas[a] = "active" => \A w \in Arena(a) : mem[w] = "arena"

(***************************************************************************)
(* An arena takes whole pages, the words behind its last slot included     *)
(* ("Wasted: 24B per arena", README.md): nobody else loses what they wrote *)
(* when it is reclaimed.  aligned_alloc is asked for the struct only.      *)
(***************************************************************************)
OthersIntact == \A a \in others : \A w \in Other(a) : mem[w] = "other"

-----------------------------------------------------------------------------
(***************************************************************************)
(* The inductive invariant: arenas begin at page boundaries, and no two    *)
(* allocations overlap.                                                    *)
(***************************************************************************)
PagesTypeOK ==
  /\ mem \in [Heap -> {"zero", "arena", "other"}]
  /\ DOMAIN arenas \subseteq Heap
  /\ others \subseteq Heap

Aligned ==
  \A a \in DOMAIN arenas : a % PageWords = 0 /\ Arena(a) \subseteq Heap

Apart ==
  \A a \in DOMAIN arenas :
    /\ \A b \in DOMAIN arenas : a # b => Arena(a) \cap Arena(b) = {}
    /\ \A o \in others : Arena(a) \cap Other(o) = {}

PagesInv == PagesTypeOK /\ Aligned /\ Apart /\ ActiveArenaIntact
=============================================================================
