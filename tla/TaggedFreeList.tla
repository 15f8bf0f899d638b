--------------------------- MODULE TaggedFreeList ---------------------------
(***************************************************************************)
(* The free list of payload blocks in microbench/bench2/lf_pool.hpp: a     *)
(* stack of blocks under one word [pointer | tag] whose tag has only the   *)
(* four bits that the alignment of a block leaves.  Every change of the    *)
(* word increments the tag, so that a thread which sleeps through T        *)
(* changes (16 in the code) may not notice them.                           *)
(***************************************************************************)
EXTENDS LinkedList

CONSTANTS
  Threads,
  Blocks,    \* bound: the blocks that aligned_alloc can provide
  T,         \* number of tags
  NULL,      \* nullptr
  USER       \* what a client has written over the next field of its block

FreeListAssumption ==
  /\ T \in Nat \ {0}
  /\ IsFiniteSet(Blocks)
  /\ NULL \notin Blocks
  /\ USER \notin Blocks \cup {NULL}

VARIABLES
  head,    \* head_: the top of the stack and the tag
  next,    \* the first word of each block
  fresh,   \* blocks not yet obtained from the system
  live,    \* blocks in the hands of clients
  pc,
  old,     \* head, the local variable of alloc and free
  link,    \* p->next as alloc has read it
  node,    \* the block a thread is freeing, or NULL
  missed,  \* history: changes of head_ since a thread read it, up to T
  lapsed   \* history: a CAS succeeded after T or more changes of head_

vars == <<head, next, fresh, live, pc, old, link, node, missed, lapsed>>

Words == Blocks \cup {NULL, USER}
Heads == [ptr : Words, tag : 0 .. T - 1]

Init ==
  /\ head   = [ptr |-> NULL, tag |-> 0]
  /\ next   = [b \in Blocks |-> NULL]
  /\ fresh  = Blocks
  /\ live   = {}
  /\ pc     = [t \in Threads |-> "idle"]
  /\ old    = [t \in Threads |-> [ptr |-> NULL, tag |-> 0]]
  /\ link   = [t \in Threads |-> NULL]
  /\ node   = [t \in Threads |-> NULL]
  /\ missed = [t \in Threads |-> 0]
  /\ lapsed = FALSE

Goto(t, p) == pc' = [pc EXCEPT ![t] = p]

\* head_.load, and what compare_exchange_weak leaves in head when it fails.
Load(t) ==
  /\ old'    = [old EXCEPT ![t] = head]
  /\ missed' = [missed EXCEPT ![t] = 0]

\* Faulty variants of Packed: the tag stays, or is not masked.
PackedWithoutTag(p, h)  == [ptr |-> p, tag |-> h.tag]
PackedWithoutMask(p, h) == [ptr |-> p, tag |-> h.tag + 1]

\* pack(p, tag_from(head) + 1).
Packed(p, h) == [ptr |-> p, tag |-> (h.tag + 1) % T]

\* A compare_exchange_weak that succeeds.
Swap(t, p) ==
  /\ head = old[t]
  /\ head'   = Packed(p, old[t])
  /\ lapsed' = (missed[t] = T)
  /\ missed' = [u \in Threads |->
                  IF u = t \/ pc[u] = "idle" THEN 0
                  ELSE IF missed[u] = T THEN T ELSE missed[u] + 1]
  /\ old'    = [old EXCEPT ![t] = [ptr |-> NULL, tag |-> 0]]
  /\ Goto(t, "idle")

-----------------------------------------------------------------------------
(* alloc(): load, and per attempt the test for an empty list, the read of  *)
(* p->next and the CAS.  A weak CAS may fail even if the word is as read.  *)
AllocLoads(t) ==
  /\ pc[t] = "idle"
  /\ Load(t)
  /\ Goto(t, "alloc")
  /\ UNCHANGED <<head, next, fresh, live, link, node, lapsed>>

\* The list was empty: aligned_alloc_block, and the client uses the block.
AllocNew(t, b) ==
  /\ pc[t] = "alloc"
  /\ old[t].ptr = NULL
  /\ b \in fresh
  /\ fresh'  = fresh \ {b}
  /\ live'   = live \cup {b}
  /\ next'   = [next EXCEPT ![b] = USER]
  /\ missed' = [missed EXCEPT ![t] = 0]
  /\ old'    = [old EXCEPT ![t] = [ptr |-> NULL, tag |-> 0]]
  /\ Goto(t, "idle")
  /\ UNCHANGED <<head, link, node, lapsed>>

\* The system has no block: std::bad_alloc.
AllocThrows(t) ==
  /\ pc[t] = "alloc"
  /\ old[t].ptr = NULL
  /\ missed' = [missed EXCEPT ![t] = 0]
  /\ old'    = [old EXCEPT ![t] = [ptr |-> NULL, tag |-> 0]]
  /\ Goto(t, "idle")
  /\ UNCHANGED <<head, next, fresh, live, link, node, lapsed>>

\* The block may be in a client's hands by now, and its first word with it.
AllocReads(t) ==
  /\ pc[t] = "alloc"
  /\ old[t].ptr # NULL
  /\ link' = [link EXCEPT ![t] = next[old[t].ptr]]
  /\ Goto(t, "pop")
  /\ UNCHANGED <<head, next, fresh, live, old, node, missed, lapsed>>

AllocSucceeds(t) ==
  /\ pc[t] = "pop"
  /\ Swap(t, link[t])
  /\ live' = live \cup {old[t].ptr}
  /\ next' = [next EXCEPT ![old[t].ptr] = USER]
  /\ link' = [link EXCEPT ![t] = NULL]
  /\ UNCHANGED <<fresh, node>>

\* Faulty variant of AllocRetries: p and p->next are not read again.
AllocRetriesWithOldNext(t) ==
  /\ pc[t] = "pop"
  /\ Load(t)
  /\ UNCHANGED <<head, next, fresh, live, pc, link, node, lapsed>>

AllocRetries(t) ==
  /\ pc[t] = "pop"
  /\ Load(t)
  /\ link' = [link EXCEPT ![t] = NULL]
  /\ Goto(t, "alloc")
  /\ UNCHANGED <<head, next, fresh, live, node, lapsed>>

-----------------------------------------------------------------------------
(* free(): load, and per attempt the write of n->next and the CAS.         *)
FreeLoads(t, b) ==
  /\ pc[t] = "idle"
  /\ b \in live
  /\ live' = live \ {b}
  /\ node' = [node EXCEPT ![t] = b]
  /\ Load(t)
  /\ Goto(t, "link")
  /\ UNCHANGED <<head, next, fresh, link, lapsed>>

FreeLinks(t) ==
  /\ pc[t] = "link"
  /\ next' = [next EXCEPT ![node[t]] = old[t].ptr]
  /\ Goto(t, "push")
  /\ UNCHANGED <<head, fresh, live, old, link, node, missed, lapsed>>

FreeSucceeds(t) ==
  /\ pc[t] = "push"
  /\ Swap(t, node[t])
  /\ node' = [node EXCEPT ![t] = NULL]
  /\ UNCHANGED <<next, fresh, live, link>>

\* Faulty variant of FreeRetries: n->next is not written again.
FreeRetriesWithoutLink(t) ==
  /\ pc[t] = "push"
  /\ Load(t)
  /\ UNCHANGED <<head, next, fresh, live, pc, link, node, lapsed>>

FreeRetries(t) ==
  /\ pc[t] = "push"
  /\ Load(t)
  /\ Goto(t, "link")
  /\ UNCHANGED <<head, next, fresh, live, link, node, lapsed>>

-----------------------------------------------------------------------------
Step(t) ==
  \/ AllocLoads(t) \/ AllocThrows(t)
  \/ AllocReads(t) \/ AllocSucceeds(t) \/ AllocRetries(t)
  \/ FreeLinks(t) \/ FreeSucceeds(t) \/ FreeRetries(t)
  \/ \E b \in Blocks : AllocNew(t, b) \/ FreeLoads(t, b)

\* Once a CAS has been fooled the list may be damaged: nothing is claimed of
\* what comes after, and it is not followed.
Lapsed == lapsed /\ UNCHANGED vars

Next == Lapsed \/ (~lapsed /\ \E t \in Threads : Step(t))

Spec == Init /\ [][Next]_vars

-----------------------------------------------------------------------------
\* The blocks on the list, and whatever word ends it if it is not NULL.
Listed == Reach(head.ptr, next, Blocks) \ {NULL}

\* The blocks that threads are freeing.
Freeing == {node[t] : t \in Threads} \ {NULL}

TypeOK ==
  /\ head   \in Heads
  /\ next   \in [Blocks -> Words]
  /\ fresh  \in SUBSET Blocks
  /\ live   \in SUBSET Blocks
  /\ pc     \in [Threads -> {"idle", "alloc", "pop", "link", "push"}]
  /\ old    \in [Threads -> Heads]
  /\ link   \in [Threads -> Words]
  /\ node   \in [Threads -> Blocks \cup {NULL}]
  /\ missed \in [Threads -> 0 .. T]
  /\ lapsed \in BOOLEAN

(***************************************************************************)
(* A CAS can only be fooled by a thread's sleep through at least T changes *)
(* of head_: a stale word read less than T changes ago always differs from *)
(* head_ in the tag, even if the same block is on top again.               *)
(***************************************************************************)
StaleWordDiffers ==
  \A t \in Threads : pc[t] # "idle" /\ missed[t] \in 1 .. T - 1 => head # old[t]

(***************************************************************************)
(* Until then no block is lost or handed out twice: each one is with the   *)
(* system, with a client, with a thread that frees it, or on the list, and *)
(* nowhere else; the list is well-formed although alloc reads p->next of   *)
(* blocks that others may have taken and overwritten, and the list never   *)
(* writes to a block that a client uses.                                   *)
(***************************************************************************)
EveryBlockOnce ==
  ~lapsed =>
    /\ fresh \cup live \cup Freeing \cup Listed = Blocks
    /\ Cardinality(fresh) + Cardinality(live) + Cardinality(Freeing)
         + Cardinality(Listed) = Cardinality(Blocks)
    /\ \A t, u \in Threads : node[t] # NULL /\ node[t] = node[u] => t = u
    /\ \A b \in live : next[b] = USER

-----------------------------------------------------------------------------
(***************************************************************************)
(* The inductive invariant.                                                *)
(***************************************************************************)

\* What the tag of a word says about its age, and what a call has in hand.
CallInv ==
  \A t \in Threads :
    /\ pc[t] = "idle" => missed[t] = 0
    /\ pc[t] # "idle" =>
         /\ missed[t] = 0 => head = old[t]
         /\ missed[t] < T => head.tag = (old[t].tag + missed[t]) % T
    /\ old[t].ptr # USER
    /\ pc[t] = "pop" => old[t].ptr # NULL
    /\ node[t] # NULL <=> pc[t] \in {"link", "push"}

\* The blocks that are nowhere else.
AtRest == Blocks \ (fresh \cup live \cup Freeing)

\* Nobody's blocks are anybody else's.
OneHome ==
  /\ fresh \cap live = {}
  /\ \A t \in Threads : node[t] \notin fresh \cup live
  /\ \A t, u \in Threads : node[t] # NULL /\ node[t] = node[u] => t = u

\* What is known of the links: those of the clients' blocks, the one an alloc
\* has read, if its word is not stale, and the one a free has written.
LinkInv ==
  /\ \A b \in live : next[b] = USER
  /\ \A t \in Threads :
       /\ pc[t] = "pop" /\ missed[t] = 0 => link[t] = next[old[t].ptr]
       /\ pc[t] = "push" => next[node[t]] = old[t].ptr

\* The list is the blocks at rest, with a numbering of them from its end.
ListInv ==
  \E rank \in [Blocks -> 1 .. Cardinality(Blocks)] :
    IsStack(AtRest, head.ptr, rank, next, Blocks, NULL)

FreeListInv ==
  TypeOK /\ CallInv /\ (~lapsed => OneHome /\ LinkInv /\ ListInv)
=============================================================================
