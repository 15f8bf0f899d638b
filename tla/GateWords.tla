----------------------------- MODULE GateWords ------------------------------
(***************************************************************************)
(* The protocol of Gate as atomsnap.c computes it: a control block and an  *)
(* inner state are one unsigned word each, [counter | handle] and          *)
(* [counter | flags], a version is known in them by the number of its      *)
(* arena and slot, and HANDLE_NULL is a number too.  Decoded, every step   *)
(* is a step of Gate.  The sizes (2^32, 2^32, 2^20 and 2^12 in the code)   *)
(* are parameters, so that every carry and wrap happens in small words.    *)
(***************************************************************************)
EXTENDS Integers, FiniteSets

CONSTANTS
  Threads, Versions, Slots, NULL,
  M,        \* values of the upper half of a word
  A, S,     \* values of arena_idx and slot_idx in a handle
  N,        \* SLOTS_PER_ARENA
  Locate    \* arena and slot number of each version

ASSUME WordsAssumption ==
  /\ NULL \notin Versions
  /\ M \in Nat \ {0} /\ A \in Nat \ {0} /\ S \in Nat /\ N \in Nat
  /\ 4 <= S /\ N < S
  /\ Locate \in [Versions -> [arena : 0 .. A - 1, slot : 1 .. N - 1]]
  /\ \A v, u \in Versions : Locate[v] = Locate[u] => v = u

VARIABLES
  gate, object, pool, held, mine, pc, job, refs, slot,   \* as in Gate
  cb,       \* control_block: a word
  inner,    \* inner_state: a word
  cur,      \* cur in detach_and_adjust: a word
  val       \* current_val in compare_exchange: a word

vars == <<gate, cb, inner, object, pool, held, mine, pc, job, refs, cur,
          slot, val>>

H == A * S   \* values of the lower half

HANDLE_NULL   == H - 1
REF_COUNT_INC == H
INNER_CNT_INC == H
DETACHED      == 1
FINALIZED     == 2

Words == 0 .. M * H - 1

\* w & MASK of the lower half, and w >> 32.
Low(w)  == w % H
High(w) == w \div H

FetchAdd(w, d) == (w + d) % (M * H)

\* The bit b of the flags f, and f | b.
Bit(f, b)   == (f \div b) % 2 = 1
SetBit(f, b) == IF Bit(f, b) THEN f ELSE f + b

construct_handle(aid, sid) == aid * S + sid

\* ver->self_handle, or HANDLE_NULL for no version.
HandleOf(v) ==
  IF v = NULL THEN HANDLE_NULL ELSE construct_handle(Locate[v].arena, Locate[v].slot)

resolve_handle(raw) ==
  IF raw = HANDLE_NULL THEN NULL
  ELSE CHOOSE v \in Versions : Locate[v] = [arena |-> raw \div S, slot |-> raw % S]

Init ==
  /\ gate   = "none"
  /\ cb     = [c \in Slots |-> HANDLE_NULL]
  /\ inner  = [v \in Versions |-> 0]
  /\ object = [v \in Versions |-> "unset"]
  /\ pool   = Versions
  /\ held   = [t \in Threads |-> NULL]
  /\ mine   = [t \in Threads |-> NULL]
  /\ pc     = [t \in Threads |-> "idle"]
  /\ job    = [t \in Threads |-> NULL]
  /\ refs   = [t \in Threads |-> 0]
  /\ cur    = [t \in Threads |-> 0]
  /\ slot   = [t \in Threads |-> NULL]
  /\ val    = [t \in Threads |-> HANDLE_NULL]

Goto(t, label) == pc' = [pc EXCEPT ![t] = label]

MayCall(t) == gate = "open" /\ pc[t] = "idle"

-----------------------------------------------------------------------------
TryFinalize(t, v, s) ==
  LET claims == Bit(Low(s), DETACHED) /\ High(s) = 0 IN
  /\ Goto(t, IF claims THEN "finalize" ELSE "idle")
  /\ job' = [job EXCEPT ![t] = IF claims THEN v ELSE NULL]

\* detach_and_adjust(resolve_handle(old_handle), old_refs), if there is one.
SwappedOut(t, old) ==
  LET ver == resolve_handle(Low(old)) IN
  /\ Goto(t, IF ver = NULL THEN "idle" ELSE "load")
  /\ job'  = [job EXCEPT ![t] = ver]
  /\ refs' = [refs EXCEPT ![t] = IF ver = NULL THEN 0 ELSE High(old)]

InitGate ==
  /\ gate = "none"
  /\ gate' = "open"
  /\ cb'   = [c \in Slots |-> HANDLE_NULL]
  /\ UNCHANGED <<inner, object, pool, held, mine, pc, job, refs, cur, slot,
                 val>>

DestroyGate ==
  /\ gate = "open"
  /\ \A c \in Slots : Low(cb[c]) = HANDLE_NULL
  /\ \A t \in Threads : pc[t] = "idle" /\ held[t] = NULL /\ mine[t] = NULL
  /\ gate' = "none"
  /\ UNCHANGED <<cb, inner, object, pool, held, mine, pc, job, refs, cur,
                 slot, val>>

MakeVersion(t, v) ==
  /\ MayCall(t)
  /\ mine[t] = NULL
  /\ v \in pool
  /\ pool'   = pool \ {v}
  /\ mine'   = [mine EXCEPT ![t] = v]
  /\ object' = [object EXCEPT ![v] = "unset"]
  /\ inner'  = [inner EXCEPT ![v] = 0]
  /\ UNCHANGED <<gate, cb, held, pc, job, refs, cur, slot, val>>

SetObject(t) ==
  /\ MayCall(t)
  /\ mine[t] # NULL
  /\ object' = [object EXCEPT ![mine[t]] = "live"]
  /\ UNCHANGED <<gate, cb, inner, pool, held, mine, pc, job, refs, cur, slot,
                 val>>

FreeVersion(t) ==
  /\ MayCall(t)
  /\ mine[t] # NULL
  /\ Goto(t, "callback")
  /\ job'  = [job EXCEPT ![t] = mine[t]]
  /\ mine' = [mine EXCEPT ![t] = NULL]
  /\ UNCHANGED <<gate, cb, inner, object, pool, held, refs, cur, slot, val>>

AcquireVersion(t, c) ==
  /\ MayCall(t)
  /\ held[t] = NULL
  /\ cb'   = [cb EXCEPT ![c] = FetchAdd(@, REF_COUNT_INC)]
  /\ held' = [held EXCEPT ![t] = resolve_handle(Low(cb[c]))]
  /\ UNCHANGED <<gate, inner, object, pool, mine, pc, job, refs, cur, slot,
                 val>>

ReleaseVersion(t) ==
  LET now == FetchAdd(inner[held[t]], INNER_CNT_INC) IN
  /\ MayCall(t)
  /\ held[t] # NULL
  /\ inner' = [inner EXCEPT ![held[t]] = now]
  /\ held'  = [held EXCEPT ![t] = NULL]
  /\ TryFinalize(t, held[t], now)
  /\ UNCHANGED <<gate, cb, object, pool, mine, refs, cur, slot, val>>

ExchangeVersion(t, c) ==
  /\ MayCall(t)
  /\ cb'   = [cb EXCEPT ![c] = HandleOf(mine[t])]
  /\ mine' = [mine EXCEPT ![t] = NULL]
  /\ SwappedOut(t, cb[c])
  /\ UNCHANGED <<gate, inner, object, pool, held, cur, slot, val>>

-----------------------------------------------------------------------------
CompareExchange(t, c, expected) ==
  /\ MayCall(t)
  /\ expected \in {held[t], NULL}
  /\ Low(cb[c]) = HandleOf(expected)
  /\ Goto(t, "cas")
  /\ slot' = [slot EXCEPT ![t] = c]
  /\ val'  = [val EXCEPT ![t] = cb[c]]
  /\ UNCHANGED <<gate, cb, inner, object, pool, held, mine, job, refs, cur>>

CasSucceeds(t) ==
  /\ pc[t] = "cas"
  /\ cb[slot[t]] = val[t]
  /\ cb'   = [cb EXCEPT ![slot[t]] = HandleOf(mine[t])]
  /\ mine' = [mine EXCEPT ![t] = NULL]
  /\ SwappedOut(t, val[t])
  /\ slot' = [slot EXCEPT ![t] = NULL]
  /\ val'  = [val EXCEPT ![t] = HANDLE_NULL]
  /\ UNCHANGED <<gate, inner, object, pool, held, cur>>

CasRetries(t) ==
  /\ pc[t] = "cas"
  /\ cb[slot[t]] # val[t]
  /\ Low(cb[slot[t]]) = Low(val[t])
  /\ val' = [val EXCEPT ![t] = cb[slot[t]]]
  /\ UNCHANGED <<gate, cb, inner, object, pool, held, mine, pc, job, refs,
                 cur, slot>>

CasFails(t) ==
  /\ pc[t] = "cas"
  /\ Low(cb[slot[t]]) # Low(val[t])
  /\ Goto(t, "idle")
  /\ slot' = [slot EXCEPT ![t] = NULL]
  /\ val'  = [val EXCEPT ![t] = HANDLE_NULL]
  /\ UNCHANGED <<gate, cb, inner, object, pool, held, mine, job, refs, cur>>

DetachLoads(t) ==
  /\ pc[t] = "load"
  /\ cur' = [cur EXCEPT ![t] = inner[job[t]]]
  /\ Goto(t, "detach")
  /\ UNCHANGED <<gate, cb, inner, object, pool, held, mine, job, refs, slot,
                 val>>

DetachRetries(t) ==
  /\ pc[t] = "detach"
  /\ inner[job[t]] # cur[t]
  /\ cur' = [cur EXCEPT ![t] = inner[job[t]]]
  /\ UNCHANGED <<gate, cb, inner, object, pool, held, mine, pc, job, refs,
                 slot, val>>

\* Faulty variant of Adjusted: subtracts in the whole word.
AdjustedWord(w, r) == (w - r) % (M * H)

\* next: the counter less old_refs, in 32 bits, and the flags | DETACHED.
Adjusted(w, r) == ((High(w) - r) % M) * H + SetBit(Low(w), DETACHED)

DetachSucceeds(t) ==
  /\ pc[t] = "detach"
  /\ inner[job[t]] = cur[t]
  /\ inner' = [inner EXCEPT ![job[t]] = Adjusted(cur[t], refs[t])]
  /\ refs'  = [refs EXCEPT ![t] = 0]
  /\ cur'   = [cur EXCEPT ![t] = 0]
  /\ TryFinalize(t, job[t], Adjusted(cur[t], refs[t]))
  /\ UNCHANGED <<gate, cb, object, pool, held, mine, slot, val>>

\* The fetch_or of FINALIZED, which touches the lower half only.
Finalized(w) == High(w) * H + SetBit(Low(w), FINALIZED)

Finalize(t) ==
  LET old == inner[job[t]] IN
  /\ pc[t] = "finalize"
  /\ inner' = [inner EXCEPT ![job[t]] = Finalized(old)]
  /\ Goto(t, IF Bit(Low(old), FINALIZED) THEN "aborted" ELSE "callback")
  /\ UNCHANGED <<gate, cb, object, pool, held, mine, job, refs, cur, slot,
                 val>>

Callback(t) ==
  /\ pc[t] = "callback"
  /\ object' = [object EXCEPT ![job[t]] = "freed"]
  /\ Goto(t, "free")
  /\ UNCHANGED <<gate, cb, inner, pool, held, mine, job, refs, cur, slot, val>>

FreeSlot(t) ==
  /\ pc[t] = "free"
  /\ pool' = pool \cup {job[t]}
  /\ job'  = [job EXCEPT ![t] = NULL]
  /\ Goto(t, "idle")
  /\ UNCHANGED <<gate, cb, inner, object, held, mine, refs, cur, slot, val>>

-----------------------------------------------------------------------------
Step(t) ==
  \/ CasSucceeds(t) \/ CasRetries(t) \/ CasFails(t)
  \/ DetachLoads(t) \/ DetachRetries(t) \/ DetachSucceeds(t)
  \/ Finalize(t) \/ Callback(t) \/ FreeSlot(t)

Call(t) ==
  \/ \E v \in Versions : MakeVersion(t, v)
  \/ SetObject(t) \/ FreeVersion(t) \/ ReleaseVersion(t)
  \/ \E c \in Slots : AcquireVersion(t, c) \/ ExchangeVersion(t, c)
  \/ \E c \in Slots, expected \in Versions \cup {NULL} : CompareExchange(t, c, expected)

Next == InitGate \/ DestroyGate \/ \E t \in Threads : Call(t) \/ Step(t)

Spec == Init /\ [][Next]_vars

-----------------------------------------------------------------------------
(***************************************************************************)
(* What the words mean.                                                    *)
(***************************************************************************)
Block(w) == [refs |-> High(w), handle |-> resolve_handle(Low(w))]

FlagSet(f) == (IF Bit(f, DETACHED) THEN {"DETACHED"} ELSE {})
                \cup (IF Bit(f, FINALIZED) THEN {"FINALIZED"} ELSE {})

State(w) == [cnt |-> High(w), flags |-> FlagSet(Low(w))]

Records == INSTANCE Gate WITH
  cb    <- [c \in Slots |-> Block(cb[c])],
  inner <- [v \in Versions |-> State(inner[v])],
  cur   <- [t \in Threads |-> State(cur[t])],
  val   <- [t \in Threads |-> Block(val[t])]

(***************************************************************************)
(* The word arithmetic of the code does what Gate says of the records: no  *)
(* carry from one half reaches the other, a counter wraps in its half, a   *)
(* CAS on words decides as one on records, HANDLE_NULL is nobody's handle  *)
(* and a handle finds its version again.                                   *)
(***************************************************************************)
ImplementsGate == Records!Spec

-----------------------------------------------------------------------------
(***************************************************************************)
(* The inductive invariant of the proof: the words are well-formed, and a  *)
(* thread in a call has what its step looks up.                            *)
(***************************************************************************)
Pointers   == Versions \cup {NULL}
BlockWords == {w \in Words : \E v \in Pointers : Low(w) = HandleOf(v)}
StateWords == {w \in Words : Low(w) \in 0 .. 3}

WordsInv ==
  /\ cb    \in [Slots -> BlockWords]
  /\ inner \in [Versions -> StateWords]
  /\ cur   \in [Threads -> StateWords]
  /\ val   \in [Threads -> BlockWords]
  /\ pool  \in SUBSET Versions
  /\ held  \in [Threads -> Pointers]
  /\ mine  \in [Threads -> Pointers]
  /\ job   \in [Threads -> Pointers]
  /\ refs  \in [Threads -> 0 .. M - 1]
  /\ DOMAIN pc = Threads /\ DOMAIN slot = Threads
  /\ \A t \in Threads :
       /\ pc[t] = "cas" => slot[t] \in Slots
       /\ pc[t] \in {"load", "detach", "finalize", "callback", "free"} =>
            job[t] \in Versions
=============================================================================
