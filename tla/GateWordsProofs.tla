-------------------------- MODULE GateWordsProofs ---------------------------
(***************************************************************************)
(* For every width of the two halves of a word and of the two parts of a   *)
(* handle, the word arithmetic implements the protocol on records.         *)
(***************************************************************************)
EXTENDS GateWords, TLAPS

\* The provers, in the order in which they try each step.
USE SMT, Zenon, SMTT(60)

(* What a quotient and a remainder are.                                    *)
LEMMA DivMod ==
  ASSUME NEW p \in Nat \ {0}, NEW x \in Nat
  PROVE  /\ x \div p \in Nat
         /\ x % p \in 0 .. p - 1
         /\ x = p * (x \div p) + (x % p)
  BY Z3T(30)

\* The multiples of p are p apart.
LEMMA ProductStep ==
  ASSUME NEW p \in Nat \ {0}, NEW j \in Nat, NEW k \in Nat, j < k
  PROVE  p * j + p <= p * k
<1>1. PICK d \in Nat : k = j + 1 + d
  BY SMT
<1>2. p * (j + 1 + d) = p * j + p + p * d
  BY SMT
<1>3. p * d \in Nat /\ p * j \in Nat /\ p * k \in Nat
  BY SMT
<1> QED
  BY <1>1, <1>2, <1>3

\* Quotient and rest are the only ones.
LEMMA DivModUnique ==
  ASSUME NEW p \in Nat \ {0}, NEW q \in Nat, NEW r \in 0 .. p - 1
  PROVE  /\ p * q + r \in Nat
         /\ (p * q + r) \div p = q
         /\ (p * q + r) % p = r
<1> DEFINE x == p * q + r
           k == x \div p
           s == x % p
<1>1. p * q \in Nat /\ x \in Nat
  BY SMT
<1>2. k \in Nat /\ s \in 0 .. p - 1 /\ x = p * k + s
  BY <1>1, DivMod, Zenon
<1> HIDE DEF k, s
<1>3. p * k \in Nat
  BY <1>2, SMT
<1>4. ~(k < q)
  <2> SUFFICES ASSUME k < q PROVE FALSE
    OBVIOUS
  <2>1. p * k + p <= p * q
    BY <1>2, ProductStep
  <2> QED
    BY <1>1, <1>2, <1>3, <2>1
<1>5. ~(q < k)
  <2> SUFFICES ASSUME q < k PROVE FALSE
    OBVIOUS
  <2>1. p * q + p <= p * k
    BY <1>2, ProductStep
  <2> QED
    BY <1>1, <1>2, <1>3, <2>1
<1>6. k = q
  BY <1>2, <1>4, <1>5
<1>7. s = r
  BY <1>1, <1>2, <1>6
<1> QED
  BY <1>1, <1>6, <1>7 DEF k, s

-----------------------------------------------------------------------------
\* The sizes of the fields of a word.
LEMMA Sizes ==
  /\ H \in Nat \ {0} /\ 4 <= H
  /\ M \in Nat \ {0} /\ A \in Nat \ {0} /\ S \in Nat \ {0}
  /\ S * A = H
  /\ M * H \in Nat \ {0} /\ H * M = M * H
<1>1. M \in Nat \ {0} /\ A \in Nat \ {0} /\ S \in Nat \ {0} /\ 4 <= S
  BY WordsAssumption
<1>2. S * 0 + S <= S * A
  BY <1>1, ProductStep
<1>3. S * 0 = 0 /\ A * S = S * A /\ S * A \in Nat
  BY <1>1, SMT
<1>4. H \in Nat /\ 4 <= H /\ S * A = H
  BY <1>1, <1>2, <1>3 DEF H
<1>5. M * H \in Nat /\ H * M = M * H /\ M * H # 0
  BY <1>1, <1>4, SMT
<1> QED
  BY <1>1, <1>4, <1>5

(* A word and its halves.                                                  *)
LEMMA Halves ==
  ASSUME NEW w \in Words
  PROVE  High(w) \in 0 .. M - 1 /\ Low(w) \in 0 .. H - 1 /\ w = H * High(w) + Low(w)
<1>1. w \in Nat /\ w < M * H
  BY Sizes DEF Words
<1>2. High(w) \in Nat /\ Low(w) \in 0 .. H - 1 /\ w = H * High(w) + Low(w)
  <2>1. H \in Nat \ {0}
    BY Sizes
  <2>2. /\ w \div H \in Nat /\ w % H \in 0 .. H - 1
        /\ w = H * (w \div H) + (w % H)
    BY <1>1, <2>1, DivMod
  <2> QED
    BY <2>2 DEF High, Low
<1>3. High(w) < M
  <2> SUFFICES ASSUME ~(High(w) < M) PROVE FALSE
    OBVIOUS
  <2>1. H * M <= H * High(w)
    <3>1. CASE High(w) = M
      BY <3>1, Sizes
    <3>2. CASE M < High(w)
      <4>1. H * M + H <= H * High(w)
        BY <1>2, <3>2, Sizes, ProductStep
      <4>2. H * M \in Nat /\ H * High(w) \in Nat
        BY <1>2, Sizes, SMT
      <4> QED
        BY <4>1, <4>2, Sizes
    <3> QED
      BY <1>2, <3>1, <3>2, Sizes
  <2>2. H * High(w) \in Nat
    BY <1>2, Sizes, SMT
  <2> QED
    BY <1>1, <1>2, <2>1, <2>2, Sizes
<1> QED
  BY <1>2, <1>3, Sizes

\* A word packed from two fields gives the two fields back.
LEMMA Packed ==
  ASSUME NEW h \in 0 .. M - 1, NEW l \in 0 .. H - 1
  PROVE  H * h + l \in Words /\ High(H * h + l) = h /\ Low(H * h + l) = l
<1>1. /\ H * h + l \in Nat
      /\ High(H * h + l) = h /\ Low(H * h + l) = l
  BY Sizes, DivModUnique DEF High, Low
<1>2. H * h + H <= H * M
  BY Sizes, ProductStep
<1>3. H * h \in Nat
  BY Sizes, SMT
<1> QED
  BY <1>1, <1>2, <1>3, Sizes DEF Words

(* fetch_add of the unit of the upper half: the counter is incremented and *)
(* wraps, and the lower half is as it was.                                 *)
LEMMA Counted ==
  ASSUME NEW w \in Words
  PROVE  /\ FetchAdd(w, H) \in Words
         /\ High(FetchAdd(w, H)) = (High(w) + 1) % M
         /\ Low(FetchAdd(w, H)) = Low(w)
<1> DEFINE h == High(w)
           l == Low(w)
<1>1. h \in 0 .. M - 1 /\ l \in 0 .. H - 1 /\ w = H * h + l
  BY Halves
<1> HIDE DEF h, l
<1>2. H * (h + 1) = H * h + H /\ H * h \in Nat
  BY <1>1, Sizes, SMT
<1>3. CASE h + 1 < M
  <2>1. H * (h + 1) + l \in Words
    <3>1. h + 1 \in 0 .. M - 1
      BY <1>1, <1>3, Sizes
    <3> QED
      BY <1>1, <3>1, Packed
  <2>2. w + H = H * (h + 1) + l
    BY <1>1, <1>2, Sizes
  <2>3. FetchAdd(w, H) = H * (h + 1) + l
    BY <2>1, <2>2, Sizes DEF FetchAdd, Words
  <2>4. (h + 1) % M = h + 1
    BY <1>1, <1>3, Sizes
  <2> QED
    BY <1>1, <1>3, <2>1, <2>3, <2>4, Packed, Sizes DEF h, l
<1>4. CASE h + 1 = M
  <2>1. w + H = (M * H) * 1 + l
    BY <1>1, <1>2, <1>4, Sizes
  <2>2. l \in 0 .. (M * H) - 1
    <3>1. H * 0 + H <= H * M
      BY Sizes, ProductStep
    <3> QED
      BY <1>1, <3>1, Sizes
  <2>3. FetchAdd(w, H) = l
    <3>1. M * H \in Nat \ {0} /\ 1 \in Nat
      BY Sizes
    <3>2. ((M * H) * 1 + l) % (M * H) = l
      BY <2>2, <3>1, DivModUnique
    <3> QED
      BY <2>1, <3>2 DEF FetchAdd
  <2>4. l = H * 0 + l
    BY <1>1, Sizes
  <2>5. (h + 1) % M = 0
    BY <1>4, Sizes
  <2> QED
    BY <1>1, <2>3, <2>4, <2>5, Packed, Sizes DEF h, l
<1> QED
  BY <1>1, <1>3, <1>4, Sizes

-----------------------------------------------------------------------------
(* A handle is a number below HANDLE_NULL that leads back to its version.  *)
LEMMA HandleNumbers ==
  ASSUME NEW v \in Pointers
  PROVE  HandleOf(v) \in 0 .. H - 1 /\ resolve_handle(HandleOf(v)) = v
<1>1. CASE v = NULL
  BY <1>1, Sizes DEF HandleOf, resolve_handle, HANDLE_NULL
<1>2. CASE v \in Versions
  <2> DEFINE a == Locate[v].arena
             s == Locate[v].slot
             raw == HandleOf(v)
  <2>1. /\ a \in 0 .. A - 1 /\ s \in 0 .. S - 2
        /\ Locate[v] = [arena |-> a, slot |-> s] /\ v # NULL
    BY <1>2, WordsAssumption
  <2>2. raw = a * S + s
    BY <2>1 DEF HandleOf, construct_handle
  <2> HIDE DEF a, s, raw
  <2>3. raw = S * a + s /\ S * a \in Nat
    BY <2>1, <2>2, Sizes, SMT
  <2>4. S * a + S <= S * A
    BY <2>1, Sizes, ProductStep
  <2>5. raw \in 0 .. H - 1 /\ raw # HANDLE_NULL
    BY <2>1, <2>3, <2>4, Sizes DEF HANDLE_NULL
  <2>6. raw \div S = a /\ raw % S = s
    <3>1. S \in Nat \ {0} /\ a \in Nat /\ s \in 0 .. S - 1
      BY <2>1, Sizes
    <3> QED
      BY <2>3, <3>1, DivModUnique
  <2>7. resolve_handle(raw) = CHOOSE u \in Versions : Locate[u] = Locate[v]
    BY <2>1, <2>5, <2>6 DEF resolve_handle
  <2>8. (CHOOSE u \in Versions : Locate[u] = Locate[v]) = v
    BY <1>2, WordsAssumption
  <2> QED
    BY <2>5, <2>7, <2>8 DEF raw
<1> QED
  BY <1>1, <1>2 DEF Pointers

\* The null pointer has the null handle.
LEMMA NullHandle == NULL \in Pointers /\ HandleOf(NULL) = HANDLE_NULL
  BY DEF Pointers, HandleOf

(* Control blocks: what the code does to the word is what Gate does to the *)
(* record, and words differ as the records do.                             *)
LEMMA BlockHandle ==
  ASSUME NEW w \in BlockWords
  PROVE  /\ w \in Words
         /\ Block(w).handle \in Pointers
         /\ Block(w).handle = resolve_handle(Low(w))
         /\ Block(w).refs = High(w) /\ High(w) \in 0 .. M - 1
         /\ Low(w) = HandleOf(Block(w).handle)
         /\ \A v \in Pointers : Low(w) = HandleOf(v) <=> Block(w).handle = v
<1>1. PICK v \in Pointers : Low(w) = HandleOf(v)
  BY DEF BlockWords
<1>2. w \in Words
  BY DEF BlockWords
<1>3. /\ Block(w).handle = resolve_handle(Low(w)) /\ Block(w).refs = High(w)
      /\ High(w) \in 0 .. M - 1
  BY <1>2, Halves DEF Block
<1>4. \A u \in Pointers : resolve_handle(HandleOf(u)) = u
  BY HandleNumbers
<1> QED
  BY <1>1, <1>2, <1>3, <1>4

\* Two words that decode to the same control block are the same.
LEMMA BlockInjective ==
  ASSUME NEW w \in BlockWords, NEW u \in BlockWords
  PROVE  Block(w) = Block(u) <=> w = u
<1>1. ASSUME Block(w) = Block(u) PROVE w = u
  <2>1. High(w) = High(u) /\ Low(w) = Low(u)
    BY <1>1, BlockHandle
  <2>2. w = H * High(w) + Low(w) /\ u = H * High(u) + Low(u)
    BY BlockHandle, Halves
  <2> QED
    BY <2>1, <2>2
<1> QED
  BY <1>1

\* The fetch-and-add of an acquire counts in the decoded block.
LEMMA BlockAcquired ==
  ASSUME NEW w \in BlockWords
  PROVE  /\ FetchAdd(w, REF_COUNT_INC) \in BlockWords
         /\ Block(FetchAdd(w, REF_COUNT_INC)) = Records!Acquired(Block(w))
<1>1. w \in Words
  BY DEF BlockWords
<1> QED
  BY <1>1, Counted
  DEF BlockWords, Block, REF_COUNT_INC, Records!Acquired, Records!Inc

\* The word that an exchange stores decodes to the installed version.
LEMMA BlockInstalled ==
  ASSUME NEW v \in Pointers
  PROVE  HandleOf(v) \in BlockWords /\ Block(HandleOf(v)) = Records!Installed(v)
<1>1. HandleOf(v) \in 0 .. H - 1 /\ resolve_handle(HandleOf(v)) = v
  BY HandleNumbers
<1>2. 0 \in 0 .. M - 1 /\ HandleOf(v) = H * 0 + HandleOf(v)
  BY <1>1, Sizes
<1>3. /\ HandleOf(v) \in Words
      /\ High(HandleOf(v)) = 0 /\ Low(HandleOf(v)) = HandleOf(v)
  BY <1>1, <1>2, Packed
<1> QED
  BY <1>1, <1>3 DEF BlockWords, Block, Records!Installed

\* The word of an empty slot.
LEMMA BlockEmpty ==
  HANDLE_NULL \in BlockWords /\ Block(HANDLE_NULL) = Records!EmptyBlock
  BY NullHandle, BlockInstalled DEF Records!EmptyBlock, Records!Installed

-----------------------------------------------------------------------------
(* Inner states, likewise.  The flags are the four numbers of two bits.    *)
LEMMA FlagBits ==
  ASSUME NEW f \in 0 .. 3
  PROVE  /\ SetBit(f, DETACHED) \in 0 .. 3
         /\ SetBit(f, FINALIZED) \in 0 .. 3
         /\ Bit(f, DETACHED) <=> "DETACHED" \in FlagSet(f)
         /\ Bit(f, FINALIZED) <=> "FINALIZED" \in FlagSet(f)
         /\ FlagSet(SetBit(f, DETACHED)) = FlagSet(f) \cup {"DETACHED"}
         /\ FlagSet(SetBit(f, FINALIZED)) = FlagSet(f) \cup {"FINALIZED"}
         /\ \A g \in 0 .. 3 : FlagSet(f) = FlagSet(g) => f = g
<1> USE DEF SetBit, Bit, FlagSet, DETACHED, FINALIZED
<1>1. /\ FlagSet(0) = {} /\ FlagSet(1) = {"DETACHED"}
      /\ FlagSet(2) = {"FINALIZED"} /\ FlagSet(3) = {"DETACHED", "FINALIZED"}
  OBVIOUS
<1>2. /\ SetBit(0, 1) = 1 /\ SetBit(1, 1) = 1 /\ SetBit(2, 1) = 3 /\ SetBit(3, 1) = 3
      /\ SetBit(0, 2) = 2 /\ SetBit(1, 2) = 3 /\ SetBit(2, 2) = 2 /\ SetBit(3, 2) = 3
  OBVIOUS
<1>3. /\ ~Bit(0, 1) /\ Bit(1, 1) /\ ~Bit(2, 1) /\ Bit(3, 1)
      /\ ~Bit(0, 2) /\ ~Bit(1, 2) /\ Bit(2, 2) /\ Bit(3, 2)
  OBVIOUS
<1>4. f = 0 \/ f = 1 \/ f = 2 \/ f = 3
  OBVIOUS
<1>5. \A g \in 0 .. 3 : g = 0 \/ g = 1 \/ g = 2 \/ g = 3
  OBVIOUS
<1> HIDE DEF SetBit, Bit, FlagSet
<1> QED
  BY <1>1, <1>2, <1>3, <1>4, <1>5 DEF DETACHED, FINALIZED

\* The fields of a state word.
LEMMA StateFacts ==
  ASSUME NEW w \in StateWords
  PROVE  /\ w \in Words /\ Low(w) \in 0 .. 3 /\ High(w) \in 0 .. M - 1
         /\ State(w).cnt = High(w) /\ State(w).flags = FlagSet(Low(w))
         /\ Bit(Low(w), FINALIZED) <=> "FINALIZED" \in State(w).flags
         /\ (Bit(Low(w), DETACHED) /\ High(w) = 0) <=> Records!Reclaimable(State(w))
  BY Halves, FlagBits DEF StateWords, State, Records!Reclaimable

\* Two words that decode to the same state are the same.
LEMMA StateInjective ==
  ASSUME NEW w \in StateWords, NEW u \in StateWords
  PROVE  State(w) = State(u) <=> w = u
<1>1. ASSUME State(w) = State(u) PROVE w = u
  <2>1. High(w) = High(u) /\ FlagSet(Low(w)) = FlagSet(Low(u))
    BY <1>1, StateFacts
  <2>2. Low(w) = Low(u)
    BY <2>1, StateFacts, FlagBits
  <2>3. w = H * High(w) + Low(w) /\ u = H * High(u) + Low(u)
    BY StateFacts, Halves
  <2> QED
    BY <2>1, <2>2, <2>3
<1> QED
  BY <1>1

(* A word put together from a counter and flags.                           *)
LEMMA StatePacked ==
  ASSUME NEW n \in 0 .. M - 1, NEW f \in 0 .. 3
  PROVE  /\ n * H + f \in StateWords
         /\ State(n * H + f) = [cnt |-> n, flags |-> FlagSet(f)]
<1>1. n * H = H * n /\ f \in 0 .. H - 1
  BY Sizes, SMT
<1>2. H * n + f \in Words /\ High(H * n + f) = n /\ Low(H * n + f) = f
  BY <1>1, Packed
<1> QED
  BY <1>1, <1>2 DEF StateWords, State

\* The word of a new version.
LEMMA StateFresh == 0 \in StateWords /\ State(0) = Records!FreshInner
<1>1. 0 \in 0 .. M - 1 /\ 0 \in 0 .. 3 /\ 0 * H + 0 = 0
  BY Sizes
<1>2. FlagSet(0) = {}
  BY DEF FlagSet, Bit, DETACHED, FINALIZED
<1> QED
  BY <1>1, <1>2, StatePacked, Zenon DEF Records!FreshInner

\* The add of a release counts in the decoded state.
LEMMA StateReleased ==
  ASSUME NEW w \in StateWords
  PROVE  /\ FetchAdd(w, INNER_CNT_INC) \in StateWords
         /\ State(FetchAdd(w, INNER_CNT_INC)) = Records!Released(State(w))
  BY StateFacts, Counted
  DEF StateWords, State, INNER_CNT_INC, Records!Released, Records!Inc

\* The detacher's addition counts in the decoded state.
LEMMA StateAdjusted ==
  ASSUME NEW w \in StateWords, NEW r \in 0 .. M - 1
  PROVE  /\ Adjusted(w, r) \in StateWords
         /\ State(Adjusted(w, r)) = Records!Adjusted(State(w), r)
<1> DEFINE n == (High(w) - r) % M
           f == SetBit(Low(w), DETACHED)
<1>1. n \in 0 .. M - 1
  BY StateFacts, Sizes
<1>2. f \in 0 .. 3 /\ FlagSet(f) = FlagSet(Low(w)) \cup {"DETACHED"}
  BY StateFacts, FlagBits
<1>3. Adjusted(w, r) = n * H + f
  BY DEF Adjusted
<1>4. n = Records!Sub(State(w).cnt, r)
  BY StateFacts DEF Records!Sub
<1> HIDE DEF n, f
<1> QED
  BY <1>1, <1>2, <1>3, <1>4, StatePacked, StateFacts, Zenon DEF Records!Adjusted

\* The flag of the thread that finalizes.
LEMMA StateFinalized ==
  ASSUME NEW w \in StateWords
  PROVE  /\ Finalized(w) \in StateWords
         /\ State(Finalized(w)) = [State(w) EXCEPT !.flags = @ \cup {"FINALIZED"}]
<1>1. /\ SetBit(Low(w), FINALIZED) \in 0 .. 3
      /\ FlagSet(SetBit(Low(w), FINALIZED)) = FlagSet(Low(w)) \cup {"FINALIZED"}
  BY StateFacts, FlagBits
<1>2. /\ Finalized(w) \in StateWords
      /\ State(Finalized(w)) = [cnt |-> High(w), flags |-> FlagSet(Low(w)) \cup {"FINALIZED"}]
  BY <1>1, StatePacked, StateFacts, Zenon DEF Finalized
<1> QED
  BY <1>2 DEF State

-----------------------------------------------------------------------------
(* Decoding commutes with an assignment to one control block, state, ...   *)
LEMMA DecodedBlock ==
  ASSUME NEW D, NEW f, DOMAIN f = D, NEW x \in D, NEW w
  PROVE  [d \in D |-> Block([f EXCEPT ![x] = w][d])]
           = [[d \in D |-> Block(f[d])] EXCEPT ![x] = Block(w)]
  BY Zenon

\* Decoding after an update of one word.
LEMMA DecodedState ==
  ASSUME NEW D, NEW f, DOMAIN f = D, NEW x \in D, NEW w
  PROVE  [d \in D |-> State([f EXCEPT ![x] = w][d])]
           = [[d \in D |-> State(f[d])] EXCEPT ![x] = State(w)]
  BY Zenon

-----------------------------------------------------------------------------
(* Each operation: the invariant is preserved, and the decoded step is the *)
(* operation of Gate.                                                      *)
LEMMA AcquireStep ==
  ASSUME WordsInv, NEW t \in Threads, NEW c \in Slots, AcquireVersion(t, c)
  PROVE  WordsInv' /\ Records!AcquireVersion(t, c)
<1> USE DEF WordsInv, AcquireVersion, MayCall
<1>1. cb[c] \in BlockWords
  OBVIOUS
<1>2. [d \in Slots |-> Block(cb'[d])]
        = [[d \in Slots |-> Block(cb[d])] EXCEPT ![c] = Records!Acquired(Block(cb[c]))]
  BY <1>1, DecodedBlock, BlockAcquired, Zenon
<1>3. resolve_handle(Low(cb[c])) = Block(cb[c]).handle /\ Block(cb[c]).handle \in Pointers
  BY <1>1, BlockHandle
<1>4. WordsInv'
  BY <1>1, <1>3, BlockAcquired
<1>5. Records!AcquireVersion(t, c)
  BY <1>2, <1>3 DEF Records!AcquireVersion, Records!MayCall
<1> QED
  BY <1>4, <1>5

\* The same for making and destroying the gate ...
LEMMA GateSteps ==
  ASSUME WordsInv, InitGate \/ DestroyGate
  PROVE  WordsInv' /\ (Records!InitGate \/ Records!DestroyGate)
<1>1. CASE InitGate
  <2>1. [c \in Slots |-> Block(cb'[c])] = [c \in Slots |-> Records!EmptyBlock]
    BY <1>1, BlockEmpty DEF InitGate
  <2>2. WordsInv'
    BY <1>1, BlockEmpty DEF InitGate, WordsInv
  <2> QED
    BY <1>1, <2>1, <2>2 DEF InitGate, Records!InitGate
<1>2. CASE DestroyGate
  <2>1. \A c \in Slots : Block(cb[c]).handle = NULL
    BY <1>2, BlockHandle, NullHandle DEF DestroyGate, WordsInv
  <2>2. WordsInv'
    BY <1>2, Zenon DEF DestroyGate, WordsInv
  <2> QED
    BY <1>2, <2>1, <2>2 DEF DestroyGate, Records!DestroyGate
<1> QED
  BY <1>1, <1>2

\* ... for making, setting and freeing a version of one's own ...
LEMMA PrivateSteps ==
  ASSUME WordsInv, NEW t \in Threads,
         (\E v \in Versions : MakeVersion(t, v)) \/ SetObject(t) \/ FreeVersion(t)
  PROVE  WordsInv' /\ Records!Call(t)
<1> USE DEF WordsInv, MayCall, Goto, Pointers
<1>1. ASSUME NEW v \in Versions, MakeVersion(t, v)
      PROVE  WordsInv' /\ Records!MakeVersion(t, v)
  <2>1. [d \in Versions |-> State(inner'[d])]
          = [[d \in Versions |-> State(inner[d])] EXCEPT ![v] = Records!FreshInner]
    BY <1>1, DecodedState, StateFresh, Zenon DEF MakeVersion
  <2>2. WordsInv'
    BY <1>1, StateFresh, Zenon DEF MakeVersion
  <2> QED
    BY <1>1, <2>1, <2>2 DEF MakeVersion, Records!MakeVersion, Records!MayCall
<1>2. CASE SetObject(t)
  <2>1. WordsInv'
    BY <1>2 DEF SetObject
  <2>2. Records!SetObject(t)
    BY <1>2, Zenon DEF SetObject, Records!SetObject, Records!MayCall
  <2> QED
    BY <2>1, <2>2, Zenon DEF Records!Call
<1>3. CASE FreeVersion(t)
  <2>1. WordsInv'
    BY <1>3 DEF FreeVersion
  <2>2. Records!FreeVersion(t)
    BY <1>3 DEF FreeVersion, Records!FreeVersion, Records!MayCall, Records!Goto
  <2> QED
    BY <2>1, <2>2 DEF Records!Call
<1> QED
  BY <1>1, <1>2, <1>3, Zenon DEF Records!Call

\* ... for the attempt to finalize ...
LEMMA Claiming ==
  ASSUME NEW t, NEW v, NEW w \in StateWords, TryFinalize(t, v, w)
  PROVE  Records!TryFinalize(t, v, State(w))
  BY StateFacts, Zenon DEF TryFinalize, Goto, Records!TryFinalize, Records!Goto

\* ... in a release ...
LEMMA ReleaseStep ==
  ASSUME WordsInv, NEW t \in Threads, ReleaseVersion(t)
  PROVE  WordsInv' /\ Records!ReleaseVersion(t)
<1> DEFINE v   == held[t]
           now == FetchAdd(inner[v], INNER_CNT_INC)
<1>1. v \in Versions /\ inner[v] \in StateWords
  BY DEF ReleaseVersion, WordsInv, Pointers
<1>2. now \in StateWords /\ State(now) = Records!Released(State(inner[v]))
  BY <1>1, StateReleased
<1>3. [d \in Versions |-> State(inner'[d])]
        = [[d \in Versions |-> State(inner[d])] EXCEPT ![v] = Records!Released(State(inner[v]))]
  BY <1>1, <1>2, DecodedState, Zenon DEF ReleaseVersion, WordsInv
<1>4. Records!TryFinalize(t, v, Records!Released(State(inner[v])))
  BY <1>2, Claiming, Zenon DEF ReleaseVersion
<1>5. WordsInv'
  BY <1>1, <1>2 DEF ReleaseVersion, TryFinalize, Goto, WordsInv, Pointers
<1>6. Records!ReleaseVersion(t)
  BY <1>1, <1>3, <1>4, Zenon
  DEF ReleaseVersion, MayCall, Records!ReleaseVersion, Records!MayCall
<1> QED
  BY <1>5, <1>6, Zenon

\* ... for what is done with a word swapped out ...
LEMMA Swapping ==
  ASSUME NEW t, NEW w \in BlockWords, SwappedOut(t, w)
  PROVE  Records!SwappedOut(t, Block(w))
<1>1. resolve_handle(Low(w)) = Block(w).handle /\ High(w) = Block(w).refs
  BY BlockHandle
<1> QED
  BY <1>1 DEF SwappedOut, Goto, Records!SwappedOut, Records!Goto

\* ... which leaves words behind ...
LEMMA SwappingKeepsTypes ==
  ASSUME WordsInv, NEW t \in Threads, NEW w \in BlockWords, SwappedOut(t, w)
  PROVE  /\ job' \in [Threads -> Pointers] /\ refs' \in [Threads -> 0 .. M - 1]
         /\ DOMAIN pc' = Threads
         /\ pc'[t] # "cas" /\ (pc'[t] # "idle" => job'[t] \in Versions)
         /\ \A u \in Threads \ {t} : pc'[u] = pc[u] /\ job'[u] = job[u]
<1>1. /\ resolve_handle(Low(w)) \in Pointers /\ High(w) \in 0 .. M - 1
      /\ 0 \in 0 .. M - 1
  BY BlockHandle, Sizes
<1> QED
  BY <1>1 DEF SwappedOut, Goto, WordsInv, Pointers

\* ... by an exchange ...
LEMMA ExchangeStep ==
  ASSUME WordsInv, NEW t \in Threads, NEW c \in Slots, ExchangeVersion(t, c)
  PROVE  WordsInv' /\ Records!ExchangeVersion(t, c)
<1>1. cb[c] \in BlockWords /\ mine[t] \in Pointers /\ DOMAIN cb = Slots
  BY DEF WordsInv
<1>2. /\ HandleOf(mine[t]) \in BlockWords
      /\ Block(HandleOf(mine[t])) = Records!Installed(mine[t])
  BY <1>1, BlockInstalled
<1>3. [d \in Slots |-> Block(cb'[d])]
        = [[d \in Slots |-> Block(cb[d])] EXCEPT ![c] = Records!Installed(mine[t])]
  BY <1>1, <1>2, DecodedBlock, Zenon DEF ExchangeVersion
<1>4. Records!SwappedOut(t, Block(cb[c]))
  BY <1>1, Swapping, Zenon DEF ExchangeVersion
<1>5. WordsInv'
  BY <1>1, <1>2, SwappingKeepsTypes, NullHandle, Zenon DEF ExchangeVersion, WordsInv
<1>6. Records!ExchangeVersion(t, c)
  BY <1>3, <1>4
  DEF ExchangeVersion, MayCall, Records!ExchangeVersion, Records!MayCall
<1> QED
  BY <1>5, <1>6

\* ... for the comparison of a compare-exchange ...
LEMMA CompareStep ==
  ASSUME WordsInv, NEW t \in Threads, NEW c \in Slots, NEW expected \in Pointers,
         CompareExchange(t, c, expected)
  PROVE  WordsInv' /\ Records!CompareExchange(t, c, expected)
<1> USE DEF CompareExchange, Goto
<1>1. cb[c] \in BlockWords /\ DOMAIN val = Threads
  BY DEF WordsInv
<1>2. Block(cb[c]).handle = expected
  BY <1>1, BlockHandle
<1>3. [u \in Threads |-> Block(val'[u])]
        = [[u \in Threads |-> Block(val[u])] EXCEPT ![t] = Block(cb[c])]
  BY <1>1, DecodedBlock, Zenon
<1>4. WordsInv'
  BY <1>1 DEF WordsInv
<1>5. Records!CompareExchange(t, c, expected)
  BY <1>2, <1>3 DEF MayCall, Records!CompareExchange, Records!MayCall, Records!Goto
<1> QED
  BY <1>4, <1>5

\* ... and its CAS ...
LEMMA CasSteps ==
  ASSUME WordsInv, NEW t \in Threads, CasSucceeds(t) \/ CasRetries(t) \/ CasFails(t)
  PROVE  WordsInv' /\ Records!Step(t)
<1> DEFINE c == slot[t]
<1>1. /\ pc[t] = "cas" /\ c \in Slots /\ cb[c] \in BlockWords /\ val[t] \in BlockWords
      /\ DOMAIN cb = Slots /\ DOMAIN val = Threads /\ mine[t] \in Pointers
  BY Zenon DEF WordsInv, CasSucceeds, CasRetries, CasFails
<1>2. /\ Block(cb[c]) = Block(val[t]) <=> cb[c] = val[t]
      /\ Block(cb[c]).handle = Block(val[t]).handle <=> Low(cb[c]) = Low(val[t])
  BY <1>1, BlockInjective, BlockHandle
<1>3. ASSUME NEW w \in BlockWords, val' = [val EXCEPT ![t] = w]
      PROVE  [u \in Threads |-> Block(val'[u])]
               = [[u \in Threads |-> Block(val[u])] EXCEPT ![t] = Block(w)]
  BY <1>1, <1>3, DecodedBlock, Zenon
<1>4. CASE CasSucceeds(t)
  <2>1. /\ HandleOf(mine[t]) \in BlockWords
        /\ Block(HandleOf(mine[t])) = Records!Installed(mine[t])
    BY <1>1, BlockInstalled
  <2>2. [d \in Slots |-> Block(cb'[d])]
          = [[d \in Slots |-> Block(cb[d])] EXCEPT ![c] = Records!Installed(mine[t])]
    BY <1>1, <1>4, <2>1, DecodedBlock, Zenon DEF CasSucceeds
  <2>3. [u \in Threads |-> Block(val'[u])]
          = [[u \in Threads |-> Block(val[u])] EXCEPT ![t] = Records!EmptyBlock]
    BY <1>3, <1>4, BlockEmpty, Zenon DEF CasSucceeds
  <2>4. Records!SwappedOut(t, Block(val[t]))
    BY <1>1, <1>4, Swapping DEF CasSucceeds
  <2>5. WordsInv'
    BY <1>1, <1>4, <2>1, SwappingKeepsTypes, BlockEmpty, NullHandle, Zenon
    DEF CasSucceeds, WordsInv
  <2>6. Records!CasSucceeds(t)
    BY <1>1, <1>2, <1>4, <2>2, <2>3, <2>4, Zenon
    DEF CasSucceeds, Records!CasSucceeds
  <2> QED
    BY <2>5, <2>6 DEF Records!Step
<1>5. CASE CasRetries(t)
  <2>1. [u \in Threads |-> Block(val'[u])]
          = [[u \in Threads |-> Block(val[u])] EXCEPT ![t] = Block(cb[c])]
    BY <1>1, <1>3, <1>5, Zenon DEF CasRetries
  <2>2. WordsInv'
    BY <1>1, <1>5 DEF CasRetries, WordsInv
  <2>3. Records!CasRetries(t)
    BY <1>1, <1>2, <1>5, <2>1, Zenon DEF CasRetries, Records!CasRetries
  <2> QED
    BY <2>2, <2>3 DEF Records!Step
<1>6. CASE CasFails(t)
  <2>1. [u \in Threads |-> Block(val'[u])]
          = [[u \in Threads |-> Block(val[u])] EXCEPT ![t] = Records!EmptyBlock]
    BY <1>3, <1>6, BlockEmpty, Zenon DEF CasFails
  <2>2. WordsInv'
    BY <1>1, <1>6, BlockEmpty, Zenon DEF CasFails, Goto, WordsInv
  <2>3. Records!CasFails(t)
    BY <1>1, <1>2, <1>6, <2>1, Zenon
    DEF CasFails, Goto, Records!CasFails, Records!Goto
  <2> QED
    BY <2>2, <2>3 DEF Records!Step
<1> QED
  BY <1>4, <1>5, <1>6

\* ... for the detaching of the old version ...
LEMMA DetachSteps ==
  ASSUME WordsInv, NEW t \in Threads,
         DetachLoads(t) \/ DetachRetries(t) \/ DetachSucceeds(t)
  PROVE  WordsInv' /\ Records!Step(t)
<1> DEFINE v == job[t]
<1>1. /\ v \in Versions /\ inner[v] \in StateWords /\ cur[t] \in StateWords
      /\ DOMAIN inner = Versions /\ DOMAIN cur = Threads
      /\ refs[t] \in 0 .. M - 1
  BY Zenon DEF WordsInv, DetachLoads, DetachRetries, DetachSucceeds
<1>2. State(inner[v]) = State(cur[t]) <=> inner[v] = cur[t]
  BY <1>1, StateInjective, Zenon
<1>3. ASSUME NEW w \in StateWords, cur' = [cur EXCEPT ![t] = w]
      PROVE  [u \in Threads |-> State(cur'[u])]
               = [[u \in Threads |-> State(cur[u])] EXCEPT ![t] = State(w)]
  BY <1>1, <1>3, DecodedState
<1>4. CASE DetachLoads(t)
  <2>1. [u \in Threads |-> State(cur'[u])]
          = [[u \in Threads |-> State(cur[u])] EXCEPT ![t] = State(inner[v])]
    BY <1>1, <1>3, <1>4, Zenon DEF DetachLoads
  <2>2. WordsInv'
    BY <1>1, <1>4 DEF DetachLoads, Goto, WordsInv
  <2>3. Records!DetachLoads(t)
    BY <1>1, <1>4, <2>1, Zenon
    DEF DetachLoads, Goto, Records!DetachLoads, Records!Goto
  <2> QED
    BY <2>2, <2>3 DEF Records!Step
<1>5. CASE DetachRetries(t)
  <2>1. [u \in Threads |-> State(cur'[u])]
          = [[u \in Threads |-> State(cur[u])] EXCEPT ![t] = State(inner[v])]
    BY <1>1, <1>3, <1>5, Zenon DEF DetachRetries
  <2>2. WordsInv'
    BY <1>1, <1>5 DEF DetachRetries, WordsInv
  <2>3. Records!DetachRetries(t)
    BY <1>1, <1>2, <1>5, <2>1, Zenon DEF DetachRetries, Records!DetachRetries
  <2> QED
    BY <2>2, <2>3 DEF Records!Step
<1>6. CASE DetachSucceeds(t)
  <2> DEFINE n == Adjusted(cur[t], refs[t])
             r == Records!Adjusted(State(cur[t]), refs[t])
  <2>1. n \in StateWords /\ State(n) = r
    BY <1>1, StateAdjusted
  <2>2. [d \in Versions |-> State(inner'[d])]
          = [[d \in Versions |-> State(inner[d])] EXCEPT ![v] = r]
    BY <1>1, <1>6, <2>1, DecodedState, Zenon DEF DetachSucceeds
  <2>3. [u \in Threads |-> State(cur'[u])]
          = [[u \in Threads |-> State(cur[u])] EXCEPT ![t] = Records!FreshInner]
    BY <1>3, <1>6, StateFresh, Zenon DEF DetachSucceeds
  <2>4. Records!TryFinalize(t, v, r)
    <3>1. TryFinalize(t, v, n)
      BY <1>6, Zenon DEF DetachSucceeds
    <3> QED
      BY <2>1, <3>1, Claiming, Zenon
  <2>5. WordsInv'
    <3>1. inner' \in [Versions -> StateWords] /\ cur' \in [Threads -> StateWords]
      BY <1>1, <1>6, <2>1, StateFresh, Zenon DEF DetachSucceeds, WordsInv
    <3>2. refs' \in [Threads -> 0 .. M - 1]
      <4>1. 0 \in 0 .. M - 1
        BY Sizes
      <4> QED
        BY <1>6, <4>1, Zenon DEF DetachSucceeds, WordsInv
    <3>3. /\ job' \in [Threads -> Pointers]
          /\ DOMAIN pc' = Threads
          /\ \A u \in Threads :
               /\ u # t => pc'[u] = pc[u] /\ job'[u] = job[u]
               /\ pc'[t] # "cas"
               /\ pc'[t] = "finalize" => job'[t] = v
               /\ pc'[t] \in {"finalize", "idle"}
      BY <1>1, <1>6, Zenon DEF DetachSucceeds, TryFinalize, Goto, WordsInv, Pointers
    <3> HIDE DEF v, n, r
    <3> QED
      BY <1>1, <1>6, <3>1, <3>2, <3>3, Zenon DEF DetachSucceeds, WordsInv
  <2>6. Records!DetachSucceeds(t)
    BY <1>1, <1>2, <1>6, <2>2, <2>3, <2>4, Zenon
    DEF DetachSucceeds, Records!DetachSucceeds
  <2> QED
    BY <2>5, <2>6, Zenon DEF Records!Step
<1> QED
  BY <1>4, <1>5, <1>6

\* ... for its finalization, callback and slot ...
LEMMA ReclaimSteps ==
  ASSUME WordsInv, NEW t \in Threads, Finalize(t) \/ Callback(t) \/ FreeSlot(t)
  PROVE  WordsInv' /\ Records!Step(t)
<1> DEFINE v == job[t]
<1>1. v \in Versions /\ inner[v] \in StateWords /\ DOMAIN inner = Versions
  BY Zenon DEF WordsInv, Finalize, Callback, FreeSlot
<1>2. CASE Finalize(t)
  <2> DEFINE s == [State(inner[v]) EXCEPT !.flags = @ \cup {"FINALIZED"}]
  <2>1. Finalized(inner[v]) \in StateWords /\ State(Finalized(inner[v])) = s
    BY <1>1, StateFinalized, Zenon
  <2>2. [d \in Versions |-> State(inner'[d])]
          = [[d \in Versions |-> State(inner[d])] EXCEPT ![v] = s]
    BY <1>1, <1>2, <2>1, DecodedState, Zenon DEF Finalize
  <2>3. Bit(Low(inner[v]), FINALIZED) <=> "FINALIZED" \in State(inner[v]).flags
    BY <1>1, StateFacts
  <2>4. WordsInv'
    BY <1>1, <1>2, <2>1 DEF Finalize, Goto, WordsInv
  <2>5. Records!Finalize(t)
    BY <1>1, <1>2, <2>2, <2>3, Zenon
    DEF Finalize, Goto, Records!Finalize, Records!Goto
  <2> QED
    BY <2>4, <2>5 DEF Records!Step
<1>3. CASE Callback(t)
  <2>1. WordsInv'
    BY <1>3 DEF Callback, Goto, WordsInv
  <2>2. Records!Callback(t)
    BY <1>3 DEF Callback, Goto, Records!Callback, Records!Goto
  <2> QED
    BY <2>1, <2>2, Zenon DEF Records!Step
<1>4. CASE FreeSlot(t)
  <2>1. WordsInv'
    BY <1>1, <1>4 DEF FreeSlot, Goto, WordsInv, Pointers
  <2>2. Records!FreeSlot(t)
    BY <1>4 DEF FreeSlot, Goto, Records!FreeSlot, Records!Goto
  <2> QED
    BY <2>1, <2>2, Zenon DEF Records!Step
<1> QED
  BY <1>2, <1>3, <1>4

-----------------------------------------------------------------------------
\* ... and so for any step.
LEMMA NextStep ==
  ASSUME WordsInv, [Next]_vars
  PROVE  WordsInv' /\ [Records!Next]_(Records!vars)
<1>1. CASE InitGate \/ DestroyGate
  BY <1>1, GateSteps DEF Records!Next
<1>2. ASSUME NEW t \in Threads, Call(t)
      PROVE  WordsInv' /\ Records!Call(t)
  <2>1. CASE (\E v \in Versions : MakeVersion(t, v)) \/ SetObject(t) \/ FreeVersion(t)
    BY <2>1, PrivateSteps
  <2>2. CASE ReleaseVersion(t)
    BY <2>2, ReleaseStep DEF Records!Call
  <2>3. CASE \E c \in Slots : AcquireVersion(t, c) \/ ExchangeVersion(t, c)
    BY <2>3, AcquireStep, ExchangeStep DEF Records!Call
  <2>4. CASE \E c \in Slots, expected \in Pointers : CompareExchange(t, c, expected)
    BY <2>4, CompareStep DEF Records!Call, Records!Handles, Pointers
  <2> QED
    BY <1>2, <2>1, <2>2, <2>3, <2>4 DEF Call, Pointers
<1>3. ASSUME NEW t \in Threads, Step(t)
      PROVE  WordsInv' /\ Records!Step(t)
  BY <1>3, CasSteps, DetachSteps, ReclaimSteps, Zenon DEF Step
<1>4. CASE vars' = vars
  BY <1>4 DEF vars, WordsInv, Records!vars
<1> QED
  BY <1>1, <1>2, <1>3, <1>4 DEF Next, Records!Next

(***************************************************************************)
(* The word arithmetic of atomsnap.c implements the protocol of Gate, for  *)
(* halves of any size, any number of threads, versions and slots, and any  *)
(* placement of the versions in arenas with fewer slots than slot_idx has  *)
(* values, which is what keeps HANDLE_NULL free.                           *)
(***************************************************************************)
THEOREM WordsImplementGate == Spec => ImplementsGate
<1>1. Init => WordsInv /\ Records!Init
  <2> SUFFICES ASSUME Init PROVE WordsInv /\ Records!Init
    OBVIOUS
  <2>1. WordsInv
    BY BlockEmpty, StateFresh, Sizes DEF Init, WordsInv, Pointers
  <2>2. Records!Init
    BY BlockEmpty, StateFresh DEF Init, Records!Init
  <2> QED
    BY <2>1, <2>2
<1>2. WordsInv /\ [Next]_vars => WordsInv' /\ [Records!Next]_(Records!vars)
  BY NextStep
<1> QED
  BY <1>1, <1>2, PTL DEF Spec, ImplementsGate, Records!Spec
=============================================================================
