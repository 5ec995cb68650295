--------------------------- MODULE FlipChainProofs ---------------------------
(***************************************************************************)
(* Theorems about FlipChain for every number of flip buffers.              *)
(***************************************************************************)
EXTENDS FlipChain, TLAPS

(* One turn round the ring at most: the remainder is a case distinction. *)
LEMMA RingStep ==
  ASSUME N \in Nat \ {0}
  PROVE  \A a \in Slot, k \in 0 .. N :
           /\ a + k < N => Plus(a, k) = a + k
           /\ a + k >= N => Plus(a, k) = a + k - N
           /\ Plus(a, k) \in Slot
<1> TAKE a \in Slot, k \in 0 .. N
<1>1. CASE a + k < N
  BY <1>1 DEF Slot, Plus
<1>2. CASE a + k >= N
  BY <1>2 DEF Slot, Plus
<1> QED  BY <1>1, <1>2 DEF Slot

(* Steps round the ring add up. *)
LEMMA PlusPlus ==
  ASSUME N \in Nat \ {0}, NEW a \in Slot, NEW j \in 0 .. N, NEW k \in 0 .. N,
         j + k <= N
  PROVE  Plus(Plus(a, j), k) = Plus(a, j + k)
<1>1. a \in Int /\ a >= 0 /\ a < N /\ j + k \in 0 .. N
  BY DEF Slot
<1>2. /\ a + j < N => Plus(a, j) = a + j
      /\ a + j >= N => Plus(a, j) = a + j - N
      /\ Plus(a, j) \in Slot
  BY RingStep
<1>3. /\ a + (j + k) < N => Plus(a, j + k) = a + (j + k)
      /\ a + (j + k) >= N => Plus(a, j + k) = a + (j + k) - N
  BY <1>1, RingStep
<1> DEFINE p == Plus(a, j)
<1>4. p \in Slot /\ p \in Int
  BY <1>2 DEF Slot
<1> HIDE DEF p
<1>5. /\ p + k < N => Plus(p, k) = p + k
      /\ p + k >= N => Plus(p, k) = p + k - N
  BY <1>4, RingStep
<1>6. a + j < N => p = a + j
  BY <1>2 DEF p
<1>7. a + j >= N => p = a + j - N
  BY <1>2 DEF p
<1>8. Plus(p, k) = Plus(a, j + k)
  BY <1>1, <1>3, <1>4, <1>5, <1>6, <1>7
<1> QED  BY <1>8 DEF p

(* The ring has a slot after each slot, and the first one is 0. *)
LEMMA SlotFacts ==
  ASSUME N \in Nat \ {0}
  PROVE  /\ 0 \in Slot
         /\ \A i \in Slot : After(i) \in Slot /\ After(i) = Plus(i, 1)
         /\ \A i \in Slot : Plus(i, N) = i
<1>1. 0 \in Slot /\ 1 \in 0 .. N /\ N \in 0 .. N
  BY DEF Slot
<1>2. \A i \in Slot : After(i) \in Slot /\ After(i) = Plus(i, 1)
  BY <1>1, RingStep DEF After
<1>3. \A i \in Slot : Plus(i, N) = i
  <2> TAKE i \in Slot
  <2>1. i \in Int /\ i + N >= N
    BY DEF Slot
  <2>2. Plus(i, N) = i + N - N
    BY <1>1, <2>1, RingStep
  <2> QED  BY <2>1, <2>2
<1> QED  BY <1>1, <1>2, <1>3

(* The chain of an initial state, and of a reset, is empty and starts at 0. *)
LEMMA EmptyChain ==
  ASSUME N \in Nat \ {0}
  PROVE  Init => TypeOK /\ ChainIsArc /\ DrawIsFree
<1> SUFFICES ASSUME Init PROVE TypeOK /\ ChainIsArc /\ DrawIsFree
  OBVIOUS
<1>1. 0 \in Slot
  BY DEF Slot
<1>2. TypeOK
  <2>1. After(0) \in Slot
    BY <1>1, SlotFacts
  <2>2. <<>> \in Seq(Slot)
    OBVIOUS
  <2> QED  BY <1>1, <2>1, <2>2, Zenon DEF Init, TypeOK
<1>3. ChainIsArc
  BY DEF Init, ChainIsArc, Step, After
<1> QED  BY <1>2, <1>3 DEF DrawIsFree, Init

(***************************************************************************)
(* The buffer indexes of the flip chain stay in the ring.                  *)
(***************************************************************************)
THEOREM ChainTypeCorrect ==
  ASSUME N \in Nat \ {0}
  PROVE  Spec => []TypeOK
<1>1. TypeOK /\ [Next]_vars => TypeOK'
  <2> SUFFICES ASSUME TypeOK, [Next]_vars PROVE TypeOK'
    OBVIOUS
  <2>1. CASE Acquire \/ GiveUp
    BY <2>1 DEF TypeOK, Acquire, GiveUp
  <2>2. CASE SubmitFrame
    <3>1. After(draw) \in Slot
      BY SlotFacts DEF TypeOK
    <3>2. Append(chain, draw) \in Seq(Slot)
      BY DEF TypeOK
    <3> QED  BY <2>2, <3>1, <3>2, Zenon DEF TypeOK, SubmitFrame
  <2>3. CASE Show
    BY <2>3 DEF TypeOK, Show
  <2>4. CASE Reset
    <3>1. 0 \in Slot /\ After(0) \in Slot
      BY SlotFacts
    <3>2. <<>> \in Seq(Slot)
      OBVIOUS
    <3> QED  BY <2>4, <3>1, <3>2, Zenon DEF TypeOK, Reset
  <2>5. CASE UNCHANGED vars
    BY <2>5 DEF TypeOK, vars
  <2> QED  BY <2>1, <2>2, <2>3, <2>4, <2>5 DEF Next
<1> QED  BY <1>1, EmptyChain, PTL DEF Spec

(* A buffer that is free to draw exists only while the ring is not full. *)
LEMMA RoomInChain ==
  ASSUME N \in Nat \ {0}, TypeOK, ChainIsArc, draw \notin InUse
  PROVE  Len(chain) + 1 <= N - 1
<1> SUFFICES ASSUME Len(chain) = N - 1 PROVE FALSE
  BY DEF ChainIsArc, TypeOK
<1>1. draw = Plus(shown, N)
  BY DEF ChainIsArc, Step
<1>2. draw = shown
  BY <1>1, SlotFacts DEF TypeOK
<1> QED  BY <1>2 DEF InUse

(***************************************************************************)
(* The frames in flight are consecutive buffers of the ring that follow    *)
(* the one on the screen, so they are different from it and from each      *)
(* other, and there is always one buffer that is none of them.             *)
(***************************************************************************)
THEOREM ChainStaysArc ==
  ASSUME N \in Nat \ {0}
  PROVE  Spec => []ChainIsArc
<1>1. TypeOK /\ ChainIsArc /\ [Next]_vars => ChainIsArc'
  <2> SUFFICES ASSUME TypeOK, ChainIsArc, [Next]_vars PROVE ChainIsArc'
    OBVIOUS
  <2>1. CASE Acquire \/ GiveUp \/ UNCHANGED vars
    BY <2>1 DEF ChainIsArc, Step, Acquire, GiveUp, vars
  <2>2. CASE SubmitFrame
    <3> DEFINE n == Len(chain)
    <3>1. n + 1 <= N - 1 /\ n \in Nat
      BY <2>2, RoomInChain DEF SubmitFrame, TypeOK
    <3>2. /\ Len(chain') = n + 1
          /\ \A i \in 1 .. n : chain'[i] = chain[i]
          /\ chain'[n + 1] = draw
          /\ shown' = shown /\ draw' = After(draw)
      BY <2>2 DEF SubmitFrame, TypeOK
    <3>3. draw = Step(n + 1)
      BY DEF ChainIsArc
    <3>4. After(draw) = Step(n + 2)
      <4>1. n + 1 \in 0 .. N /\ 1 \in 0 .. N /\ (n + 1) + 1 = n + 2 /\ n + 2 <= N
        BY <3>1
      <4>2. After(draw) = Plus(Plus(shown, n + 1), 1)
        BY <3>3, SlotFacts DEF Step, TypeOK
      <4> HIDE DEF n
      <4> QED  BY <4>1, <4>2, PlusPlus DEF Step, TypeOK
    <3> QED  BY <3>1, <3>2, <3>3, <3>4 DEF ChainIsArc, Step
  <2>3. CASE Show
    <3> DEFINE n == Len(chain)
    <3>1. n \in Nat /\ n >= 1 /\ n <= N - 1
      BY <2>3 DEF Show, TypeOK, ChainIsArc
    <3>2. /\ Len(chain') = n - 1
          /\ \A i \in 1 .. n - 1 : chain'[i] = chain[i + 1]
          /\ shown' = chain[1] /\ draw' = draw
      BY <2>3 DEF Show, TypeOK
    <3>3. shown' = Step(1)
      BY <3>1, <3>2 DEF ChainIsArc
    <3>4. \A k \in 0 .. n : Step(k)' = Step(k + 1)
      <4> TAKE k \in 0 .. n
      <4>1. k \in 0 .. N /\ 1 \in 0 .. N /\ 1 + k <= N /\ 1 + k = k + 1
        BY <3>1
      <4>2. Step(k)' = Plus(Plus(shown, 1), k)
        BY <3>3 DEF Step
      <4> HIDE DEF n
      <4> QED  BY <4>1, <4>2, PlusPlus DEF Step, TypeOK
    <3> QED  BY <3>1, <3>2, <3>4 DEF ChainIsArc
  <2>4. CASE Reset
    BY <2>4 DEF Reset, ChainIsArc, Step, After
  <2> QED  BY <2>1, <2>2, <2>3, <2>4 DEF Next
<1> QED  BY <1>1, EmptyChain, ChainTypeCorrect, PTL DEF Spec

(***************************************************************************)
(* The buffer a client draws into is neither shown nor waits to be shown.  *)
(***************************************************************************)
THEOREM DrawStaysFree ==
  ASSUME N \in Nat \ {0}
  PROVE  Spec => []DrawIsFree
<1>1. TypeOK /\ DrawIsFree /\ [Next]_vars => DrawIsFree'
  <2> SUFFICES ASSUME TypeOK, DrawIsFree, [Next]_vars PROVE DrawIsFree'
    OBVIOUS
  <2>1. CASE Acquire \/ GiveUp \/ SubmitFrame \/ Reset \/ UNCHANGED vars
    BY <2>1 DEF DrawIsFree, InUse, Acquire, GiveUp, SubmitFrame, Reset, vars
  <2>2. CASE Show
    <3>1. Len(chain) >= 1 /\ Len(chain) \in Nat
      BY <2>2 DEF Show, TypeOK
    <3>2. /\ Len(chain') = Len(chain) - 1
          /\ \A i \in 1 .. Len(chain) - 1 : chain'[i] = chain[i + 1]
          /\ shown' = chain[1] /\ UNCHANGED <<draw, drawing>>
      BY <2>2 DEF Show, TypeOK
    <3> QED  BY <3>1, <3>2 DEF DrawIsFree, InUse
  <2> QED  BY <2>1, <2>2 DEF Next
<1> QED  BY <1>1, EmptyChain, ChainTypeCorrect, PTL DEF Spec
=============================================================================
