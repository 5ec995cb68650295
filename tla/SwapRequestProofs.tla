------------------------- MODULE SwapRequestProofs -------------------------
(***************************************************************************)
(* The life of a swap request: whatever the order of requests and events,  *)
(* an event of the kernel finds the request it was asked for, a request is *)
(* in the queue until it is done or killed, and the handlers that are on   *)
(* the stack find it in the state that they were called for.  The flips    *)
(* that are in the queue are a chain through the ring of flip buffers.     *)
(***************************************************************************)
EXTENDS SwapQueueProofs

(* No request is in the queue twice. *)
NoRepeat(q) == \A i, j \in DOMAIN q : q[i] = q[j] => i = j

(* The queue orders its elements. *)
LEMMA BeforeOrder ==
  ASSUME NEW q \in Seq(ReqIds), NoRepeat(q)
  PROVE  /\ \A x, y : Before(q, x, y) => x \in Elems(q) /\ y \in Elems(q) /\ ~Before(q, y, x)
         /\ \A x, y : Before(q, x, y) => x # y
         /\ \A x, y \in Elems(q) : x = y \/ Before(q, x, y) \/ Before(q, y, x)
         /\ \A x, y, z : Before(q, x, y) /\ Before(q, y, z) => Before(q, x, z)
<1>1. DOMAIN q = 1 .. Len(q) /\ Len(q) \in Nat
  OBVIOUS
<1> QED  BY <1>1 DEF NoRepeat, Elems, Before

(* A request that is appended comes last. *)
LEMMA AppendOrder ==
  ASSUME NEW q \in Seq(ReqIds), NoRepeat(q), NEW x \in ReqIds, x \notin Elems(q)
  PROVE  /\ NoRepeat(Append(q, x))
         /\ Elems(Append(q, x)) = Elems(q) \cup {x}
         /\ \A a, b : Before(Append(q, x), a, b) <=>
                        Before(q, a, b) \/ (a \in Elems(q) /\ b = x)
<1> DEFINE p == Append(q, x)
           n == Len(q)
<1>1. /\ n \in Nat /\ DOMAIN q = 1 .. n /\ DOMAIN p = 1 .. n + 1
      /\ p[n + 1] = x /\ \A i \in 1 .. n : p[i] = q[i]
  BY AppendProperties
<1>2. \A i \in DOMAIN p : i \in DOMAIN q \/ i = n + 1
  BY <1>1
<1>3. \A i \in DOMAIN q : i \in DOMAIN p /\ i < n + 1 /\ q[i] # x /\ p[i] = q[i]
  BY <1>1 DEF Elems
<1> HIDE DEF p
<1>4. NoRepeat(p)
  BY <1>1, <1>2, <1>3 DEF NoRepeat
<1>5. Elems(p) = Elems(q) \cup {x}
  BY <1>1, <1>2, <1>3 DEF Elems
<1>6. ASSUME NEW a, NEW b
      PROVE  Before(p, a, b) <=> Before(q, a, b) \/ (a \in Elems(q) /\ b = x)
  <2>1. ASSUME Before(p, a, b) PROVE Before(q, a, b) \/ (a \in Elems(q) /\ b = x)
    <3>1. PICK i, j \in DOMAIN p : i < j /\ p[i] = a /\ p[j] = b
      BY <2>1 DEF Before
    <3>2. i \in DOMAIN q /\ q[i] = a
      BY <1>1, <3>1
    <3>3. CASE j = n + 1
      BY <1>1, <3>1, <3>2, <3>3 DEF Elems
    <3>4. CASE j \in DOMAIN q
      BY <1>3, <3>1, <3>2, <3>4 DEF Before
    <3> QED  BY <1>2, <3>3, <3>4
  <2>2. ASSUME Before(q, a, b) PROVE Before(p, a, b)
    BY <1>3, <2>2 DEF Before
  <2>3. ASSUME a \in Elems(q), b = x PROVE Before(p, a, b)
    <3>1. PICK i \in DOMAIN q : q[i] = a
      BY <2>3 DEF Elems
    <3>2. i \in DOMAIN p /\ n + 1 \in DOMAIN p /\ i < n + 1 /\ p[i] = a /\ p[n + 1] = b
      BY <1>1, <1>3, <2>3, <3>1
    <3> QED  BY <3>2 DEF Before
  <2> QED  BY <2>1, <2>2, <2>3
<1> QED  BY <1>4, <1>5, <1>6 DEF p

(* A request that is unlinked leaves the others in their order. *)
LEMMA UnlinkOrder ==
  ASSUME NEW q \in Seq(ReqIds), NoRepeat(q), NEW x
  PROVE  /\ NoRepeat(Unlink(q, x))
         /\ Elems(Unlink(q, x)) = Elems(q) \ {x}
         /\ \A a, b : Before(Unlink(q, x), a, b) <=> Before(q, a, b) /\ a # x /\ b # x
<1> DEFINE p  == Unlink(q, x)
           n  == Len(q)
           at == {i \in DOMAIN q : q[i] = x}
<1>1. n \in Nat /\ DOMAIN q = 1 .. n
  OBVIOUS
<1>2. CASE at = {}
  <2>1. p = q /\ \A i \in DOMAIN q : q[i] # x
    BY <1>2 DEF Unlink
  <2> QED  BY <1>1, <2>1 DEF Elems, Before
<1>3. CASE at # {}
  <2> DEFINE k == CHOOSE i \in at : TRUE
  <2>1. k \in 1 .. n /\ q[k] = x /\ p = SubSeq(q, 1, k - 1) \o SubSeq(q, k + 1, n)
    BY <1>1, <1>3 DEF Unlink
  <2> HIDE DEF k
  <2> DEFINE s == SubSeq(q, 1, k - 1)
             t == SubSeq(q, k + 1, n)
  <2>2. k \in Int /\ n \in Int /\ 1 <= k /\ k <= n /\ \A i \in 1 .. n : q[i] \in ReqIds
    BY <1>1, <2>1
  <2>3. s \in Seq(ReqIds) /\ Len(s) = k - 1 /\ \A i \in 1 .. k - 1 : s[i] = q[i]
    <3>1. k - 1 \in Int /\ \A i \in 1 .. k - 1 : q[i] \in ReqIds
      BY <2>2
    <3> QED  BY <2>2, <3>1, SubSeqProperties
  <2>4. t \in Seq(ReqIds) /\ Len(t) = n - k /\ \A i \in 1 .. n - k : t[i] = q[k + i]
    <3>1. k + 1 \in Int /\ \A i \in k + 1 .. n : q[i] \in ReqIds
      BY <2>2
    <3>2. /\ t \in Seq(ReqIds) /\ Len(t) = IF k + 1 <= n THEN n - (k + 1) + 1 ELSE 0
          /\ \A i \in 1 .. n - (k + 1) + 1 : t[i] = q[k + 1 + i - 1]
      BY <2>2, <3>1, SubSeqProperties
    <3>3. Len(t) = n - k
      BY <2>2, <3>2
    <3>4. ASSUME NEW i \in 1 .. n - k PROVE t[i] = q[k + i]
      <4>1. i \in 1 .. n - (k + 1) + 1 /\ k + 1 + i - 1 = k + i
        BY <2>2
      <4> HIDE DEF t
      <4> QED  BY <3>2, <4>1
    <3> QED  BY <3>2, <3>3, <3>4
  <2> HIDE DEF s, t, p
  <2>5. p = s \o t
    BY <2>1 DEF s, t
  <2>6. /\ p \in Seq(ReqIds) /\ Len(p) = n - 1
        /\ \A i \in 1 .. n - 1 : p[i] = IF i < k THEN q[i] ELSE q[i + 1]
    <3>1. /\ p \in Seq(ReqIds) /\ Len(p) = Len(s) + Len(t)
          /\ \A i \in 1 .. Len(s) + Len(t) : p[i] = IF i <= Len(s) THEN s[i] ELSE t[i - Len(s)]
      BY <2>3, <2>4, <2>5, ConcatProperties
    <3>2. Len(s) + Len(t) = n - 1
      BY <2>2, <2>3, <2>4
    <3>3. ASSUME NEW i \in 1 .. n - 1 PROVE p[i] = IF i < k THEN q[i] ELSE q[i + 1]
      <4>1. CASE i < k
        BY <2>2, <2>3, <3>1, <3>2, <4>1
      <4>2. CASE ~(i < k)
        <5>1. p[i] = t[i - (k - 1)]
          BY <2>2, <2>3, <3>1, <3>2, <4>2
        <5>2. i - (k - 1) \in 1 .. n - k /\ k + (i - (k - 1)) = i + 1
          BY <2>2, <4>2
        <5> QED  BY <2>4, <4>2, <5>1, <5>2
      <4> QED  BY <4>1, <4>2
    <3> QED  BY <3>1, <3>2, <3>3
  <2>7. DOMAIN p = 1 .. n - 1
    BY <2>6
  <2>8. \A i \in 1 .. n : i # k => q[i] # x
    BY <1>1, <2>1 DEF NoRepeat
  <2> DEFINE Old(i) == IF i < k THEN i ELSE i + 1
             New(i) == IF i < k THEN i ELSE i - 1
  <2>9. ASSUME NEW i \in DOMAIN p
        PROVE  /\ Old(i) \in DOMAIN q /\ p[i] = q[Old(i)] /\ q[Old(i)] # x
               /\ \A j \in DOMAIN p : (Old(i) = Old(j) => i = j) /\ (i < j => Old(i) < Old(j))
    <3>1. Old(i) \in 1 .. n /\ Old(i) # k /\ p[i] = q[Old(i)]
      BY <2>2, <2>6, <2>7
    <3>2. \A j \in DOMAIN p : (Old(i) = Old(j) => i = j) /\ (i < j => Old(i) < Old(j))
      BY <2>2, <2>7
    <3> QED  BY <1>1, <2>8, <3>1, <3>2
  <2>10. ASSUME NEW i \in DOMAIN q, q[i] # x
        PROVE  /\ New(i) \in DOMAIN p /\ p[New(i)] = q[i]
               /\ \A j \in DOMAIN q : q[j] # x /\ i < j => New(i) < New(j)
    <3>1. i \in Int /\ i # k /\ 1 <= i /\ i <= n
      BY <1>1, <2>1, <2>10
    <3>2. New(i) \in DOMAIN p /\ p[New(i)] = q[i]
      <4>1. CASE i < k
        BY <2>2, <2>6, <2>7, <3>1, <4>1
      <4>2. CASE k < i
        <5>1. i - 1 \in 1 .. n - 1 /\ ~(i - 1 < k) /\ (i - 1) + 1 = i /\ New(i) = i - 1
          BY <2>2, <3>1, <4>2
        <5> HIDE DEF New
        <5> QED  BY <2>6, <2>7, <5>1
      <4> QED  BY <2>2, <3>1, <4>1, <4>2
    <3>3. \A j \in DOMAIN q : q[j] # x /\ i < j => New(i) < New(j)
      BY <1>1, <2>2, <2>1, <3>1
    <3> QED  BY <3>2, <3>3
  <2> HIDE DEF Old, New
  <2>11. NoRepeat(p)
    BY <2>9 DEF NoRepeat
  <2>12. Elems(p) = Elems(q) \ {x}
    BY <2>9, <2>10 DEF Elems
  <2>13. \A a, b : Before(p, a, b) <=> Before(q, a, b) /\ a # x /\ b # x
    BY <2>9, <2>10 DEF Before
  <2> QED  BY <2>11, <2>12, <2>13 DEF p
<1> QED  BY <1>2, <1>3

(* What a search of the queue finds is the first of its kind, *)
LEMMA FirstInFound ==
  ASSUME NEW q \in Seq(ReqIds), NoRepeat(q), NEW S, FirstIn(q, S) # 0
  PROVE  /\ FirstIn(q, S) \in Elems(q) /\ FirstIn(q, S) \in S
         /\ \A y \in S : ~Before(q, y, FirstIn(q, S))
<1> DEFINE first == {i \in DOMAIN q : q[i] \in S /\ \A j \in 1 .. i - 1 : q[j] \notin S}
           k     == CHOOSE i \in first : TRUE
<1>1. first # {} /\ FirstIn(q, S) = q[k]
  BY DEF FirstIn
<1>2. k \in first
  BY <1>1
<1>3. DOMAIN q = 1 .. Len(q) /\ Len(q) \in Nat
  OBVIOUS
<1> HIDE DEF k
<1>4. k \in DOMAIN q /\ q[k] \in S /\ \A j \in DOMAIN q : j < k => q[j] \notin S
  BY <1>2, <1>3
<1>5. \A y \in S : ~Before(q, y, q[k])
  BY <1>4 DEF Before, NoRepeat
<1> QED  BY <1>1, <1>4, <1>5 DEF Elems

(* the first of its kind is found, *)
LEMMA FirstInFinds ==
  ASSUME NEW q \in Seq(ReqIds), NoRepeat(q), NEW S, NEW x \in Elems(q) \cap S,
         \A y \in S : ~Before(q, y, x)
  PROVE  FirstIn(q, S) = x
<1> DEFINE first == {i \in DOMAIN q : q[i] \in S /\ \A j \in 1 .. i - 1 : q[j] \notin S}
           c     == CHOOSE i \in first : TRUE
<1>1. PICK k \in DOMAIN q : q[k] = x
  BY DEF Elems
<1>2. DOMAIN q = 1 .. Len(q) /\ Len(q) \in Nat
  OBVIOUS
<1>3. \A j \in DOMAIN q : j < k => q[j] \notin S
  BY <1>1 DEF Before
<1>4. k \in first
  BY <1>1, <1>2, <1>3
<1>5. \A i \in first : i = k
  BY <1>1, <1>2, <1>3
<1>6. FirstIn(q, S) = q[c]
  BY <1>4 DEF FirstIn
<1>7. c = k
  BY <1>4, <1>5
<1> QED  BY <1>1, <1>6, <1>7

(* and where there is none nothing is found. *)
LEMMA FirstInNone ==
  ASSUME NEW q, NEW S, Elems(q) \cap S = {}
  PROVE  FirstIn(q, S) = 0
BY DEF FirstIn, Elems

(* Where there is one, one is found. *)
LEMMA FirstInSome ==
  ASSUME NEW q \in Seq(ReqIds), NEW S, NEW x \in Elems(q) \cap S
  PROVE  FirstIn(q, S) # 0
<1> DEFINE at    == {i \in DOMAIN q : q[i] \in S}
           first == {i \in DOMAIN q : q[i] \in S /\ \A j \in 1 .. i - 1 : q[j] \notin S}
<1>1. DOMAIN q = 1 .. Len(q) /\ Len(q) \in Nat /\ \A i \in DOMAIN q : q[i] \in ReqIds
  OBVIOUS
<1>2. at # {} /\ at \in SUBSET Nat
  BY <1>1 DEF Elems
<1>3. PICK k \in at : \A i \in at : k <= i
  <2> DEFINE R == {p \in Nat \X Nat : p[1] < p[2]}
  <2>1. IsWellFoundedOn(R, Nat)
    BY NatLessThanWellFounded DEF OpToRel
  <2> HIDE DEF at, R
  <2>2. PICK k \in at : \A i \in at : <<i, k>> \notin R
    BY <1>2, <2>1, WFMin
  <2>3. \A i \in at : <<i, k>> \in Nat \X Nat /\ ~(i < k)
    BY <1>2, <2>2 DEF R
  <2>4. \A i \in at : k \in Nat /\ i \in Nat /\ ~(i < k)
    BY <1>2, <2>3
  <2>5. \A i \in at : k <= i
    BY <2>4
  <2> QED  BY <2>2, <2>5
<1>4. k \in first
  BY <1>1, <1>3
<1>5. \A i \in first : q[i] # 0
  BY <1>1 DEF ReqIds
<1>6. (CHOOSE i \in first : TRUE) \in first /\ FirstIn(q, S) = q[CHOOSE i \in first : TRUE]
  BY <1>4 DEF FirstIn
<1> QED  BY <1>5, <1>6

(* What swap_reqs_find_next_flip finds is rendered and first of its class. *)
LEMMA NextFlipFound ==
  ASSUME NEW rs, NEW q \in Seq(ReqIds), NoRepeat(q), NEW r, FindNextFlip(rs, q, r) # 0
  PROVE  LET x == FindNextFlip(rs, q, r)
         IN  /\ x \in Elems(q) /\ x \in ReqIds /\ rs[x].rendered /\ SameClass(r, rs[x])
             /\ \A y \in ReqIds : SameClass(r, rs[y]) => ~Before(q, y, x)
<1> DEFINE S == {i \in ReqIds : SameClass(r, rs[i])}
           x == FirstIn(q, S)
<1>1. x # 0 /\ rs[x].rendered /\ FindNextFlip(rs, q, r) = x
  BY DEF FindNextFlip
<1>2. x \in Elems(q) /\ x \in S /\ \A y \in S : ~Before(q, y, x)
  BY <1>1, FirstInFound
<1> QED  BY <1>1, <1>2

-----------------------------------------------------------------------------
(***************************************************************************)
(* Where a live or killed request is in its life.  Each handler finds the  *)
(* request it is called for in one of these states ...                     *)
(***************************************************************************)
SyncReady(id) ==
  LET r == reqs[id]
  IN  /\ r.used /\ ~r.rendered /\ ~r.issued /\ ~r.flipped /\ r.num = 0
      /\ id \notin syncEv /\ flipEv[id] = {}

FlipReady(id) ==
  LET r == reqs[id]
  IN  /\ r.used /\ ~r.dead /\ r.rendered /\ ~r.issued /\ ~r.flipped
      /\ id \notin syncEv /\ flipEv[id] = {}
      /\ \A x \in Elems(queue) : SameClass(reqs[x], r) => ~Before(queue, x, id)

Flipping(id) ==
  LET r == reqs[id]
  IN  /\ r.used /\ r.rendered /\ r.issued /\ ~r.flipped
      /\ r.num = Cardinality(flipEv[id]) + 1
      /\ id \notin syncEv

Flipped(id) ==
  LET r == reqs[id]
  IN  /\ r.used /\ ~r.dead /\ r.rendered /\ r.issued /\ r.flipped /\ r.num = 0
      /\ id \notin syncEv /\ flipEv[id] = {}

CallReady(f) ==
  /\ f.call = "sync_handler" => SyncReady(f.id)
  /\ f.call = "flip_swap_req" => FlipReady(f.id)
  /\ f.call = "flip_handler" => Flipping(f.id)
  /\ f.call = "flip_done" => Flipped(f.id)

(* ... and the others wait for the events that are outstanding. *)
Resting(id) ==
  LET r == reqs[id]
  IN  /\ ~r.flipped
      /\ r.rendered <=> id \notin syncEv
      /\ r.issued <=> flipEv[id] # {}
      /\ r.issued => r.rendered
      /\ r.num = Cardinality(flipEv[id])
      /\ r.dead => id \in syncEv \/ r.issued

OnStack(id) == \E i \in 1 .. Len(stack) : stack[i].id = id

(* The queue holds the live requests, each once. *)
QueueIsLive ==
  /\ NoRepeat(queue)
  /\ Elems(queue) = {id \in ReqIds : reqs[id].used /\ ~reqs[id].dead}

(* No event is outstanding for an address that is free. *)
FreeIsQuiet == \A id \in ReqIds : ~reqs[id].used => id \notin syncEv /\ flipEv[id] = {}

OthersRest == \A id \in ReqIds : reqs[id].used /\ ~OnStack(id) => Resting(id)

(* Only the first request of its class is flipped. *)
IssuedIsFirst ==
  \A x, y \in Elems(queue) :
    SameClass(reqs[x], reqs[y]) /\ Before(queue, x, y) => ~reqs[y].issued

(***************************************************************************)
(* A handler calls the next one as its last deed, with one exception: the  *)
(* flip of a window without vsync is followed by damage, which may issue   *)
(* updates, and then flip_handler goes on.  Flips and updates are of       *)
(* different classes then.                                                 *)
(***************************************************************************)
StackInOrder ==
  /\ Len(stack) <= 2
  /\ \A i \in 1 .. Len(stack) : CallReady(stack[i])
  /\ Len(stack) = 2 =>
       /\ stack[2].call = "flip_done" /\ reqs[stack[2].id].update = SWAP_INVALID_IDX
       /\ stack[1].call = "schedule_damage" \/ reqs[stack[1].id].update # SWAP_INVALID_IDX

LifeCycle ==
  QueueIsLive /\ FreeIsQuiet /\ OthersRest /\ IssuedIsFirst /\ StackInOrder

(* It rests on these variables. *)
lifeVars == <<reqs, queue, syncEv, flipEv, stack>>

(* A step that leaves these as they are keeps the order of requests. *)
LEMMA LifeUnchanged ==
  ASSUME LifeCycle, UNCHANGED lifeVars
  PROVE  LifeCycle'
BY DEF LifeCycle, QueueIsLive, FreeIsQuiet, OthersRest, IssuedIsFirst, StackInOrder,
       lifeVars, CallReady, SyncReady, FlipReady, Flipping, Flipped, Resting, OnStack

(* The number of events of a request. *)
LEMMA EventCount ==
  ASSUME NEW S \in SUBSET Overlays
  PROVE  /\ Cardinality(S) \in Nat
         /\ Cardinality(S) = 0 <=> S = {}
         /\ \A o \in S : Cardinality(S \ {o}) = Cardinality(S) - 1
<1>1. IsFiniteSet(S)
  BY SwapAssumption, FS_Subset
<1> QED  BY <1>1, FS_CardinalityType, FS_EmptySet, FS_RemoveElement

(* A handler runs at depth one or two. *)
LEMMA Depth ==
  /\ \A n \in Nat : n # 0 /\ n <= 2 => n \in {1, 2}
  /\ \A n \in Nat : 1 + n = n + 1 /\ (n >= 1 => 2 \in 1 .. 1 + n) /\ 1 \in 1 .. 1 + n
  /\ \A n \in {1, 2} : 1 \in 1 .. n /\ (n = 2 => 2 \in 1 .. n /\ 1 \in 1 .. n - 1)
  /\ ~(2 <= 1) /\ 2 - 1 = 1 /\ 1 + 1 = 2 /\ 1 >= 1
OBVIOUS

(* The innermost call returns, *)
LEMMA StackSteps ==
  ASSUME NEW st \in Seq(Frame), st # <<>>, Len(st) <= 2
  PROVE  /\ Len(st) \in {1, 2} /\ Head(st) = st[1] /\ st[1] \in Frame
         /\ Tail(st) \in Seq(Frame) /\ Len(Tail(st)) = Len(st) - 1
         /\ Len(st) = 2 => Tail(st)[1] = st[2] /\ st[2] \in Frame
<1>1. Len(st) \in {1, 2}
  <2>1. Len(st) \in Nat /\ Len(st) # 0
    BY EmptySeq
  <2> QED  BY <2>1, Depth, Zenon
<1>2. /\ Tail(st) \in Seq(Frame) /\ Len(Tail(st)) = Len(st) - 1
      /\ \A i \in 1 .. Len(st) - 1 : Tail(st)[i] = st[i + 1]
  BY HeadTailProperties
<1>3. Head(st) = st[1] /\ \A i \in 1 .. Len(st) : st[i] \in Frame
  OBVIOUS
<1>4. Len(st) = 2 => Tail(st)[1] = st[1 + 1]
  BY <1>1, <1>2, Depth, Zenon
<1> QED  BY <1>1, <1>2, <1>3, <1>4, Depth

(* one is pushed, *)
LEMMA PushOne ==
  ASSUME NEW f \in Frame, NEW t \in Seq(Frame)
  PROVE  /\ <<f>> \o t \in Seq(Frame) /\ Len(<<f>> \o t) = Len(t) + 1
         /\ (<<f>> \o t)[1] = f
         /\ Len(t) >= 1 => (<<f>> \o t)[2] = t[1]
<1> DEFINE s == <<f>>
<1>1. s \in Seq(Frame) /\ Len(s) = 1 /\ s[1] = f /\ Len(t) \in Nat
  OBVIOUS
<1> HIDE DEF s
<1>2. /\ s \o t \in Seq(Frame) /\ Len(s \o t) = 1 + Len(t)
      /\ \A i \in 1 .. 1 + Len(t) : (s \o t)[i] = IF i <= 1 THEN s[i] ELSE t[i - 1]
  <2>1. /\ s \o t \in Seq(Frame) /\ Len(s \o t) = Len(s) + Len(t)
        /\ \A i \in 1 .. Len(s) + Len(t) :
             (s \o t)[i] = IF i <= Len(s) THEN s[i] ELSE t[i - Len(s)]
    BY <1>1, ConcatProperties
  <2> QED  BY <1>1, <2>1, Zenon
<1>3. (s \o t)[1] = f
  <2>1. (s \o t)[1] = IF 1 <= 1 THEN s[1] ELSE t[1 - 1]
    BY <1>1, <1>2, Depth, Zenon
  <2> QED  BY <1>1, <2>1
<1>4. Len(t) >= 1 => (s \o t)[2] = t[1]
  <2>1. Len(t) >= 1 => (s \o t)[2] = IF 2 <= 1 THEN s[2] ELSE t[2 - 1]
    BY <1>1, <1>2, Depth, Zenon
  <2> QED  BY <2>1, Depth, Zenon
<1> QED  BY <1>1, <1>2, <1>3, <1>4, Depth, Zenon DEF s

(* one takes the place of the innermost, *)
LEMMA ReplaceOne ==
  ASSUME NEW st \in Seq(Frame), st # <<>>, Len(st) <= 2, NEW f \in Frame
  PROVE  /\ Len(<<f>> \o Tail(st)) = Len(st) /\ (<<f>> \o Tail(st))[1] = f
         /\ Len(st) = 2 => (<<f>> \o Tail(st))[2] = st[2]
<1>1. /\ Len(st) \in {1, 2} /\ Tail(st) \in Seq(Frame) /\ Len(Tail(st)) = Len(st) - 1
      /\ Len(st) = 2 => Tail(st)[1] = st[2]
  BY StackSteps
<1>2. /\ Len(<<f>> \o Tail(st)) = Len(Tail(st)) + 1 /\ (<<f>> \o Tail(st))[1] = f
      /\ Len(Tail(st)) >= 1 => (<<f>> \o Tail(st))[2] = Tail(st)[1]
  BY <1>1, PushOne, Zenon
<1> QED  BY <1>1, <1>2

(* and two do. *)
LEMMA ReplaceTwo ==
  ASSUME NEW st \in Seq(Frame), st # <<>>, Len(st) = 1, NEW f \in Frame, NEW g \in Frame
  PROVE  /\ Len(<<f>> \o <<g>> \o Tail(st)) = 2
         /\ (<<f>> \o <<g>> \o Tail(st))[1] = f
         /\ (<<f>> \o <<g>> \o Tail(st))[2] = g
<1> DEFINE u == <<g>> \o Tail(st)
           v == <<f>> \o <<g>> \o Tail(st)
<1>1. Tail(st) \in Seq(Frame) /\ Len(Tail(st)) = 0
  BY StackSteps
<1>2. u \in Seq(Frame) /\ Len(u) = Len(Tail(st)) + 1 /\ u[1] = g
  BY <1>1, PushOne, Zenon
<1>3. Len(u) = 1
  BY <1>1, <1>2
<1>4. v = <<f>> \o u
  BY <1>1, ConcatAssociative
<1> HIDE DEF u, v
<1>5. /\ Len(v) = Len(u) + 1 /\ v[1] = f
      /\ Len(u) >= 1 => v[2] = u[1]
  BY <1>2, <1>4, PushOne, Zenon
<1>6. Len(v) = 2 /\ v[1] = f /\ v[2] = g
  BY <1>2, <1>3, <1>5, Depth, Zenon
<1> QED  BY <1>6, Zenon DEF v

(* A step that leaves the life of a request alone. *)
Kept(x) ==
  /\ reqs'[x].used = reqs[x].used /\ reqs'[x].dead = reqs[x].dead
  /\ reqs'[x].rendered = reqs[x].rendered /\ reqs'[x].issued = reqs[x].issued
  /\ reqs'[x].flipped = reqs[x].flipped /\ reqs'[x].num = reqs[x].num
  /\ reqs'[x].update = reqs[x].update
  /\ flipEv'[x] = flipEv[x]
  /\ x \in syncEv' <=> x \in syncEv

(* A request that is left as it is keeps what its caller found. *)
LEMMA KeptStays ==
  ASSUME NEW x, Kept(x)
  PROVE  (Resting(x) => Resting(x)') /\ (Flipped(x) => Flipped(x)')
BY DEF Kept, Resting, Flipped

(* A step leaves x at rest, or free and without events. *)
LeftAtRest(x) ==
  IF reqs'[x].used THEN Resting(x)' ELSE x \notin syncEv' /\ flipEv'[x] = {}

(* Two calls that are on the stack at a time are about two requests. *)
LEMMA StackApart ==
  ASSUME TypeOK, StackInOrder, stack # <<>>
  PROVE  /\ Len(stack) \in {1, 2} /\ Head(stack) = stack[1]
         /\ Len(stack) = 2 => /\ stack[2].id \in ReqIds /\ Flipped(stack[2].id)
                              /\ stack[2].id # stack[1].id
<1>1. /\ Len(stack) \in {1, 2} /\ Head(stack) = stack[1] /\ stack[1] \in Frame
      /\ Len(stack) = 2 => stack[2] \in Frame
  BY StackSteps DEF TypeOK, StackInOrder
<1>2. ASSUME Len(stack) = 2
      PROVE  /\ stack[2].id \in ReqIds /\ Flipped(stack[2].id)
             /\ stack[2].id # stack[1].id
  <2>1. /\ stack[2].call = "flip_done" /\ reqs[stack[2].id].update = SWAP_INVALID_IDX
        /\ stack[1].call = "schedule_damage" \/ reqs[stack[1].id].update # SWAP_INVALID_IDX
        /\ CallReady(stack[2])
    BY <1>2 DEF StackInOrder
  <2>2. stack[2].id \in ReqIds
    BY <1>1, <1>2, <2>1 DEF Frame
  <2>3. stack[1].call = "schedule_damage" => stack[1].id = 0
    BY <1>1 DEF Frame
  <2> QED  BY <2>1, <2>2, <2>3 DEF CallReady, ReqIds
<1> QED  BY <1>1, <1>2

(* The pending calls after a step are in order if none is left, *)
LEMMA NoneInOrder ==
  ASSUME Len(stack') = 0
  PROVE  StackInOrder'
<1>1. ~(0 = 2) /\ 0 <= 2 /\ 1 .. 0 = {}
  OBVIOUS
<1> QED  BY <1>1, Zenon DEF StackInOrder

(* if the one that is left finds its request ready, *)
LEMMA OneInOrder ==
  ASSUME NEW f, Len(stack') = 1, stack'[1] = f, CallReady(f)'
  PROVE  StackInOrder'
<1>1. ~(1 = 2) /\ 1 <= 2 /\ 1 .. 1 = {1}
  OBVIOUS
<1>2. \A i \in {1} : (CallReady(stack[i]))'
  BY DEF CallReady, SyncReady, FlipReady, Flipping, Flipped
<1>3. \A i \in 1 .. 1 : (CallReady(stack[i]))'
  BY <1>1, <1>2, Zenon
<1> QED  BY <1>1, <1>3, Zenon DEF StackInOrder

(* or if damage, or an update, is handled before a flip is done. *)
LEMMA TwoInOrder ==
  ASSUME NEW f, NEW g, Len(stack') = 2, stack'[1] = f, stack'[2] = g,
         CallReady(f)', CallReady(g)', g.call = "flip_done",
         reqs'[g.id].update = SWAP_INVALID_IDX,
         f.call = "schedule_damage" \/ reqs'[f.id].update # SWAP_INVALID_IDX
  PROVE  StackInOrder'
<1>1. 2 <= 2 /\ 1 .. 2 = {1, 2}
  OBVIOUS
<1>2. \A i \in {1, 2} : (CallReady(stack[i]))'
  <2>1. (CallReady(stack[1]))'
    BY DEF CallReady, SyncReady, FlipReady, Flipping, Flipped
  <2>2. (CallReady(stack[2]))'
    BY DEF CallReady, SyncReady, FlipReady, Flipping, Flipped
  <2> QED  BY <2>1, <2>2
<1>3. \A i \in 1 .. 2 : (CallReady(stack[i]))'
  BY <1>1, <1>2, Zenon
<1> QED  BY <1>1, <1>3, Zenon DEF StackInOrder

(* The handler that runs returns. *)
LEMMA ReturnStep ==
  ASSUME TypeOK, LifeCycle, stack # <<>>, stack' = Tail(stack),
         \A x \in ReqIds :
           IF x = Head(stack).id THEN LeftAtRest(x)
           ELSE Kept(x) \/ (~reqs[x].used /\ LeftAtRest(x))
  PROVE  FreeIsQuiet' /\ OthersRest' /\ StackInOrder'
<1> DEFINE h == stack[1].id
<1>1. /\ Len(stack) \in {1, 2} /\ Head(stack) = stack[1]
      /\ Len(stack) = 2 => /\ stack[2].id \in ReqIds /\ Flipped(stack[2].id)
                           /\ stack[2].id # h /\ stack[2].call = "flip_done"
  BY StackApart DEF LifeCycle, StackInOrder
<1>2. /\ Len(stack) = 1 => Len(stack') = 0
      /\ Len(stack) = 2 => Len(stack') = 1 /\ 1 \in 1 .. Len(stack') /\ stack'[1] = stack[2]
  <2>1. Len(stack') = Len(stack) - 1 /\ (Len(stack) = 2 => stack'[1] = stack[2])
    BY StackSteps DEF TypeOK, LifeCycle, StackInOrder
  <2>2. 1 - 1 = 0 /\ 2 - 1 = 1 /\ 1 \in 1 .. 1
    OBVIOUS
  <2> QED  BY <2>1, <2>2, Zenon
<1>3. ASSUME NEW x \in ReqIds, ~OnStack(x)' PROVE ~OnStack(x) \/ x = h
  <2>1. Len(stack) = 2 => stack[2].id # x
    BY <1>2, <1>3, Zenon DEF OnStack
  <2> QED  BY <1>1, <2>1 DEF OnStack
<1>4. OthersRest'
  <2> SUFFICES ASSUME NEW x \in ReqIds, reqs'[x].used, ~OnStack(x)' PROVE Resting(x)'
    BY DEF OthersRest
  <2>1. CASE LeftAtRest(x)
    BY <2>1 DEF LeftAtRest
  <2>2. CASE x # h /\ Kept(x)
    <3>1. Resting(x)
      BY <1>3, <2>2 DEF Kept, LifeCycle, OthersRest
    <3> QED  BY <2>2, <3>1, KeptStays
  <2> QED  BY <1>1, <2>1, <2>2
<1>5. FreeIsQuiet'
  BY <1>1 DEF FreeIsQuiet, LifeCycle, Kept, LeftAtRest
<1>6. StackInOrder'
  <2>1. CASE Len(stack) = 1
    <3>1. Len(stack') = 0
      BY <1>2, <2>1
    <3> QED  BY <3>1, NoneInOrder
  <2>2. CASE Len(stack) = 2
    <3>1. PICK f \in Frame : f = stack[2]
      BY <2>2, StackSteps DEF TypeOK, LifeCycle, StackInOrder
    <3>2. f.id \in ReqIds /\ Flipped(f.id) /\ f.id # h /\ f.call = "flip_done"
      BY <1>1, <2>2, <3>1
    <3>3. Kept(f.id)
      BY <1>1, <3>2 DEF Flipped
    <3>4. CallReady(f)'
      BY <3>2, <3>3, KeptStays DEF CallReady
    <3>5. Len(stack') = 1 /\ stack'[1] = f
      BY <1>2, <2>2, <3>1, Zenon
    <3> QED  BY <3>4, <3>5, OneInOrder
  <2> QED  BY <1>1, <2>1, <2>2
<1> QED  BY <1>4, <1>5, <1>6

(* The handler that runs calls another one as its last deed. *)
LEMMA CallStep ==
  ASSUME TypeOK, LifeCycle, stack # <<>>,
         NEW c \in {"sync_handler", "flip_swap_req", "flip_handler", "flip_done"},
         NEW y \in ReqIds, stack' = <<Call(c, y)>> \o Tail(stack),
         CallReady(Call(c, y))', reqs'[y].used,
         Len(stack) = 2 => reqs'[y].update # SWAP_INVALID_IDX /\ stack[2].id # y,
         \A x \in ReqIds \ {y} : IF x = Head(stack).id THEN LeftAtRest(x) ELSE Kept(x)
  PROVE  FreeIsQuiet' /\ OthersRest' /\ StackInOrder'
<1> DEFINE h == stack[1].id
<1>1. /\ Len(stack) \in {1, 2} /\ Head(stack) = stack[1]
      /\ Len(stack) = 2 => /\ stack[2].id \in ReqIds /\ Flipped(stack[2].id)
                           /\ stack[2].id # h /\ stack[2].call = "flip_done"
                           /\ reqs[stack[2].id].update = SWAP_INVALID_IDX
  BY StackApart DEF LifeCycle, StackInOrder
<1>2. Call(c, y) \in Frame /\ Call(c, y).id = y /\ Call(c, y).call = c
  BY FrameTypes DEF Call
<1>3. /\ Len(stack') = Len(stack) /\ stack'[1] = Call(c, y)
      /\ Len(stack) = 2 => stack'[2] = stack[2]
  BY <1>2, ReplaceOne DEF TypeOK, LifeCycle, StackInOrder
<1>4. ASSUME NEW z \in ReqIds, Len(stack) = 2, z = stack[2].id
      PROVE  Flipped(z)' /\ reqs'[z].update = SWAP_INVALID_IDX
  <2>1. Kept(z)
    BY <1>1, <1>4
  <2> QED  BY <1>1, <1>4, <2>1, KeptStays DEF Kept
<1>5. ASSUME NEW x \in ReqIds, x # y, ~OnStack(x)' PROVE ~OnStack(x) \/ x = h
  <2>1. Len(stack) = 2 => stack[2].id # x
    BY <1>1, <1>3, <1>5 DEF OnStack
  <2> QED  BY <1>1, <2>1 DEF OnStack
<1>6. OnStack(y)'
  <2>1. 1 \in 1 .. Len(stack') /\ stack'[1].id = y
    BY <1>1, <1>2, <1>3
  <2> QED  BY <2>1 DEF OnStack
<1>7. OthersRest'
  <2> SUFFICES ASSUME NEW x \in ReqIds, reqs'[x].used, ~OnStack(x)' PROVE Resting(x)'
    BY DEF OthersRest
  <2>1. x # y
    BY <1>6
  <2>2. CASE x = h
    BY <1>1, <2>1, <2>2 DEF LeftAtRest
  <2>3. CASE x # h
    <3>1. Kept(x) /\ ~OnStack(x)
      BY <1>1, <1>5, <2>1, <2>3
    <3>2. Resting(x)
      BY <3>1 DEF Kept, LifeCycle, OthersRest
    <3> QED  BY <3>1, <3>2, KeptStays
  <2> QED  BY <2>2, <2>3
<1>8. FreeIsQuiet'
  <2> SUFFICES ASSUME NEW x \in ReqIds, ~reqs'[x].used
               PROVE  x \notin syncEv' /\ flipEv'[x] = {}
    BY DEF FreeIsQuiet
  <2>1. x # y
    OBVIOUS
  <2>2. CASE x = h
    BY <1>1, <2>1, <2>2 DEF LeftAtRest
  <2>3. CASE x # h
    BY <1>1, <2>1, <2>3 DEF Kept, LifeCycle, FreeIsQuiet
  <2> QED  BY <2>2, <2>3
<1>9. StackInOrder'
  <2>1. PICK f \in Frame : f = Call(c, y) /\ f.id = y /\ f.call = c
    BY <1>2
  <2>2. CallReady(f)'
    BY <2>1
  <2>3. CASE Len(stack) = 1
    <3>1. Len(stack') = 1 /\ stack'[1] = f
      BY <1>3, <2>1, <2>3
    <3> QED  BY <2>2, <3>1, OneInOrder
  <2>4. CASE Len(stack) = 2
    <3>1. PICK g \in Frame : g = stack[2]
      BY <2>4, StackSteps DEF TypeOK, LifeCycle, StackInOrder
    <3>2. /\ g.call = "flip_done" /\ g.id \in ReqIds /\ Flipped(g.id)'
          /\ reqs'[g.id].update = SWAP_INVALID_IDX
      BY <1>1, <1>4, <2>4, <3>1
    <3>3. CallReady(g)'
      BY <3>2 DEF CallReady
    <3>4. Len(stack') = 2 /\ stack'[1] = f /\ stack'[2] = g
      BY <1>3, <2>1, <2>4, <3>1
    <3>5. reqs'[f.id].update # SWAP_INVALID_IDX
      BY <2>1, <2>4
    <3> QED  BY <2>2, <3>2, <3>3, <3>4, <3>5, TwoInOrder
  <2> QED  BY <1>1, <2>3, <2>4
<1> QED  BY <1>7, <1>8, <1>9

(* An event or a request of a client calls a handler. *)
LEMMA EnterStep ==
  ASSUME TypeOK, LifeCycle, stack = <<>>,
         NEW c \in {"sync_handler", "flip_swap_req", "flip_handler", "flip_done"},
         NEW y \in ReqIds, stack' = <<Call(c, y)>>,
         CallReady(Call(c, y))', reqs'[y].used,
         \A x \in ReqIds \ {y} : Kept(x)
  PROVE  FreeIsQuiet' /\ OthersRest' /\ StackInOrder'
<1>1. /\ Len(stack') = 1 /\ stack'[1] = Call(c, y) /\ stack'[1].id = y
      /\ \A x : OnStack(x)' <=> x = y
  BY DEF OnStack, Call
<1>2. \A x : ~OnStack(x)
  BY DEF OnStack
<1>3. OthersRest'
  <2> SUFFICES ASSUME NEW x \in ReqIds, reqs'[x].used, x # y PROVE Resting(x)'
    BY <1>1 DEF OthersRest
  <2> QED  BY <1>2, KeptStays DEF Kept, LifeCycle, OthersRest
<1>4. FreeIsQuiet'
  BY DEF FreeIsQuiet, LifeCycle, Kept
<1>5. StackInOrder'
  BY <1>1 DEF StackInOrder
<1> QED  BY <1>3, <1>4, <1>5

(* Nothing is called, or only damage is to be scheduled. *)
LEMMA RestStep ==
  ASSUME LifeCycle, stack = <<>>, stack' = <<>> \/ \E region : stack' = <<Damage(region)>>,
         \A x \in ReqIds : Kept(x) \/ LeftAtRest(x)
  PROVE  FreeIsQuiet' /\ OthersRest' /\ StackInOrder'
<1>1. \A x : ~OnStack(x)
  BY DEF OnStack
<1>2. OthersRest'
  <2> SUFFICES ASSUME NEW x \in ReqIds, reqs'[x].used PROVE Resting(x)'
    BY DEF OthersRest
  <2>1. Kept(x) => Resting(x)
    BY <1>1 DEF Kept, LifeCycle, OthersRest
  <2> QED  BY <2>1, KeptStays DEF LeftAtRest
<1>3. FreeIsQuiet'
  BY DEF FreeIsQuiet, LifeCycle, Kept, LeftAtRest
<1>4. StackInOrder'
  <2>1. CASE stack' = <<>>
    <3>1. Len(stack') = 0
      BY <2>1
    <3> QED  BY <3>1, NoneInOrder
  <2>2. ASSUME NEW region, stack' = <<Damage(region)>> PROVE StackInOrder'
    <3>1. Len(stack') = 1 /\ stack'[1] = Damage(region)
      BY <2>2
    <3>2. CallReady(Damage(region))'
      BY DEF CallReady, Damage
    <3> QED  BY <3>1, <3>2, OneInOrder
  <2> QED  BY <2>1, <2>2
<1> QED  BY <1>2, <1>3, <1>4

-----------------------------------------------------------------------------
(***************************************************************************)
(* What a step does to the queue.                                          *)
(***************************************************************************)
(* Is id the first request of its class? *)
FirstOfClass(id) ==
  \A x \in Elems(queue) : SameClass(reqs[x], reqs[id]) => ~Before(queue, x, id)

(* The queue is left alone, and only a first request is issued. *)
LEMMA SameQueue ==
  ASSUME LifeCycle, queue' = queue, NEW id,
         reqs'[id].issued => reqs[id].issued \/ FirstOfClass(id),
         reqs'[id].used => reqs'[id].update = reqs[id].update,
         (reqs'[id].used /\ ~reqs'[id].dead) <=> (reqs[id].used /\ ~reqs[id].dead),
         \A x \in ReqIds \ {id} : Kept(x)
  PROVE  QueueIsLive' /\ IssuedIsFirst'
<1>1. NoRepeat(queue) /\ Elems(queue) = {x \in ReqIds : reqs[x].used /\ ~reqs[x].dead}
  BY DEF LifeCycle, QueueIsLive
<1>2. QueueIsLive'
  BY <1>1 DEF QueueIsLive, Kept
<1>3. ASSUME NEW x \in Elems(queue)
      PROVE  reqs'[x].update = reqs[x].update /\ (reqs'[x].issued => reqs[x].issued \/ FirstOfClass(x))
  BY <1>1 DEF Kept
<1>4. IssuedIsFirst'
  <2> SUFFICES ASSUME NEW x \in Elems(queue), NEW y \in Elems(queue), reqs'[y].issued,
                      SameClass(reqs'[x], reqs'[y]), Before(queue, x, y)
               PROVE  FALSE
    BY DEF IssuedIsFirst
  <2>1. SameClass(reqs[x], reqs[y])
    BY <1>3 DEF SameClass
  <2> QED  BY <1>3, <2>1 DEF LifeCycle, IssuedIsFirst, FirstOfClass
<1> QED  BY <1>2, <1>4

(* A request is appended. *)
LEMMA LongerQueue ==
  ASSUME TypeOK, LifeCycle, NEW id \in ReqIds, ~reqs[id].used, queue' = Append(queue, id),
         reqs'[id].used, ~reqs'[id].dead, ~reqs'[id].issued,
         \A x \in ReqIds \ {id} : Kept(x)
  PROVE  QueueIsLive' /\ IssuedIsFirst'
<1>1. NoRepeat(queue) /\ Elems(queue) = {x \in ReqIds : reqs[x].used /\ ~reqs[x].dead}
  BY DEF LifeCycle, QueueIsLive
<1>2. id \notin Elems(queue) /\ queue \in Seq(ReqIds)
  BY <1>1 DEF TypeOK
<1>3. /\ NoRepeat(queue') /\ Elems(queue') = Elems(queue) \cup {id}
      /\ \A x, y : Before(queue', x, y) <=> Before(queue, x, y) \/ (x \in Elems(queue) /\ y = id)
  BY <1>1, <1>2, AppendOrder
<1>4. QueueIsLive'
  BY <1>1, <1>3 DEF QueueIsLive, Kept
<1>5. IssuedIsFirst'
  <2> SUFFICES ASSUME NEW x \in Elems(queue'), NEW y \in Elems(queue'), reqs'[y].issued,
                      SameClass(reqs'[x], reqs'[y]), Before(queue', x, y)
               PROVE  FALSE
    BY DEF IssuedIsFirst
  <2>1. y # id
    OBVIOUS
  <2>2. x \in Elems(queue) /\ y \in Elems(queue) /\ Before(queue, x, y)
    BY <1>1, <1>2, <1>3, <2>1, BeforeOrder
  <2>3. Kept(x) /\ Kept(y)
    BY <1>1, <1>2, <2>2
  <2> QED  BY <2>2, <2>3 DEF LifeCycle, IssuedIsFirst, SameClass, Kept
<1> QED  BY <1>4, <1>5

(* A request is unlinked. *)
LEMMA ShorterQueue ==
  ASSUME TypeOK, LifeCycle, NEW id \in ReqIds, queue' = Unlink(queue, id), ~reqs'[id].used,
         \A x \in ReqIds \ {id} : Kept(x)
  PROVE  QueueIsLive' /\ IssuedIsFirst'
<1>1. NoRepeat(queue) /\ Elems(queue) = {x \in ReqIds : reqs[x].used /\ ~reqs[x].dead}
  BY DEF LifeCycle, QueueIsLive
<1>2. /\ NoRepeat(queue') /\ Elems(queue') = Elems(queue) \ {id}
      /\ \A x, y : Before(queue', x, y) <=> Before(queue, x, y) /\ x # id /\ y # id
  BY <1>1, UnlinkOrder DEF TypeOK
<1>3. QueueIsLive'
  BY <1>1, <1>2 DEF QueueIsLive, Kept
<1>4. IssuedIsFirst'
  <2> SUFFICES ASSUME NEW x \in Elems(queue'), NEW y \in Elems(queue'), reqs'[y].issued,
                      SameClass(reqs'[x], reqs'[y]), Before(queue', x, y)
               PROVE  FALSE
    BY DEF IssuedIsFirst
  <2>1. x \in Elems(queue) /\ y \in Elems(queue) /\ Before(queue, x, y)
    BY <1>2
  <2>2. Kept(x) /\ Kept(y)
    BY <1>1, <1>2
  <2> QED  BY <2>1, <2>2 DEF LifeCycle, IssuedIsFirst, SameClass, Kept
<1> QED  BY <1>3, <1>4

-----------------------------------------------------------------------------
(* One request is replaced. *)
LEMMA WithReqValues ==
  ASSUME TypeOK, NEW id \in ReqIds, NEW r
  PROVE  WithReq(id, r)[id] = r /\ \A x \in ReqIds \ {id} : WithReq(id, r)[x] = reqs[x]
BY DEF TypeOK, WithReq

(* The innermost call and its request. *)
LEMMA RunningCall ==
  ASSUME TypeOK, LifeCycle, NEW call, Running(call)
  PROVE  /\ stack # <<>> /\ CallReady(Head(stack)) /\ Head(stack).call = call
         /\ call # "schedule_damage" => Head(stack).id \in ReqIds
         /\ call = "schedule_damage" => Head(stack).id = 0
         /\ call # "schedule_damage" /\ Len(stack) = 2 =>
              reqs[Head(stack).id].update # SWAP_INVALID_IDX /\ stack[2].id # Head(stack).id
         /\ Len(stack) = 2 => reqs[stack[2].id].used
<1>1. stack # <<>> /\ Head(stack).call = call
  BY DEF Running
<1>2. /\ Len(stack) \in {1, 2} /\ Head(stack) = stack[1] /\ Head(stack) \in Frame
  BY <1>1, StackSteps DEF TypeOK, LifeCycle, StackInOrder
<1>3. CallReady(stack[1])
  <2>1. 1 \in 1 .. Len(stack)
    BY <1>2, Depth, Zenon
  <2> QED  BY <2>1, Zenon DEF LifeCycle, StackInOrder
<1>4. Len(stack) = 2 => /\ stack[2].id # stack[1].id /\ reqs[stack[2].id].used
                        /\ \/ stack[1].call = "schedule_damage"
                           \/ reqs[stack[1].id].update # SWAP_INVALID_IDX
  BY <1>1, StackApart DEF LifeCycle, StackInOrder, Flipped
<1> QED  BY <1>1, <1>2, <1>3, <1>4 DEF Frame

(* sync_handler calls flip_swap_req for a request that nothing is before. *)
LEMMA SyncHandlerLife ==
  ASSUME TypeOK, LifeCycle, SyncHandler
  PROVE  LifeCycle'
<1>1. PICK id \in ReqIds :
        /\ id = Head(stack).id /\ stack # <<>> /\ SyncReady(id)
        /\ Len(stack) = 2 => reqs[id].update # SWAP_INVALID_IDX /\ stack[2].id # id
  BY RunningCall DEF SyncHandler, CallReady
<1> DEFINE r  == reqs[id]
           rs == WithReq(id, [r EXCEPT !.rendered = TRUE])
<1>2. /\ reqs' = IF r.dead THEN WithoutReq(id) ELSE rs
      /\ stack' = IF ~r.dead /\ FindNextFlip(rs, queue, r) = id
                    THEN <<Call("flip_swap_req", id)>> \o Tail(stack)
                    ELSE Tail(stack)
      /\ queue' = queue /\ syncEv' = syncEv /\ flipEv' = flipEv
  BY <1>1 DEF SyncHandler
<1>3. \A x \in ReqIds \ {id} : Kept(x) /\ rs[x] = reqs[x]
  BY <1>2, WithReqValues DEF Kept, WithoutReq, WithReq, TypeOK
<1>4. r \in SwapRequest /\ r.used /\ ~r.rendered /\ ~r.issued /\ ~r.flipped /\ r.num = 0
      /\ id \notin syncEv /\ flipEv[id] = {}
  BY <1>1 DEF SyncReady, TypeOK
<1>5. CASE r.dead
  <2>1. reqs'[id] = FreeRequest /\ stack' = Tail(stack)
    BY <1>2, <1>5 DEF WithoutReq, TypeOK
  <2>2. ~reqs'[id].used /\ ~reqs'[id].issued
    BY <2>1 DEF FreeRequest
  <2>3. LeftAtRest(id)
    BY <1>2, <1>4, <2>2 DEF LeftAtRest
  <2> QED
    BY <1>1, <1>2, <1>3, <1>4, <1>5, <2>1, <2>2, <2>3, SameQueue, ReturnStep DEF LifeCycle
<1>6. CASE ~r.dead
  <2>1. reqs' = rs /\ reqs'[id] = [r EXCEPT !.rendered = TRUE]
    BY <1>2, <1>6, WithReqValues
  <2>2. /\ reqs'[id].used /\ ~reqs'[id].dead /\ reqs'[id].rendered
        /\ ~reqs'[id].issued /\ ~reqs'[id].flipped
        /\ reqs'[id].num = 0 /\ reqs'[id].update = r.update
    BY <1>4, <1>6, <2>1 DEF SwapRequest
  <2>3. QueueIsLive' /\ IssuedIsFirst'
    BY <1>2, <1>3, <1>4, <1>6, <2>2, SameQueue
  <2>4. CASE stack' = Tail(stack)
    <3>1. LeftAtRest(id)
      BY <1>2, <1>4, <2>2, EventCount DEF LeftAtRest, Resting
    <3> QED  BY <1>1, <1>3, <2>3, <2>4, <3>1, ReturnStep DEF LifeCycle
  <2>5. CASE FindNextFlip(rs, queue, r) = id /\ stack' = <<Call("flip_swap_req", id)>> \o Tail(stack)
    <3>1. \A y \in ReqIds : SameClass(r, rs[y]) => ~Before(queue, y, id)
      BY <2>5, NextFlipFound DEF TypeOK, LifeCycle, QueueIsLive, ReqIds
    <3>2. \A y \in Elems(queue) : SameClass(reqs'[y], reqs'[id]) => ~Before(queue, y, id)
      BY <2>1, <2>2, <3>1 DEF SameClass, LifeCycle, QueueIsLive
    <3>3. FlipReady(id)'
      BY <1>2, <1>4, <2>2, <3>2 DEF FlipReady
    <3>4. CallReady(Call("flip_swap_req", id))'
      BY <3>3 DEF CallReady, Call
    <3>5. Len(stack) = 2 => reqs'[id].update # SWAP_INVALID_IDX /\ stack[2].id # id
      BY <1>1, <2>2
    <3> QED  BY <1>1, <1>3, <2>2, <2>3, <2>5, <3>4, <3>5, CallStep DEF LifeCycle
  <2> QED  BY <1>2, <1>6, <2>4, <2>5
<1> QED  BY <1>5, <1>6

(* flip_swap_req waits for events, or calls flip_handler. *)
LEMMA FlipSwapReqLife ==
  ASSUME TypeOK, LifeCycle, FlipSwapReq
  PROVE  LifeCycle'
<1>1. PICK id \in ReqIds :
        /\ id = Head(stack).id /\ stack # <<>> /\ FlipReady(id)
        /\ Len(stack) = 2 => reqs[id].update # SWAP_INVALID_IDX /\ stack[2].id # id
  BY RunningCall DEF FlipSwapReq, CallReady
<1> DEFINE r == reqs[id]
<1>2. PICK got \in SUBSET Awaited(r) :
        /\ flipEv' = [flipEv EXCEPT ![id] = got]
        /\ reqs' = WithReq(id, [r EXCEPT !.issued = TRUE,
                      !.num = IF got = {} THEN 1 ELSE Cardinality(got)])
        /\ stack' = IF got = {} THEN <<Call("flip_handler", id)>> \o Tail(stack)
                    ELSE Tail(stack)
  BY <1>1 DEF FlipSwapReq
<1>3. queue' = queue /\ syncEv' = syncEv
  BY DEF FlipSwapReq
<1>4. /\ r \in SwapRequest /\ r.used /\ ~r.dead /\ r.rendered /\ ~r.issued /\ ~r.flipped
      /\ id \notin syncEv /\ flipEv[id] = {} /\ FirstOfClass(id)
  BY <1>1 DEF FlipReady, FirstOfClass, TypeOK
<1>5. \A x \in ReqIds \ {id} : Kept(x)
  BY <1>2, <1>3, WithReqValues DEF Kept, TypeOK
<1> DEFINE num == IF got = {} THEN 1 ELSE Cardinality(got)
<1>6. reqs'[id] = [r EXCEPT !.issued = TRUE, !.num = num] /\ flipEv'[id] = got
  BY <1>2, WithReqValues DEF TypeOK
<1> HIDE DEF num
<1>7. /\ reqs'[id].used /\ ~reqs'[id].dead /\ reqs'[id].rendered
      /\ reqs'[id].issued /\ ~reqs'[id].flipped
      /\ reqs'[id].num = num /\ reqs'[id].update = r.update
  BY <1>4, <1>6 DEF SwapRequest
<1>8. QueueIsLive' /\ IssuedIsFirst'
  BY <1>3, <1>4, <1>5, <1>7, SameQueue
<1>9. CASE got = {}
  <2>1. Cardinality(got) = 0 /\ num = Cardinality(got) + 1
    BY <1>9, EventCount DEF num
  <2>2. Flipping(id)'
    BY <1>3, <1>4, <1>6, <1>7, <2>1 DEF Flipping
  <2>3. CallReady(Call("flip_handler", id))'
    BY <2>2 DEF CallReady, Call
  <2> QED  BY <1>1, <1>2, <1>5, <1>7, <1>8, <1>9, <2>3, CallStep DEF LifeCycle
<1>10. CASE got # {}
  <2>1. LeftAtRest(id)
    BY <1>3, <1>4, <1>6, <1>7, <1>10 DEF LeftAtRest, Resting, num
  <2> QED  BY <1>1, <1>2, <1>5, <1>8, <1>10, <2>1, ReturnStep DEF LifeCycle
<1> QED  BY <1>9, <1>10

(* flip_handler waits for more events, frees a killed request, or goes on. *)
LEMMA FlipHandlerLife ==
  ASSUME TypeOK, LifeCycle, FlipHandler
  PROVE  LifeCycle'
<1>1. PICK id \in ReqIds :
        /\ id = Head(stack).id /\ stack # <<>> /\ Flipping(id)
        /\ Len(stack) = 2 => reqs[id].update # SWAP_INVALID_IDX /\ stack[2].id # id
  <2>1. Running("flip_handler")
    BY DEF FlipHandler
  <2> QED  BY <2>1, RunningCall DEF CallReady
<1> DEFINE r == reqs[id]
<1>2. queue' = queue /\ syncEv' = syncEv /\ flipEv' = flipEv
  BY DEF FlipHandler
<1>3. /\ r \in SwapRequest /\ r.used /\ r.rendered /\ r.issued /\ ~r.flipped
      /\ r.num = Cardinality(flipEv[id]) + 1
      /\ id \notin syncEv /\ flipEv[id] \in SUBSET Overlays
  BY <1>1 DEF Flipping, TypeOK
<1>4. Cardinality(flipEv[id]) \in Nat /\ (Cardinality(flipEv[id]) = 0 <=> flipEv[id] = {})
  BY <1>3, EventCount
<1>5. ASSUME NEW q, reqs' = WithReq(id, q)
      PROVE  reqs'[id] = q /\ \A x \in ReqIds \ {id} : Kept(x)
  BY <1>2, <1>5, WithReqValues DEF Kept
<1>6. CASE ~LastEvent(r) /\ reqs' = WithReq(id, [r EXCEPT !.num = @ - 1]) /\ stack' = Tail(stack)
  <2>1. r.num - 1 = Cardinality(flipEv[id]) /\ flipEv[id] # {}
    BY <1>3, <1>4, <1>6 DEF LastEvent
  <2>2. /\ reqs'[id].used /\ reqs'[id].dead = r.dead /\ reqs'[id].rendered
        /\ reqs'[id].issued /\ ~reqs'[id].flipped
        /\ reqs'[id].num = r.num - 1 /\ reqs'[id].update = r.update
    BY <1>3, <1>5, <1>6 DEF SwapRequest
  <2>3. QueueIsLive' /\ IssuedIsFirst'
    BY <1>2, <1>3, <1>5, <1>6, <2>2, SameQueue
  <2>4. LeftAtRest(id)
    BY <1>2, <1>3, <2>1, <2>2 DEF LeftAtRest, Resting
  <2> QED  BY <1>1, <1>5, <1>6, <2>3, <2>4, ReturnStep DEF LifeCycle
<1>7. CASE LastEvent(r) /\ r.dead /\ reqs' = WithoutReq(id) /\ stack' = Tail(stack)
  <2>1. reqs'[id] = FreeRequest /\ \A x \in ReqIds \ {id} : Kept(x)
    BY <1>5, <1>7 DEF WithoutReq, WithReq
  <2>2. ~reqs'[id].used /\ ~reqs'[id].issued
    BY <2>1 DEF FreeRequest
  <2>3. flipEv[id] = {}
    BY <1>3, <1>4, <1>7 DEF LastEvent
  <2>4. LeftAtRest(id)
    BY <1>2, <1>3, <2>2, <2>3 DEF LeftAtRest
  <2>5. QueueIsLive' /\ IssuedIsFirst'
    BY <1>2, <1>7, <2>1, <2>2, SameQueue
  <2> QED  BY <1>1, <1>7, <2>1, <2>4, <2>5, ReturnStep DEF LifeCycle
<1>8. CASE /\ LastEvent(r) /\ ~r.dead
           /\ reqs' = WithReq(id, [r EXCEPT !.num = 0, !.flipped = TRUE])
           /\ stack' = (IF FlipDamages(r) THEN <<Damage(Areas)>> ELSE <<>>)
                       \o <<Call("flip_done", id)>> \o Tail(stack)
  <2>1. /\ reqs'[id].used /\ ~reqs'[id].dead /\ reqs'[id].rendered
        /\ reqs'[id].issued /\ reqs'[id].flipped
        /\ reqs'[id].num = 0 /\ reqs'[id].update = r.update
    <3>1. reqs'[id] = [r EXCEPT !.num = 0, !.flipped = TRUE] /\ ~r.dead
      BY <1>5, <1>8
    <3> QED  BY <1>3, <3>1 DEF SwapRequest
  <2>2. flipEv[id] = {} /\ \A x \in ReqIds \ {id} : Kept(x)
    BY <1>3, <1>4, <1>5, <1>8 DEF LastEvent
  <2>3. QueueIsLive' /\ IssuedIsFirst'
    BY <1>2, <1>3, <1>8, <2>1, <2>2, SameQueue
  <2>4. Flipped(id)'
    BY <1>2, <1>3, <2>1, <2>2 DEF Flipped
  <2>5. PICK g \in Frame : g = Call("flip_done", id) /\ g.id = id /\ g.call = "flip_done"
    BY FrameTypes DEF Call
  <2>6. CallReady(g)'
    BY <2>4, <2>5 DEF CallReady
  <2>7. Tail(stack) \in Seq(Frame)
    BY <1>1, StackTypes DEF TypeOK
  <2>8. CASE ~FlipDamages(r)
    <3>1. stack' = <<g>> \o Tail(stack)
      BY <1>8, <2>5, <2>7, <2>8
    <3> QED
      BY <1>1, <2>1, <2>2, <2>3, <2>5, <2>6, <3>1, CallStep DEF LifeCycle
  <2>9. CASE FlipDamages(r)
    <3>1. Len(stack) = 1 /\ Head(stack) = stack[1]
      BY <1>1, <2>9, StackApart DEF FlipDamages, LifeCycle
    <3>2. PICK f \in Frame : f = Damage(Areas) /\ f.call = "schedule_damage"
      <4>1. Areas \in SUBSET Areas
        OBVIOUS
      <4>2. Damage(Areas) \in Frame /\ Damage(Areas).call = "schedule_damage"
        BY <4>1, FrameTypes DEF Damage
      <4> QED  BY <4>2
    <3>3. stack' = <<f>> \o <<g>> \o Tail(stack)
      BY <1>8, <2>5, <2>9, <3>2
    <3>4. Len(stack') = 2 /\ stack'[1] = f /\ stack'[2] = g
      BY <1>1, <3>1, <3>3, ReplaceTwo DEF TypeOK
    <3>5. CallReady(f)'
      BY <3>2 DEF CallReady
    <3>6. StackInOrder'
      BY <2>1, <2>5, <2>6, <2>9, <3>2, <3>4, <3>5, TwoInOrder DEF FlipDamages
    <3>7. OthersRest'
      <4> SUFFICES ASSUME NEW x \in ReqIds, reqs'[x].used, ~OnStack(x)' PROVE Resting(x)'
        BY DEF OthersRest
      <4>1. 2 \in 1 .. Len(stack') /\ stack'[2].id = id
        BY <2>5, <3>4, Depth
      <4>2. x # id
        BY <4>1 DEF OnStack
      <4>3. Kept(x) /\ ~OnStack(x)
        BY <1>1, <2>2, <3>1, <4>2 DEF OnStack
      <4> QED  BY <4>3, KeptStays DEF Kept, LifeCycle, OthersRest
    <3>8. FreeIsQuiet'
      BY <2>1, <2>2 DEF FreeIsQuiet, LifeCycle, Kept
    <3> QED  BY <2>3, <3>6, <3>7, <3>8 DEF LifeCycle
  <2> QED  BY <2>8, <2>9
<1> QED  BY <1>1, <1>6, <1>7, <1>8 DEF FlipHandler

(* flip_handler goes on: the request is freed and the next one is issued. *)
LEMMA FlipDoneLife ==
  ASSUME TypeOK, LifeCycle, FlipDone
  PROVE  LifeCycle'
<1>1. PICK id \in ReqIds :
        /\ id = Head(stack).id /\ stack # <<>> /\ Flipped(id)
        /\ Len(stack) = 2 => reqs[id].update # SWAP_INVALID_IDX /\ stack[2].id # id
  <2>1. Running("flip_done")
    BY DEF FlipDone
  <2> QED  BY <2>1, RunningCall DEF CallReady
<1> DEFINE r    == reqs[id]
           c    == IF CompletesPending(r) THEN FindFirstPendingFlip(reqs, queue) ELSE 0
           rs   == [i \in ReqIds |->
                     IF i = id THEN FreeRequest
                     ELSE IF i = c THEN [reqs[i] EXCEPT !.completed = TRUE] ELSE reqs[i]]
           q    == Unlink(queue, id)
           next == FindNextFlip(rs, q, r)
<1>2. /\ queue' = q /\ reqs' = rs /\ syncEv' = syncEv /\ flipEv' = flipEv
      /\ stack' = IF next = 0 THEN Tail(stack)
                  ELSE <<Call("flip_swap_req", next)>> \o Tail(stack)
  BY <1>1 DEF FlipDone
<1>3. /\ r \in SwapRequest /\ r.used /\ ~r.dead /\ r.issued /\ r.rendered
      /\ id \notin syncEv /\ flipEv[id] = {}
  BY <1>1 DEF Flipped, TypeOK
<1>4. rs[id] = FreeRequest /\ ~rs[id].used
  BY DEF FreeRequest
<1> HIDE DEF c
<1>5. \A x \in ReqIds \ {id} : Kept(x)
  <2> SUFFICES ASSUME NEW x \in ReqIds \ {id} PROVE Kept(x)
    OBVIOUS
  <2>1. reqs[x] \in SwapRequest
    BY DEF TypeOK
  <2>2. reqs'[x] = reqs[x] \/ reqs'[x] = [reqs[x] EXCEPT !.completed = TRUE]
    BY <1>2
  <2> QED  BY <1>2, <2>1, <2>2 DEF Kept, SwapRequest
<1> HIDE DEF rs
<1>6. QueueIsLive' /\ IssuedIsFirst'
  BY <1>2, <1>4, <1>5, ShorterQueue
<1>7. LeftAtRest(id)
  BY <1>2, <1>3, <1>4 DEF LeftAtRest
<1>8. CASE stack' = Tail(stack)
  BY <1>1, <1>5, <1>6, <1>7, <1>8, ReturnStep DEF LifeCycle
<1>9. CASE next # 0 /\ stack' = <<Call("flip_swap_req", next)>> \o Tail(stack)
  <2>1. PICK n \in ReqIds : n = next
    BY <1>9, UnlinkType, FindTypes DEF TypeOK
  <2>2. NoRepeat(queue) /\ Elems(queue) = {x \in ReqIds : reqs[x].used /\ ~reqs[x].dead}
    BY DEF LifeCycle, QueueIsLive
  <2>3. /\ q \in Seq(ReqIds) /\ NoRepeat(q) /\ Elems(q) = Elems(queue) \ {id}
        /\ \A a, b : Before(q, a, b) <=> Before(queue, a, b) /\ a # id /\ b # id
    BY <2>2, UnlinkType, UnlinkOrder DEF TypeOK
  <2>4. /\ n \in Elems(q) /\ rs[n].rendered /\ SameClass(r, rs[n])
        /\ \A y \in ReqIds : SameClass(r, rs[y]) => ~Before(q, y, n)
    <3> HIDE DEF q, next
    <3>1. n # 0 /\ next = FindNextFlip(rs, q, r)
      BY <2>1 DEF ReqIds, next
    <3> QED  BY <2>1, <2>3, <3>1, NextFlipFound
  <2>5. /\ n # id /\ n \in Elems(queue) /\ id \in Elems(queue) /\ Kept(n)
        /\ reqs[n].used /\ ~reqs[n].dead /\ reqs[n].rendered /\ SameClass(r, reqs[n])
    BY <1>2, <1>3, <1>5, <2>2, <2>3, <2>4 DEF Kept, SameClass
  <2>6. Len(stack) = 2 => reqs[n].update # SWAP_INVALID_IDX /\ stack[2].id # n
    <3>1. Len(stack) = 2 => reqs[stack[2].id].update = SWAP_INVALID_IDX
      BY DEF LifeCycle, StackInOrder
    <3> QED  BY <1>1, <2>5, <3>1 DEF SameClass
  <2>7. ~OnStack(n)
    BY <1>1, <2>5, <2>6, StackApart DEF OnStack, LifeCycle
  <2>8. Resting(n) /\ ~reqs[n].issued
    <3>1. Resting(n)
      BY <2>5, <2>7 DEF LifeCycle, OthersRest
    <3>2. Before(queue, id, n) \/ Before(queue, n, id)
      BY <2>2, <2>5, BeforeOrder DEF TypeOK
    <3> QED  BY <1>3, <2>5, <3>1, <3>2 DEF LifeCycle, IssuedIsFirst, SameClass
  <2>9. \A y \in Elems(q) : SameClass(reqs'[y], reqs'[n]) => ~Before(q, y, n)
    <3> SUFFICES ASSUME NEW y \in Elems(q), SameClass(reqs'[y], reqs'[n]) PROVE ~Before(q, y, n)
      OBVIOUS
    <3>1. y \in ReqIds
      BY <2>2, <2>3
    <3> QED  BY <1>2, <2>4, <3>1 DEF SameClass
  <2>10. FlipReady(n)'
    BY <1>2, <2>5, <2>8, <2>9 DEF FlipReady, Resting, Kept
  <2>11. CallReady(Call("flip_swap_req", n))'
    BY <2>10 DEF CallReady, Call
  <2>12. reqs'[n].used /\ (Len(stack) = 2 => reqs'[n].update # SWAP_INVALID_IDX /\ stack[2].id # n)
    BY <2>5, <2>6 DEF Kept
  <2>13. \A x \in ReqIds \ {n} : IF x = Head(stack).id THEN LeftAtRest(x) ELSE Kept(x)
    BY <1>1, <1>5, <1>7
  <2>14. stack' = <<Call("flip_swap_req", n)>> \o Tail(stack)
    BY <1>9, <2>1
  <2> QED  BY <1>1, <1>6, <2>11, <2>12, <2>13, <2>14, CallStep DEF LifeCycle
<1> QED  BY <1>2, <1>8, <1>9

(* A request that is allocated was free, and nothing is known of its address. *)
LEMMA NewIdFree ==
  ASSUME LifeCycle, Free # {}
  PROVE  NewId \in ReqIds /\ ~reqs[NewId].used /\ NewId \notin syncEv /\ flipEv[NewId] = {}
<1>1. NewId \in Free
  BY DEF NewId
<1> QED  BY <1>1 DEF Free, Used, LifeCycle, FreeIsQuiet

(* schedule_damage merges the damage, or appends an update and may issue it. *)
LEMMA ScheduleDamageLife ==
  ASSUME TypeOK, LifeCycle, ScheduleDamage
  PROVE  LifeCycle'
<1> DEFINE region == Head(stack).region
           id  == MergeInto(region)
           new == NewId
           rs  == WithReq(new, NewUpdate(region))
           q   == Append(queue, new)
<1>1. /\ stack # <<>> /\ Head(stack).id = 0 /\ Head(stack).id \notin ReqIds
      /\ Len(stack) = 2 => reqs[stack[2].id].used
  <2>1. Running("schedule_damage")
    BY DEF ScheduleDamage
  <2>2. 0 \notin ReqIds
    BY DEF ReqIds
  <2> QED  BY <2>1, <2>2, RunningCall
<1>2. syncEv' = syncEv /\ flipEv' = flipEv
  BY DEF ScheduleDamage
<1>3. ASSUME id # 0, reqs' = WithReq(id, [reqs[id] EXCEPT !.region = @ \cup region]),
             queue' = queue, stack' = Tail(stack)
      PROVE  LifeCycle'
  <2>1. PICK x \in ReqIds : x = id
    BY <1>3, FirstInType DEF MergeInto, FindByUpdate, TypeOK
  <2>2. PICK r : r = [reqs[x] EXCEPT !.region = @ \cup region]
    OBVIOUS
  <2>3. reqs' = WithReq(x, r) /\ reqs[x] \in SwapRequest
    BY <1>3, <2>1, <2>2 DEF TypeOK
  <2>4. /\ r.used = reqs[x].used /\ r.dead = reqs[x].dead /\ r.rendered = reqs[x].rendered
        /\ r.issued = reqs[x].issued /\ r.flipped = reqs[x].flipped
        /\ r.num = reqs[x].num /\ r.update = reqs[x].update
    BY <2>2, <2>3 DEF SwapRequest
  <2>5. \A y \in ReqIds : Kept(y)
    BY <1>2, <2>3, <2>4, WithReqValues DEF Kept
  <2>6. QueueIsLive' /\ IssuedIsFirst'
    BY <1>3, <2>4, <2>5, SameQueue DEF Kept
  <2> QED  BY <1>1, <1>3, <2>5, <2>6, ReturnStep DEF LifeCycle
<1>4. ASSUME Free # {}, reqs' = rs, queue' = q,
             stack' = IF FindNextFlip(rs, q, rs[new]) = new
                        THEN <<Call("flip_swap_req", new)>> \o Tail(stack)
                        ELSE Tail(stack)
      PROVE  LifeCycle'
  <2>1. PICK n \in ReqIds : n = new
    BY <1>4, NewIdFree
  <2>2. ~reqs[n].used /\ n \notin syncEv /\ flipEv[n] = {}
    BY <1>4, <2>1, NewIdFree
  <2>3. reqs'[n] = NewUpdate(region) /\ \A x \in ReqIds \ {n} : Kept(x)
    BY <1>2, <1>4, <2>1, WithReqValues DEF Kept
  <2>4. /\ reqs'[n].used /\ ~reqs'[n].dead /\ reqs'[n].rendered /\ ~reqs'[n].issued
        /\ ~reqs'[n].flipped /\ reqs'[n].num = 0 /\ reqs'[n].update = pf.front
    BY <2>3 DEF NewUpdate
  <2>5. pf.front # SWAP_INVALID_IDX
    BY DEF TypeOK, FlipState, Buf, SWAP_INVALID_IDX
  <2>6. QueueIsLive' /\ IssuedIsFirst'
    BY <1>4, <2>1, <2>2, <2>3, <2>4, LongerQueue
  <2>7. CASE stack' = Tail(stack)
    <3>1. LeftAtRest(n)
      BY <1>2, <2>2, <2>4, EventCount DEF LeftAtRest, Resting
    <3> QED  BY <1>1, <2>2, <2>3, <2>6, <2>7, <3>1, ReturnStep DEF LifeCycle
  <2>8. CASE FindNextFlip(rs, q, rs[new]) = new /\ stack' = <<Call("flip_swap_req", n)>> \o Tail(stack)
    <3>1. queue' \in Seq(ReqIds) /\ NoRepeat(queue') /\ Elems(queue') \subseteq ReqIds
      BY <1>4, <2>1, <2>6, AppendProperties DEF TypeOK, QueueIsLive
    <3>2. n # 0 /\ FindNextFlip(reqs', queue', reqs'[n]) = n
      BY <1>4, <2>1, <2>8 DEF ReqIds
    <3>3. \A y \in ReqIds : SameClass(reqs'[n], reqs'[y]) => ~Before(queue', y, n)
      BY <3>1, <3>2, NextFlipFound
    <3>4. FlipReady(n)'
      BY <1>2, <2>2, <2>4, <3>1, <3>3 DEF FlipReady, SameClass
    <3>5. CallReady(Call("flip_swap_req", n))'
      BY <3>4 DEF CallReady, Call
    <3>6. reqs'[n].update # SWAP_INVALID_IDX /\ (Len(stack) = 2 => stack[2].id # n)
      BY <1>1, <2>2, <2>4, <2>5
    <3>7. \A x \in ReqIds \ {n} : IF x = Head(stack).id THEN LeftAtRest(x) ELSE Kept(x)
      BY <1>1, <2>3
    <3> QED  BY <1>1, <2>4, <2>6, <2>8, <3>5, <3>6, <3>7, CallStep DEF LifeCycle
  <2> QED  BY <1>4, <2>1, <2>7, <2>8
<1> QED  BY <1>3, <1>4 DEF ScheduleDamage

-----------------------------------------------------------------------------
(* The events find their requests: the end of a render, *)
LEMMA RenderDoneLife ==
  ASSUME TypeOK, LifeCycle, NEW id \in ReqIds, RenderDone(id)
  PROVE  LifeCycle'
<1>1. /\ stack = <<>> /\ id \in syncEv /\ syncEv' = syncEv \ {id} /\ flipEv' = flipEv
      /\ stack' = <<Call("sync_handler", id)>> /\ reqs' = reqs /\ queue' = queue
  BY DEF RenderDone, Idle
<1>2. reqs[id].used /\ Resting(id)
  BY <1>1 DEF LifeCycle, FreeIsQuiet, OthersRest, OnStack
<1>3. SyncReady(id)'
  BY <1>1, <1>2, EventCount DEF Resting, SyncReady
<1>4. CallReady(Call("sync_handler", id))'
  BY <1>3 DEF CallReady, Call
<1>5. \A x \in ReqIds \ {id} : Kept(x)
  BY <1>1 DEF Kept
<1>6. QueueIsLive' /\ IssuedIsFirst'
  BY <1>1, <1>5, SameQueue
<1> QED  BY <1>1, <1>2, <1>4, <1>5, <1>6, EnterStep DEF LifeCycle

(* and a flip. *)
LEMMA FlipEventLife ==
  ASSUME TypeOK, LifeCycle, NEW o \in Overlays, NEW id \in ReqIds, FlipEvent(o, id)
  PROVE  LifeCycle'
<1>1. /\ stack = <<>> /\ o \in flipEv[id] /\ flipEv' = [flipEv EXCEPT ![id] = @ \ {o}]
      /\ stack' = <<Call("flip_handler", id)>>
      /\ reqs' = reqs /\ queue' = queue /\ syncEv' = syncEv
  BY DEF FlipEvent, Idle
<1>2. reqs[id].used /\ Resting(id)
  BY <1>1 DEF LifeCycle, FreeIsQuiet, OthersRest, OnStack
<1>3. flipEv[id] \in SUBSET Overlays /\ flipEv'[id] = flipEv[id] \ {o}
  BY <1>1 DEF TypeOK
<1>4. /\ Cardinality(flipEv[id]) \in Nat
      /\ Cardinality(flipEv'[id]) = Cardinality(flipEv[id]) - 1
  BY <1>1, <1>3, EventCount
<1>5. Flipping(id)'
  BY <1>1, <1>2, <1>4 DEF Resting, Flipping
<1>6. CallReady(Call("flip_handler", id))'
  BY <1>5 DEF CallReady, Call
<1>7. \A x \in ReqIds \ {id} : Kept(x)
  BY <1>1 DEF Kept, TypeOK
<1>8. QueueIsLive' /\ IssuedIsFirst'
  BY <1>1, <1>7, SameQueue
<1> QED  BY <1>1, <1>2, <1>6, <1>7, <1>8, EnterStep DEF LifeCycle

(* Damage touches no request by itself. *)
LEMMA DamageLife ==
  ASSUME TypeOK, LifeCycle, stack = <<>>,
         stack' = <<>> \/ \E region : stack' = <<Damage(region)>>,
         UNCHANGED <<reqs, queue, syncEv, flipEv>>
  PROVE  LifeCycle'
<1>1. \A x \in ReqIds : Kept(x)
  BY DEF Kept
<1>2. QueueIsLive' /\ IssuedIsFirst'
  BY <1>1, SameQueue
<1> QED  BY <1>1, <1>2, RestStep DEF LifeCycle

(* A flip is appended to the queue, and its render is waited for or not. *)
LEMMA SwapByFlipLife ==
  ASSUME TypeOK, LifeCycle, NEW draw \in Drawables, SwapByFlip(draw)
  PROVE  LifeCycle'
<1>1. PICK n \in ReqIds : n = NewId /\ ~reqs[n].used /\ n \notin syncEv /\ flipEv[n] = {}
  BY NewIdFree, RoomFree DEF SwapByFlip
<1>2. PICK now : reqs' = WithReq(n, [NewFlip(draw) EXCEPT !.completed = now])
  BY <1>1 DEF SwapByFlip
<1>3. /\ reqs'[n].used /\ ~reqs'[n].dead /\ ~reqs'[n].rendered /\ ~reqs'[n].issued
      /\ ~reqs'[n].flipped /\ reqs'[n].num = 0
  BY <1>2, WithReqValues DEF NewFlip
<1>4. /\ stack = <<>> /\ queue' = Append(queue, n) /\ flipEv' = flipEv
      /\ \/ syncEv' = syncEv \cup {n} /\ stack' = <<>>
         \/ syncEv' = syncEv /\ stack' = <<Call("sync_handler", n)>>
  BY <1>1 DEF SwapByFlip, Swappable, Idle
<1>5. \A x \in ReqIds \ {n} : Kept(x)
  BY <1>2, <1>4, WithReqValues DEF Kept
<1>6. QueueIsLive' /\ IssuedIsFirst'
  BY <1>1, <1>3, <1>4, <1>5, LongerQueue
<1>7. CASE syncEv' = syncEv \cup {n} /\ stack' = <<>>
  <2>1. LeftAtRest(n)
    BY <1>1, <1>3, <1>4, <1>7, EventCount DEF LeftAtRest, Resting
  <2> QED  BY <1>4, <1>5, <1>6, <1>7, <2>1, RestStep DEF LifeCycle
<1>8. CASE syncEv' = syncEv /\ stack' = <<Call("sync_handler", n)>>
  <2>1. SyncReady(n)'
    BY <1>1, <1>3, <1>4, <1>8 DEF SyncReady
  <2>2. CallReady(Call("sync_handler", n))'
    BY <2>1 DEF CallReady, Call
  <2> QED  BY <1>3, <1>4, <1>5, <1>6, <1>8, <2>2, EnterStep DEF LifeCycle
<1> QED  BY <1>4, <1>7, <1>8

(* dri2_kill_swap_reqs keeps exactly the requests that an event will free. *)
LEMMA ResizeScreenLife ==
  ASSUME TypeOK, LifeCycle, ResizeScreen
  PROVE  LifeCycle'
<1>1. /\ stack = <<>> /\ stack' = <<>> /\ queue' = <<>> /\ reqs' = KillSwapReqs
      /\ syncEv' = syncEv /\ flipEv' = flipEv
  BY DEF ResizeScreen, Idle
<1>2. ASSUME NEW x \in ReqIds
      PROVE  LeftAtRest(x) /\ ~(reqs'[x].used /\ ~reqs'[x].dead)
  <2>1. reqs[x] \in SwapRequest /\ (reqs[x].used => Resting(x))
    BY <1>1 DEF TypeOK, LifeCycle, OthersRest, OnStack
  <2>2. CASE x \in FreedByKill \/ ~reqs[x].used
    <3>1. reqs'[x] = FreeRequest /\ x \notin syncEv /\ flipEv[x] = {}
      BY <1>1, <2>1, <2>2 DEF KillSwapReqs, FreedByKill, Used, LifeCycle, FreeIsQuiet, Resting
    <3> QED  BY <1>1, <3>1 DEF LeftAtRest, FreeRequest
  <2>3. CASE ~(x \in FreedByKill \/ ~reqs[x].used)
    <3>1. reqs'[x] = [reqs[x] EXCEPT !.dead = TRUE]
      BY <1>1, <2>3 DEF KillSwapReqs
    <3>2. /\ reqs'[x].used = reqs[x].used /\ reqs'[x].dead /\ reqs'[x].rendered = reqs[x].rendered
          /\ reqs'[x].issued = reqs[x].issued /\ reqs'[x].flipped = reqs[x].flipped
          /\ reqs'[x].num = reqs[x].num
      BY <2>1, <3>1 DEF SwapRequest
    <3>3. x \in syncEv \/ reqs[x].issued
      BY <2>1, <2>3 DEF FreedByKill, Used, Resting
    <3> QED  BY <1>1, <2>1, <2>3, <3>2, <3>3 DEF LeftAtRest, Resting
  <2> QED  BY <2>2, <2>3
<1>3. QueueIsLive' /\ IssuedIsFirst'
  BY <1>1, <1>2 DEF QueueIsLive, IssuedIsFirst, NoRepeat, Elems
<1> QED  BY <1>1, <1>2, <1>3, RestStep DEF LifeCycle

(* The server starts without requests. *)
LEMMA InitLife == Init => LifeCycle
<1> SUFFICES ASSUME Init PROVE LifeCycle
  OBVIOUS
<1>1. \A x \in ReqIds : ~reqs[x].used
  BY DEF Init, FreeRequest
<1>2. QueueIsLive /\ IssuedIsFirst
  BY <1>1 DEF Init, QueueIsLive, IssuedIsFirst, NoRepeat, Elems
<1>3. FreeIsQuiet /\ OthersRest
  BY <1>1 DEF Init, FreeIsQuiet, OthersRest
<1>4. StackInOrder
  BY DEF Init, StackInOrder
<1> QED  BY <1>2, <1>3, <1>4 DEF LifeCycle

(* Every step leaves the requests in order. *)
LEMMA NextLife == TypeOK /\ LifeCycle /\ [Next]_vars => LifeCycle'
<1> SUFFICES ASSUME TypeOK, LifeCycle, [Next]_vars PROVE LifeCycle'
  OBVIOUS
<1>1. CASE ServerCall
  BY <1>1, SyncHandlerLife, FlipSwapReqLife, FlipHandlerLife, FlipDoneLife,
     ScheduleDamageLife DEF ServerCall
<1>2. CASE Client
  <2>1. ASSUME NEW d, NEW resized, GetBuffers(d, resized) \/ GetFrontBuffer(d, resized)
        PROVE  LifeCycle'
    BY <2>1, LifeUnchanged DEF GetBuffers, GetFrontBuffer, lifeVars
  <2>2. ASSUME NEW d, DestroyDrawable(d) \/ SetFullscreen(d) PROVE LifeCycle'
    BY <2>2, LifeUnchanged DEF DestroyDrawable, SetFullscreen, lifeVars
  <2>3. ASSUME NEW d, SwapByCopy(d) PROVE LifeCycle'
    <3>1. /\ stack = <<>> /\ (stack' = <<>> \/ stack' = <<Damage(Areas)>>)
          /\ UNCHANGED <<reqs, queue, syncEv, flipEv>>
      BY <2>3 DEF SwapByCopy, Swappable, Idle
    <3> QED  BY <3>1, DamageLife
  <2>4. ASSUME NEW a, DrawOnScreen(a) PROVE LifeCycle'
    <3>1. /\ stack = <<>> /\ stack' = <<Damage({a})>>
          /\ UNCHANGED <<reqs, queue, syncEv, flipEv>>
      BY <2>4 DEF DrawOnScreen, Idle
    <3> QED  BY <3>1, DamageLife
  <2> QED  BY <1>2, <2>1, <2>2, <2>3, <2>4, SwapByFlipLife DEF Client
<1>3. CASE Kernel
  <2>1. ASSUME NEW o, VBlank(o) \/ TransferDone(o) PROVE LifeCycle'
    BY <2>1, LifeUnchanged DEF VBlank, TransferDone, lifeVars
  <2> QED  BY <1>3, <2>1, RenderDoneLife, FlipEventLife DEF Kernel
<1>4. ASSUME NEW o, CrtcDpms(o) PROVE LifeCycle'
  BY <1>4, LifeUnchanged DEF CrtcDpms, lifeVars
<1>5. CASE ResizeScreen
  BY <1>5, ResizeScreenLife
<1>6. CASE UNCHANGED vars
  BY <1>6, LifeUnchanged DEF vars, lifeVars
<1> QED  BY <1>1, <1>2, <1>3, <1>4, <1>5, <1>6 DEF Next

(***************************************************************************)
(* The requests are in order after every step, whatever the order of       *)
(* requests and events.                                                    *)
(***************************************************************************)
THEOREM RequestsLive == Spec => [](TypeOK /\ LifeCycle)
<1> USE DEF Spec
<1>1. Spec => []TypeOK
  BY TypeCorrect
<1> QED  BY <1>1, InitLife, NextLife, PTL

(***************************************************************************)
(* An event always finds the request it was asked for: a request is freed  *)
(* by its last event and not before, and none stays behind without an      *)
(* event that will free it, whatever the order of swaps, damage, events,   *)
(* DPMS and resizing of the screen.                                        *)
(***************************************************************************)
THEOREM EventsFindRequests == Spec => []EventsMatchRequests
<1>1. TypeOK /\ LifeCycle => EventsMatchRequests
  <2> SUFFICES ASSUME TypeOK, LifeCycle PROVE EventsMatchRequests
    OBVIOUS
  <2>1. ASSUME NEW id \in ReqIds, id \in syncEv \/ flipEv[id] # {}
        PROVE  id \in Used /\ (id \in syncEv => ~reqs[id].rendered /\ flipEv[id] = {})
    <3>1. reqs[id].used
      BY <2>1 DEF LifeCycle, FreeIsQuiet
    <3>2. CASE OnStack(id)
      <4>1. PICK i \in 1 .. Len(stack) : stack[i].id = id
        BY <3>2 DEF OnStack
      <4>2. CallReady(stack[i]) /\ stack[i] \in Frame
        BY DEF TypeOK, LifeCycle, StackInOrder
      <4>3. stack[i].call \in {"sync_handler", "flip_swap_req", "flip_handler", "flip_done"}
        BY <4>1, <4>2 DEF Frame, ReqIds
      <4> QED
        BY <3>1, <4>1, <4>2, <4>3
        DEF CallReady, SyncReady, FlipReady, Flipping, Flipped, Used
    <3>3. CASE ~OnStack(id)
      BY <3>1, <3>3 DEF LifeCycle, OthersRest, Resting, Used
    <3> QED  BY <3>2, <3>3
  <2>2. ASSUME Idle, NEW id \in Used
        PROVE  /\ id \in InQueue <=> ~reqs[id].dead
               /\ reqs[id].num = Cardinality(flipEv[id])
               /\ reqs[id].dead => id \in syncEv \/ flipEv[id] # {}
    <3>1. Resting(id)
      BY <2>2 DEF Idle, OnStack, Used, LifeCycle, OthersRest
    <3> QED  BY <3>1 DEF Resting, InQueue, Used, LifeCycle, QueueIsLive, Elems
  <2> QED  BY <2>1, <2>2 DEF EventsMatchRequests
<1> QED  BY <1>1, RequestsLive, PTL

-----------------------------------------------------------------------------
(***************************************************************************)
(* The ring of flip buffers behind the queue: which buffers the flips in   *)
(* the queue replace and show, which are busy or reserved, and when a      *)
(* client waits.                                                           *)
(***************************************************************************)

(* The buffers that are shown or still to be shown and replaced. *)
Occupied == {pf.front} \cup {reqs[x].front : x \in QFlips}

(* Flip y is the next one after x, and replaces what x shows. *)
Follows(x, y) ==
  /\ Before(queue, x, y)
  /\ reqs[x].back = reqs[y].front
  /\ \A z \in QFlips : ~(Before(queue, x, z) /\ Before(queue, z, y))

(* What NewFlip and NewUpdate make, and what never changes of it. *)
Form(r) ==
  \/ /\ r.type = "flip" /\ r.front \in Buf /\ r.back = NextBuf(r.front)
     /\ r.update = IF VSync THEN r.back ELSE SWAP_INVALID_IDX
  \/ /\ r.type = "extfb" /\ r.front = SWAP_INVALID_IDX /\ r.back = SWAP_INVALID_IDX
     /\ r.update # SWAP_INVALID_IDX /\ r.completed

FormsHold == \A x \in Elems(queue) : Form(reqs[x])

(* No two flips replace the same buffer, and none the last one submitted. *)
FrontsApart ==
  /\ \A x \in QFlips : reqs[x].front # pf.front
  /\ \A x, y \in QFlips : reqs[x].front = reqs[y].front => x = y
  /\ NumBufs < 2 => QFlips = {}

(* Each flip replaces what the one before it shows, the last shows pf.front. *)
Linked ==
  /\ pf.back = NextBuf(pf.front)
  /\ QFlips # {} => \E x \in QFlips : /\ reqs[x].back = pf.front
                                      /\ \A y \in QFlips : ~Before(queue, x, y)
  /\ \A x, y \in QFlips : Before(queue, x, y) =>
       (\E z \in QFlips : Follows(x, z)) /\ (\E z \in QFlips : Follows(z, y))

(* Busy are pf.front and what flips have not replaced yet. *)
BusyExact ==
  pf.busy = {pf.front} \cup {reqs[x].front : x \in {y \in QFlips : ~reqs[y].flipped}}

(* The last flip is uncompleted while the next back buffer is occupied. *)
Waiting ==
  /\ NumBufs >= 2 => (Uncompleted # {} <=> pf.back \in Occupied)
  /\ \A u \in Uncompleted : reqs[u].back = pf.front
  /\ pf.completes = IF Uncompleted = {} THEN 0 ELSE 1
  /\ \A d \in alive : pending[d] = IF \E u \in Uncompleted : reqs[u].draw = d THEN 1 ELSE 0

(* At most one flip or update is on its way. *)
OnItsWay(x) == reqs[x].update # SWAP_INVALID_IDX /\ reqs[x].issued /\ ~reqs[x].flipped
FlipsExact == pf.flips = IF \E x \in Elems(queue) : OnItsWay(x) THEN 1 ELSE 0

(***************************************************************************)
(* Of each buffer at most one update, or flip with vsync, is in the queue: *)
(* a buffer that is updated is the one submitted last, or a flip that      *)
(* comes later replaces it.                                                *)
(***************************************************************************)
UpdatesApart ==
  /\ \A x, y \in Elems(queue) :
       reqs[x].update = reqs[y].update /\ reqs[x].update # SWAP_INVALID_IDX => x = y
  /\ VSync => \A x \in Elems(queue) : reqs[x].type = "extfb" =>
       \/ reqs[x].update = pf.front
       \/ \E y \in QFlips : Before(queue, x, y) /\ reqs[y].front = reqs[x].update

Ring ==
  Up => /\ FormsHold /\ FrontsApart /\ Linked /\ BusyExact /\ Waiting /\ FlipsExact
        /\ UpdatesApart

-----------------------------------------------------------------------------
(* The uncompleted requests are in the queue. *)
LEMMA Waiters ==
  ASSUME LifeCycle
  PROVE  Uncompleted = {x \in Elems(queue) : ~reqs[x].completed}
BY DEF LifeCycle, QueueIsLive, Uncompleted, Used

(* A step leaves the frame of a request as it is. *)
SameForm(x) ==
  /\ reqs'[x].type = reqs[x].type /\ reqs'[x].draw = reqs[x].draw
  /\ reqs'[x].front = reqs[x].front /\ reqs'[x].back = reqs[x].back
  /\ reqs'[x].update = reqs[x].update /\ reqs'[x].completed = reqs[x].completed

(* The parts of the ring that rest on the frames of the requests in the queue. *)
LEMMA FormsKept ==
  ASSUME LifeCycle, LifeCycle', Up, Ring, queue' = queue, alive' \subseteq alive,
         \A d \in alive' : pending'[d] = pending[d], pf'.front = pf.front, pf'.back = pf.back,
         pf'.completes = pf.completes, \A x \in Elems(queue) : SameForm(x)
  PROVE  /\ FormsHold' /\ FrontsApart' /\ Linked' /\ Waiting' /\ UpdatesApart'
         /\ QFlips' = QFlips
<1>1. QFlips' = QFlips /\ QFlips \subseteq Elems(queue)
  BY DEF QFlips, SameForm
<1>2. Uncompleted' = Uncompleted /\ Uncompleted \subseteq Elems(queue)
  <2>1. Uncompleted' = {x \in Elems(queue') : ~reqs'[x].completed}
    BY DEF LifeCycle, QueueIsLive, Uncompleted, Used
  <2>2. Uncompleted = {x \in Elems(queue) : ~reqs[x].completed}
    BY Waiters
  <2> QED  BY <2>1, <2>2 DEF SameForm
<1>3. Occupied' = Occupied
  BY <1>1 DEF Occupied, SameForm
<1>4. FormsHold'
  BY DEF Ring, FormsHold, Form, SameForm
<1>5. FrontsApart'
  BY <1>1 DEF Ring, FrontsApart, SameForm
<1>6. \A x, y \in QFlips : Follows(x, y)' <=> Follows(x, y)
  BY <1>1 DEF Follows, SameForm
<1>7. Linked'
  BY <1>1, <1>6 DEF Ring, Linked, SameForm
<1>8. Waiting'
  BY <1>2, <1>3 DEF Ring, Waiting, SameForm
<1>9. UpdatesApart'
  BY <1>1 DEF Ring, UpdatesApart, SameForm
<1> QED  BY <1>1, <1>4, <1>5, <1>7, <1>8, <1>9

(* A step that moves neither the ring nor a flip. *)
LEMMA RingKept ==
  ASSUME LifeCycle, LifeCycle', Ring, Up' => Up, queue' = queue, alive' \subseteq alive,
         \A d \in alive' : pending'[d] = pending[d],
         pf'.front = pf.front, pf'.back = pf.back, pf'.completes = pf.completes,
         pf'.busy = pf.busy, pf'.flips = pf.flips,
         \A x \in Elems(queue) : /\ SameForm(x) /\ reqs'[x].issued = reqs[x].issued
                                 /\ reqs'[x].flipped = reqs[x].flipped
  PROVE  Ring'
<1> SUFFICES ASSUME Up' PROVE Ring'
  BY DEF Ring
<1>1. /\ FormsHold' /\ FrontsApart' /\ Linked' /\ Waiting' /\ UpdatesApart'
      /\ QFlips' = QFlips
  BY FormsKept
<1>2. QFlips \subseteq Elems(queue)
  BY DEF QFlips
<1>3. BusyExact'
  BY <1>1, <1>2 DEF Ring, BusyExact, SameForm
<1>4. FlipsExact'
  <2>1. \A x \in Elems(queue) : OnItsWay(x)' <=> OnItsWay(x)
    BY DEF OnItsWay, SameForm
  <2> QED  BY <2>1 DEF Ring, FlipsExact
<1> QED  BY <1>1, <1>3, <1>4 DEF Ring

(* A request that is marked as rendered or merged keeps its frame. *)
LEMMA FieldsKept ==
  ASSUME NEW r \in SwapRequest
  PROVE  /\ LET q == [r EXCEPT !.rendered = TRUE]
            IN  /\ q.type = r.type /\ q.draw = r.draw /\ q.front = r.front /\ q.back = r.back
                /\ q.update = r.update /\ q.completed = r.completed
                /\ q.issued = r.issued /\ q.flipped = r.flipped
         /\ \A x : LET q == [r EXCEPT !.region = x]
            IN  /\ q.type = r.type /\ q.draw = r.draw /\ q.front = r.front /\ q.back = r.back
                /\ q.update = r.update /\ q.completed = r.completed
                /\ q.issued = r.issued /\ q.flipped = r.flipped
         /\ \A x : LET q == [r EXCEPT !.num = x]
            IN  /\ q.type = r.type /\ q.draw = r.draw /\ q.front = r.front /\ q.back = r.back
                /\ q.update = r.update /\ q.completed = r.completed
                /\ q.issued = r.issued /\ q.flipped = r.flipped
         /\ \A x : LET q == [r EXCEPT !.num = x, !.flipped = TRUE]
            IN  /\ q.type = r.type /\ q.draw = r.draw /\ q.front = r.front /\ q.back = r.back
                /\ q.update = r.update /\ q.completed = r.completed
                /\ q.issued = r.issued /\ q.flipped
         /\ \A x : LET q == [r EXCEPT !.issued = TRUE, !.num = x]
            IN  /\ q.type = r.type /\ q.draw = r.draw /\ q.front = r.front /\ q.back = r.back
                /\ q.update = r.update /\ q.completed = r.completed
                /\ q.issued /\ q.flipped = r.flipped
         /\ LET q == [r EXCEPT !.completed = TRUE]
            IN  /\ q.type = r.type /\ q.draw = r.draw /\ q.front = r.front /\ q.back = r.back
                /\ q.update = r.update /\ q.completed
                /\ q.issued = r.issued /\ q.flipped = r.flipped
BY DEF SwapRequest

(* The end of a render moves no flip. *)
LEMMA SyncHandlerRing ==
  ASSUME TypeOK, LifeCycle, LifeCycle', Ring, SyncHandler
  PROVE  Ring'
<1>1. PICK id \in ReqIds : id = Head(stack).id /\ SyncReady(id)
  BY RunningCall DEF SyncHandler, CallReady
<1> DEFINE r == reqs[id]
<1>2. /\ reqs' = IF r.dead THEN WithoutReq(id) ELSE WithReq(id, [r EXCEPT !.rendered = TRUE])
      /\ pf' = Require(pf, ~r.rendered /\ ~r.issued /\ ~r.flipped)
      /\ queue' = queue /\ alive' = alive /\ pending' = pending
  BY <1>1 DEF SyncHandler
<1>3. /\ pf'.front = pf.front /\ pf'.back = pf.back /\ pf'.completes = pf.completes
      /\ pf'.busy = pf.busy /\ pf'.flips = pf.flips /\ (Up' => Up)
  BY <1>2, RequireRing DEF TypeOK, Up, SameRing
<1>4. r \in SwapRequest
  BY DEF TypeOK
<1>5. ASSUME NEW x \in Elems(queue)
      PROVE  /\ SameForm(x) /\ reqs'[x].issued = reqs[x].issued
             /\ reqs'[x].flipped = reqs[x].flipped
  <2>1. x \in ReqIds /\ ~reqs[x].dead
    BY DEF LifeCycle, QueueIsLive
  <2>2. CASE x # id
    <3>1. reqs'[x] = reqs[x]
      BY <1>2, <2>1, <2>2 DEF WithReq, WithoutReq, TypeOK
    <3> QED  BY <3>1 DEF SameForm
  <2>3. CASE x = id
    <3>1. reqs'[x] = [r EXCEPT !.rendered = TRUE]
      BY <1>2, <2>1, <2>3, WithReqValues
    <3> QED  BY <1>4, <2>3, <3>1, FieldsKept DEF SameForm
  <2> QED  BY <2>2, <2>3
<1> QED  BY <1>2, <1>3, <1>5, RingKept

(* The next flip or update is on its way. *)
LEMMA FlipSwapReqRing ==
  ASSUME TypeOK, LifeCycle, LifeCycle', Ring, FlipSwapReq
  PROVE  Ring'
<1> SUFFICES ASSUME Up' PROVE Ring'
  BY DEF Ring
<1>1. PICK id \in ReqIds : id = Head(stack).id /\ FlipReady(id)
  BY RunningCall DEF FlipSwapReq, CallReady
<1> DEFINE r == reqs[id]
           counts == r.update # SWAP_INVALID_IDX
           cond == /\ FindNextFlip(reqs, queue, r) = id
                   /\ r.rendered /\ ~r.flipped /\ ~r.issued
                   /\ counts => pf.flips = 0
           a == Require(pf, cond)
<1>2. PICK num : reqs' = WithReq(id, [r EXCEPT !.issued = TRUE, !.num = num])
  BY <1>1 DEF FlipSwapReq
<1>3. /\ pf' = IF counts THEN [a EXCEPT !.flips = @ + 1] ELSE a
      /\ queue' = queue /\ alive' = alive /\ pending' = pending
  BY <1>1 DEF FlipSwapReq, IssueFlip
<1>4. /\ pf'.front = pf.front /\ pf'.back = pf.back /\ pf'.completes = pf.completes
      /\ pf'.busy = pf.busy /\ pf'.flips = (IF counts THEN 1 ELSE pf.flips) /\ Up
  <2>1. a \in FlipState
    BY RequireType DEF TypeOK
  <2>2. /\ a.front = pf.front /\ a.back = pf.back /\ a.completes = pf.completes
        /\ a.busy = pf.busy /\ a.flips = pf.flips
        /\ a.server = "up" => pf.server = "up" /\ (counts => pf.flips = 0)
    <3> HIDE DEF cond
    <3>1. /\ a.front = pf.front /\ a.back = pf.back /\ a.completes = pf.completes
          /\ a.busy = pf.busy /\ a.flips = pf.flips
          /\ a.server = "up" => pf.server = "up" /\ cond
      BY RequireRing DEF TypeOK, SameRing
    <3> QED  BY <3>1 DEF cond
  <2> HIDE DEF a, counts
  <2>3. /\ pf'.front = a.front /\ pf'.back = a.back /\ pf'.completes = a.completes
        /\ pf'.busy = a.busy /\ pf'.flips = (IF counts THEN a.flips + 1 ELSE a.flips)
        /\ pf'.server = a.server
    BY <1>3, <2>1 DEF FlipState
  <2> QED  BY <2>2, <2>3 DEF Up
<1>5. reqs'[id] = [r EXCEPT !.issued = TRUE, !.num = num] /\ r \in SwapRequest
      /\ \A x \in ReqIds \ {id} : reqs'[x] = reqs[x]
  BY <1>2, WithReqValues DEF TypeOK
<1>6. /\ SameForm(id) /\ reqs'[id].issued /\ reqs'[id].flipped = r.flipped
      /\ \A x \in ReqIds \ {id} : SameForm(x)
  BY <1>5, FieldsKept DEF SameForm
<1>7. id \in Elems(queue) /\ Elems(queue) \subseteq ReqIds /\ ~r.flipped /\ ~r.issued
  BY <1>1 DEF LifeCycle, QueueIsLive, FlipReady
<1>8. /\ FormsHold' /\ FrontsApart' /\ Linked' /\ Waiting' /\ UpdatesApart'
      /\ QFlips' = QFlips /\ QFlips \subseteq Elems(queue)
  <2>1. QFlips \subseteq Elems(queue)
    BY DEF QFlips
  <2> QED  BY <1>3, <1>4, <1>6, <1>7, <2>1, FormsKept
<1>9. BusyExact'
  <2>1. \A x \in QFlips : reqs'[x].front = reqs[x].front /\ reqs'[x].flipped = reqs[x].flipped
    BY <1>5, <1>6, <1>7, <1>8 DEF SameForm
  <2> QED  BY <1>4, <1>8, <2>1 DEF Ring, BusyExact
<1>10. FlipsExact'
  <2>1. \A x \in Elems(queue) \ {id} : OnItsWay(x)' <=> OnItsWay(x)
    BY <1>5, <1>7 DEF OnItsWay
  <2>2. OnItsWay(id)' <=> counts
    BY <1>6, <1>7 DEF OnItsWay, SameForm
  <2>3. ~OnItsWay(id)
    BY <1>7 DEF OnItsWay
  <2> QED  BY <1>3, <1>4, <1>7, <2>1, <2>2, <2>3 DEF Ring, FlipsExact
<1> QED  BY <1>8, <1>9, <1>10 DEF Ring

(* The busy flag of the buffer that a flip replaces, and the count of flips. *)
LEMMA FlippedFields ==
  ASSUME NEW a \in FlipState, NEW r \in SwapRequest
  PROVE  LET free == ReleaseFront(a, r)
             n    == IF r.update # SWAP_INVALID_IDX THEN [free EXCEPT !.flips = @ - 1] ELSE free
         IN  /\ n.front = a.front /\ n.back = a.back /\ n.completes = a.completes
             /\ n.server = a.server /\ n.busy = a.busy \ {r.front}
             /\ n.flips = IF r.update # SWAP_INVALID_IDX THEN a.flips - 1 ELSE a.flips
<1> DEFINE free == ReleaseFront(a, r)
           n    == IF r.update # SWAP_INVALID_IDX THEN [free EXCEPT !.flips = @ - 1] ELSE free
<1>1. /\ free \in FlipState /\ free.front = a.front /\ free.back = a.back
      /\ free.completes = a.completes /\ free.server = a.server /\ free.flips = a.flips
      /\ free.busy = a.busy \ {r.front}
  <2>1. CASE r.front = SWAP_INVALID_IDX
    <3>1. r.front \notin a.busy
      BY <2>1 DEF FlipState, Buf, SWAP_INVALID_IDX
    <3> QED  BY <2>1, <3>1 DEF ReleaseFront
  <2>2. CASE r.front # SWAP_INVALID_IDX
    <3> DEFINE x == a.busy \ {r.front}
    <3>1. free = [a EXCEPT !.busy = x] /\ x \in SUBSET Buf
      BY <2>2 DEF ReleaseFront, FlipState
    <3> HIDE DEF x, free
    <3>2. free \in FlipState
      BY <3>1, FieldTypes
    <3> QED  BY <3>1, <3>2 DEF FlipState, x
  <2> QED  BY <2>1, <2>2
<1> HIDE DEF free
<1>2. /\ n.front = a.front /\ n.back = a.back /\ n.completes = a.completes
      /\ n.server = a.server /\ n.busy = a.busy \ {r.front}
      /\ n.flips = IF r.update # SWAP_INVALID_IDX THEN a.flips - 1 ELSE a.flips
  BY <1>1 DEF FlipState
<1> QED  BY <1>2 DEF free

(* The first of its class is on the screen: what it replaces is free again. *)
LEMMA FlipHandlerRing ==
  ASSUME TypeOK, TypeOK', LifeCycle, LifeCycle', Ring, FlipHandler
  PROVE  Ring'
<1> SUFFICES ASSUME Up' PROVE Ring'
  BY DEF Ring
<1>1. PICK id \in ReqIds : id = Head(stack).id /\ Flipping(id)
  <2>1. Running("flip_handler")
    BY DEF FlipHandler
  <2> QED  BY <2>1, RunningCall DEF CallReady
<1> DEFINE r == reqs[id]
           a == FlipChecked(pf, id)
<1>2. queue' = queue /\ alive' = alive /\ pending' = pending
  BY DEF FlipHandler
<1>3. r \in SwapRequest /\ reqs \in [ReqIds -> SwapRequest] /\ r.issued /\ ~r.flipped
  BY <1>1 DEF TypeOK, Flipping
<1>4. Elems(queue) \subseteq ReqIds /\ (id \in Elems(queue) <=> ~r.dead)
  BY <1>1 DEF LifeCycle, QueueIsLive, Flipping
<1>5. ASSUME NEW q, reqs' = WithReq(id, q)
      PROVE  reqs'[id] = q /\ \A x \in ReqIds \ {id} : reqs'[x] = reqs[x]
  BY <1>5, WithReqValues
<1>6. CASE reqs' = WithReq(id, [r EXCEPT !.num = @ - 1]) /\ pf' = pf
  <2>1. \A x \in Elems(queue) : /\ SameForm(x) /\ reqs'[x].issued = reqs[x].issued
                                /\ reqs'[x].flipped = reqs[x].flipped
    <3>1. PICK n : /\ reqs'[id] = [r EXCEPT !.num = n]
                   /\ \A x \in ReqIds \ {id} : reqs'[x] = reqs[x]
      BY <1>5, <1>6
    <3>2. /\ SameForm(id) /\ reqs'[id].issued = r.issued /\ reqs'[id].flipped = r.flipped
      BY <1>3, <3>1 DEF SameForm, SwapRequest
    <3> QED  BY <1>4, <3>1, <3>2 DEF SameForm
  <2> QED  BY <1>2, <1>6, <2>1, RingKept DEF Up
<1>7. /\ a \in FlipState /\ a.front = pf.front /\ a.back = pf.back
      /\ a.completes = pf.completes /\ a.busy = pf.busy /\ a.flips = pf.flips
      /\ a.server = "up" =>
           /\ pf.server = "up"
           /\ ~r.dead => (r.update # SWAP_INVALID_IDX => pf.flips = 1)
  <2> DEFINE cond == /\ r.rendered /\ ~r.flipped /\ r.issued
                     /\ ~r.dead =>
                          /\ FindNextFlip(reqs, queue, r) = id
                          /\ {r.front, r.back} \subseteq pf.busy \cup {SWAP_INVALID_IDX}
                          /\ r.update # SWAP_INVALID_IDX => pf.flips = 1
  <2>1. a = Require(pf, cond) /\ (cond => (~r.dead => (r.update # SWAP_INVALID_IDX => pf.flips = 1)))
    BY DEF FlipChecked
  <2> HIDE DEF cond, a
  <2>2. a \in FlipState
    BY <2>1, RequireType DEF TypeOK
  <2>3. /\ a.front = pf.front /\ a.back = pf.back
        /\ a.completes = pf.completes /\ a.busy = pf.busy /\ a.flips = pf.flips
        /\ a.server = "up" => cond /\ pf.server = "up"
    BY <2>1, RequireRing DEF TypeOK, SameRing
  <2> QED  BY <2>1, <2>2, <2>3
<1> HIDE DEF a
<1>8. CASE r.dead /\ pf' = a /\ reqs' = WithoutReq(id)
  <2>1. \A x \in Elems(queue) : reqs'[x] = reqs[x]
    BY <1>3, <1>4, <1>8 DEF WithoutReq
  <2> QED  BY <1>2, <1>7, <1>8, <2>1, RingKept DEF Up, SameForm
<1>9. CASE /\ ~r.dead
           /\ LET free == ReleaseFront(a, r)
              IN  pf' = IF r.update # SWAP_INVALID_IDX THEN [free EXCEPT !.flips = @ - 1] ELSE free
           /\ reqs' = WithReq(id, [r EXCEPT !.num = 0, !.flipped = TRUE])
  <2>1. /\ pf'.front = pf.front /\ pf'.back = pf.back /\ pf'.completes = pf.completes
        /\ pf'.server = a.server /\ pf'.busy = pf.busy \ {r.front}
        /\ pf'.flips = IF r.update # SWAP_INVALID_IDX THEN pf.flips - 1 ELSE pf.flips
    <3> HIDE DEF r
    <3>2. /\ pf'.front = a.front /\ pf'.back = a.back /\ pf'.completes = a.completes
          /\ pf'.server = a.server /\ pf'.busy = a.busy \ {r.front}
          /\ pf'.flips = IF r.update # SWAP_INVALID_IDX THEN a.flips - 1 ELSE a.flips
      BY <1>3, <1>7, <1>9, FlippedFields
    <3> QED  BY <1>7, <3>2
  <2>2. Up /\ (r.update # SWAP_INVALID_IDX => pf.flips = 1) /\ id \in Elems(queue)
    BY <1>4, <1>7, <1>9, <2>1 DEF Up
  <2>3. reqs'[id] = [r EXCEPT !.num = 0, !.flipped = TRUE] /\ \A x \in ReqIds \ {id} : reqs'[x] = reqs[x]
    BY <1>5, <1>9
  <2>4. SameForm(id) /\ reqs'[id].issued = r.issued /\ reqs'[id].flipped
    <3> HIDE DEF r
    <3>1. /\ reqs'[id].type = r.type /\ reqs'[id].draw = r.draw
          /\ reqs'[id].front = r.front /\ reqs'[id].back = r.back
          /\ reqs'[id].update = r.update /\ reqs'[id].completed = r.completed
          /\ reqs'[id].issued = r.issued /\ reqs'[id].flipped
      BY <1>3, <2>3 DEF SwapRequest
    <3> QED  BY <3>1 DEF SameForm, r
  <2>5. \A x \in Elems(queue) : SameForm(x) /\ reqs'[x].issued = reqs[x].issued
    BY <1>4, <2>3, <2>4 DEF SameForm
  <2>6. /\ FormsHold' /\ FrontsApart' /\ Linked' /\ Waiting' /\ UpdatesApart'
        /\ QFlips' = QFlips /\ QFlips \subseteq Elems(queue)
    <3>1. QFlips \subseteq Elems(queue)
      BY DEF QFlips
    <3> QED  BY <1>2, <2>1, <2>2, <2>5, <3>1, FormsKept
  <2>7. BusyExact'
    <3>1. /\ pf.busy = {pf.front} \cup {reqs[x].front : x \in {y \in QFlips : ~reqs[y].flipped}}
          /\ \A x \in QFlips : reqs[x].front # pf.front
          /\ \A x, y \in QFlips : reqs[x].front = reqs[y].front => x = y
          /\ Form(r) /\ pf.front \in Buf
      BY <2>2 DEF Ring, BusyExact, FrontsApart, FormsHold, TypeOK, FlipState
    <3>2. \A x \in QFlips : /\ reqs'[x].front = reqs[x].front
                            /\ reqs'[x].flipped <=> reqs[x].flipped \/ x = id
      BY <1>4, <2>3, <2>4, <2>5, <2>6 DEF SameForm
    <3>3. CASE id \in QFlips
      <4>1. r.front # pf.front
        BY <3>1, <3>3
      <4>2. pf.busy \ {r.front} =
              {pf.front} \cup {reqs[x].front : x \in {y \in QFlips : ~reqs[y].flipped /\ y # id}}
        BY <3>1, <3>3, <4>1
      <4>3. {reqs'[x].front : x \in {y \in QFlips : ~reqs'[y].flipped}}
              = {reqs[x].front : x \in {y \in QFlips : ~reqs[y].flipped /\ y # id}}
        BY <3>2
      <4> QED  BY <2>1, <2>6, <4>2, <4>3 DEF BusyExact
    <3>4. CASE id \notin QFlips
      <4>1. r.type # "flip"
        BY <2>2, <3>4 DEF QFlips
      <4>2. r.front = SWAP_INVALID_IDX /\ SWAP_INVALID_IDX \notin Buf
        BY <3>1, <4>1 DEF Form, SWAP_INVALID_IDX, Buf
      <4>3. pf.busy \ {r.front} = pf.busy
        BY <4>2 DEF TypeOK, FlipState
      <4>4. {reqs'[x].front : x \in {y \in QFlips : ~reqs'[y].flipped}}
              = {reqs[x].front : x \in {y \in QFlips : ~reqs[y].flipped}}
        BY <3>2, <3>4
      <4> QED  BY <2>1, <2>6, <3>1, <4>3, <4>4 DEF BusyExact
    <3> QED  BY <3>3, <3>4
  <2>8. FlipsExact'
    <3>1. ~OnItsWay(id)'
      BY <2>4 DEF OnItsWay
    <3>2. \A x \in Elems(queue) \ {id} : OnItsWay(x)' <=> OnItsWay(x)
      BY <1>4, <2>3 DEF OnItsWay
    <3>3. CASE r.update = SWAP_INVALID_IDX
      <4>1. ~OnItsWay(id)
        BY <3>3 DEF OnItsWay
      <4> QED  BY <1>2, <2>1, <2>2, <3>1, <3>2, <3>3, <4>1 DEF Ring, FlipsExact
    <3>4. CASE r.update # SWAP_INVALID_IDX
      <4>1. \A x \in Elems(queue) \ {id} : ~OnItsWay(x)
        <5> SUFFICES ASSUME NEW x \in Elems(queue) \ {id}, OnItsWay(x) PROVE FALSE
          OBVIOUS
        <5>1. SameClass(reqs[x], r) /\ SameClass(r, reqs[x]) /\ reqs[x].issued
          BY <3>4 DEF OnItsWay, SameClass
        <5>2. Before(queue, x, id) \/ Before(queue, id, x)
          BY <2>2, BeforeOrder DEF TypeOK, LifeCycle, QueueIsLive
        <5> QED  BY <1>3, <2>2, <5>1, <5>2 DEF LifeCycle, IssuedIsFirst
      <4>2. pf'.flips = 0
        BY <2>1, <2>2, <3>4
      <4> QED  BY <1>2, <3>1, <3>2, <4>1, <4>2 DEF FlipsExact
    <3> QED  BY <3>3, <3>4
  <2> QED  BY <2>6, <2>7, <2>8 DEF Ring
<1>10. \/ reqs' = WithReq(id, [r EXCEPT !.num = @ - 1]) /\ pf' = pf
       \/ r.dead /\ pf' = a /\ reqs' = WithoutReq(id)
       \/ /\ ~r.dead
          /\ LET free == ReleaseFront(a, r)
             IN  pf' = IF r.update # SWAP_INVALID_IDX THEN [free EXCEPT !.flips = @ - 1] ELSE free
          /\ reqs' = WithReq(id, [r EXCEPT !.num = 0, !.flipped = TRUE])
  BY <1>1 DEF FlipHandler, a
<1> QED  BY <1>6, <1>8, <1>9, <1>10

(* Each buffer of the ring succeeds one buffer only. *)
LEMMA NextBufInjective == \A i, j \in Buf : NextBuf(i) = NextBuf(j) => i = j
<1>1. \A i \in Buf : NextBuf(i) = IF i + 1 < NumBufs THEN i + 1 ELSE 0
  <2> SUFFICES ASSUME NEW i \in Buf PROVE NextBuf(i) = IF i + 1 < NumBufs THEN i + 1 ELSE 0
    OBVIOUS
  <2>1. CASE i + 1 < NumBufs
    BY <2>1, FlipAssumption DEF Buf, NextBuf
  <2>2. CASE i + 1 = NumBufs
    BY <2>2, FlipAssumption DEF Buf, NextBuf
  <2> QED  BY <2>1, <2>2, FlipAssumption DEF Buf
<1> QED  BY <1>1, FlipAssumption DEF Buf

(* A request that was issued is the first of its class. *)
LEMMA IssuedLeads ==
  ASSUME TypeOK, LifeCycle, Ring, Up, NEW id \in Elems(queue), reqs[id].issued
  PROVE  /\ \A x \in Elems(queue) : SameClass(reqs[x], reqs[id]) => ~Before(queue, x, id)
         /\ id \in QFlips => \A x \in QFlips : x = id \/ Before(queue, id, x)
         /\ VSync => \A x \in Elems(queue) : x = id \/ Before(queue, id, x)
<1>1. \A x \in Elems(queue) : SameClass(reqs[x], reqs[id]) => ~Before(queue, x, id)
  BY DEF LifeCycle, IssuedIsFirst
<1>2. \A x \in Elems(queue) : x = id \/ Before(queue, id, x) \/ Before(queue, x, id)
  BY BeforeOrder DEF TypeOK, LifeCycle, QueueIsLive
<1>3. \A x \in Elems(queue) : VSync => reqs[x].update # SWAP_INVALID_IDX
  BY NextBufType DEF Ring, FormsHold, Form, SWAP_INVALID_IDX, Buf
<1>4. \A x \in QFlips : x \in Elems(queue) /\ (~VSync => reqs[x].update = SWAP_INVALID_IDX)
  BY DEF Ring, FormsHold, Form, QFlips
<1> QED  BY <1>1, <1>2, <1>3, <1>4 DEF SameClass

(* At most one swap of all is not completed, and it is the last flip. *)
LEMMA OneWaits ==
  ASSUME TypeOK, LifeCycle, Ring, Up
  PROVE  /\ Uncompleted = {x \in QFlips : ~reqs[x].completed}
         /\ \A u, v \in Uncompleted : u = v
<1>1. Uncompleted = {x \in QFlips : ~reqs[x].completed}
  BY Waiters DEF Ring, FormsHold, Form, QFlips
<1>2. \A u \in QFlips : reqs[u].front \in Buf /\ reqs[u].back = NextBuf(reqs[u].front)
  BY DEF Ring, FormsHold, Form, QFlips
<1>3. \A u, v \in Uncompleted : reqs[u].front = reqs[v].front
  BY <1>1, <1>2, NextBufInjective DEF Ring, Waiting
<1> QED  BY <1>1, <1>3 DEF Ring, FrontsApart

(* The buffer to be drawn next is shown by the first flip, if it is in use at all. *)
LEMMA BackIsFirst ==
  ASSUME TypeOK, LifeCycle, Ring, Up, NumBufs >= 2,
         NEW id \in QFlips, \A x \in QFlips : x = id \/ Before(queue, id, x),
         NEW z \in QFlips, reqs[z].front = pf.back
  PROVE  z = id
<1> SUFFICES ASSUME z # id PROVE FALSE
  OBVIOUS
<1>1. PICK w \in QFlips : reqs[w].back = pf.back
  BY DEF Ring, Linked, Follows
<1>2. reqs[w].front \in Buf /\ reqs[w].back = NextBuf(reqs[w].front)
  BY DEF Ring, FormsHold, Form, QFlips
<1>3. pf.back = NextBuf(pf.front) /\ pf.front \in Buf
  BY DEF Ring, Linked, TypeOK, FlipState
<1>4. reqs[w].front = pf.front
  BY <1>1, <1>2, <1>3, NextBufInjective
<1> QED  BY <1>4 DEF Ring, FrontsApart

(* The first flip or update leaves the queue; the swap that waited is done. *)
LEMMA FlipDoneRing ==
  ASSUME TypeOK, TypeOK', LifeCycle, LifeCycle', Ring, FlipDone
  PROVE  Ring'
<1> SUFFICES ASSUME Up' PROVE Ring'
  BY DEF Ring
<1>1. PICK id \in ReqIds : id = Head(stack).id /\ Flipped(id)
  <2>1. Running("flip_done")
    BY DEF FlipDone
  <2> QED  BY <2>1, RunningCall DEF CallReady
<1> DEFINE r  == reqs[id]
           c  == IF CompletesPending(r) THEN FindFirstPendingFlip(reqs, queue) ELSE 0
           rs == [i \in ReqIds |->
                    IF i = id THEN FreeRequest
                    ELSE IF i = c THEN [reqs[i] EXCEPT !.completed = TRUE] ELSE reqs[i]]
           cond == /\ id \in {queue[i] : i \in DOMAIN queue}
                   /\ c # 0 => reqs[c].back = pf.front /\ ~reqs[c].dead
           a  == Require(pf, cond)
           Q  == Elems(queue)
           Q1 == Elems(queue) \ {id}
<1>2. /\ queue' = Unlink(queue, id) /\ reqs' = rs /\ alive' = alive
      /\ pf' = (IF c = 0 THEN a ELSE [a EXCEPT !.completes = @ - 1])
      /\ SwapComplete(IF c = 0 THEN {} ELSE {reqs[c].draw})
  BY <1>1 DEF FlipDone
<1>3. /\ NoRepeat(queue) /\ queue \in Seq(ReqIds) /\ Q \subseteq ReqIds /\ id \in Q
      /\ r.issued /\ r.flipped /\ r \in SwapRequest
  BY <1>1 DEF LifeCycle, QueueIsLive, Flipped, TypeOK
<1>4. /\ Elems(queue') = Q1
      /\ \A x, y : Before(queue', x, y) <=> Before(queue, x, y) /\ x # id /\ y # id
  BY <1>2, <1>3, UnlinkOrder
<1>5. /\ pf'.front = pf.front /\ pf'.back = pf.back /\ pf'.busy = pf.busy
      /\ pf'.flips = pf.flips /\ Up
      /\ pf'.completes = IF c = 0 THEN pf.completes ELSE pf.completes - 1
  <2>1. a \in FlipState
    BY RequireType DEF TypeOK
  <2>2. /\ a.front = pf.front /\ a.back = pf.back /\ a.busy = pf.busy
        /\ a.flips = pf.flips /\ (a.server = "up" => pf.server = "up")
        /\ a.completes = pf.completes
    <3> HIDE DEF cond
    <3> QED  BY RequireRing DEF TypeOK, SameRing
  <2> HIDE DEF a, c
  <2> QED  BY <1>2, <2>1, <2>2 DEF Up, FlipState
<1> HIDE DEF a
<1>6. \A x \in Q1 :
        /\ reqs'[x].type = reqs[x].type /\ reqs'[x].draw = reqs[x].draw
        /\ reqs'[x].front = reqs[x].front /\ reqs'[x].back = reqs[x].back
        /\ reqs'[x].update = reqs[x].update
        /\ reqs'[x].issued = reqs[x].issued /\ reqs'[x].flipped = reqs[x].flipped
        /\ reqs'[x].completed <=> reqs[x].completed \/ x = c
  <2> HIDE DEF c
  <2> SUFFICES ASSUME NEW x \in Q1
               PROVE  LET q == reqs'[x]
                      IN  /\ q.type = reqs[x].type /\ q.draw = reqs[x].draw
                          /\ q.front = reqs[x].front /\ q.back = reqs[x].back
                          /\ q.update = reqs[x].update
                          /\ q.issued = reqs[x].issued /\ q.flipped = reqs[x].flipped
                          /\ q.completed <=> reqs[x].completed \/ x = c
    OBVIOUS
  <2>1. reqs[x] \in SwapRequest
    BY <1>3 DEF TypeOK
  <2>2. CASE x = c
    <3>1. reqs'[x] = [reqs[x] EXCEPT !.completed = TRUE]
      BY <1>2, <1>3, <2>2
    <3> QED  BY <2>1, <2>2, <3>1 DEF SwapRequest
  <2>3. CASE x # c
    <3>1. reqs'[x] = reqs[x]
      BY <1>2, <1>3, <2>3
    <3> QED  BY <2>3, <3>1
  <2> QED  BY <2>2, <2>3
<1> HIDE DEF rs
<1>7. QFlips' = QFlips \ {id} /\ QFlips \subseteq Q
  BY <1>4, <1>6 DEF QFlips
<1>8. /\ \A x \in Q : SameClass(reqs[x], r) => ~Before(queue, x, id)
      /\ id \in QFlips => \A x \in QFlips : x = id \/ Before(queue, id, x)
      /\ VSync => \A x \in Q : x = id \/ Before(queue, id, x)
  BY <1>3, <1>5, IssuedLeads
<1>9. /\ \A x, y : Before(queue, x, y) => ~Before(queue, y, x)
      /\ \A x, y, z : Before(queue, x, y) /\ Before(queue, y, z) => Before(queue, x, z)
  BY <1>3, BeforeOrder
<1>10. FormsHold'
  BY <1>4, <1>5, <1>6 DEF Ring, FormsHold, Form
<1>11. FrontsApart'
  BY <1>5, <1>6, <1>7 DEF Ring, FrontsApart
<1>12. Linked'
  <2>1. QFlips' # {} => \E x \in QFlips' : /\ reqs'[x].back = pf'.front
                                           /\ \A y \in QFlips' : ~Before(queue', x, y)
    <3> SUFFICES ASSUME QFlips' # {}
                 PROVE  \E x \in QFlips' : /\ reqs'[x].back = pf'.front
                                           /\ \A y \in QFlips' : ~Before(queue', x, y)
      OBVIOUS
    <3>1. PICK x \in QFlips : /\ reqs[x].back = pf.front
                              /\ \A y \in QFlips : ~Before(queue, x, y)
      BY <1>5, <1>7 DEF Ring, Linked
    <3>2. x # id
      BY <1>7, <1>8, <3>1
    <3> QED  BY <1>4, <1>5, <1>6, <1>7, <3>1, <3>2
  <2>2. \A x, y \in QFlips' : Follows(x, y)' <=> Follows(x, y)
    <3> SUFFICES ASSUME NEW x \in QFlips \ {id}, NEW y \in QFlips \ {id}
                 PROVE  Follows(x, y)' <=> Follows(x, y)
      BY <1>7
    <3>1. Before(queue', x, y) <=> Before(queue, x, y)
      BY <1>4
    <3>2. reqs'[x].back = reqs[x].back /\ reqs'[y].front = reqs[y].front
      BY <1>6, <1>7
    <3>3. (\A z \in QFlips' : ~(Before(queue', x, z) /\ Before(queue', z, y)))
            <=> (\A z \in QFlips : ~(Before(queue, x, z) /\ Before(queue, z, y)))
      BY <1>4, <1>7, <1>8, <1>9
    <3> QED  BY <3>1, <3>2, <3>3 DEF Follows
  <2>3. ASSUME NEW x \in QFlips', NEW y \in QFlips', Before(queue', x, y)
        PROVE  (\E z \in QFlips' : Follows(x, z)') /\ (\E z \in QFlips' : Follows(z, y)')
    <3>1. x \in QFlips \ {id} /\ y \in QFlips \ {id} /\ Before(queue, x, y)
      BY <1>4, <1>7, <2>3
    <3>2. PICK z1 \in QFlips, z2 \in QFlips : Follows(x, z1) /\ Follows(z2, y)
      BY <1>5, <3>1 DEF Ring, Linked
    <3>3. z1 # id
      BY <1>8, <1>9, <3>1, <3>2 DEF Follows
    <3>4. z2 # id
      BY <1>8, <1>9, <3>1, <3>2 DEF Follows
    <3> QED  BY <1>7, <2>2, <3>1, <3>2, <3>3, <3>4
  <2>4. pf'.back = NextBuf(pf'.front)
    BY <1>5 DEF Ring, Linked
  <2> QED  BY <2>1, <2>3, <2>4 DEF Linked
<1>13. BusyExact'
  <2>1. {y \in QFlips' : ~reqs'[y].flipped} = {y \in QFlips : ~reqs[y].flipped}
    BY <1>3, <1>6, <1>7
  <2>2. \A y \in QFlips' : reqs'[y].front = reqs[y].front
    BY <1>6, <1>7
  <2>3. {reqs'[x].front : x \in {y \in QFlips' : ~reqs'[y].flipped}}
          = {reqs[x].front : x \in {y \in QFlips : ~reqs[y].flipped}}
    BY <2>1, <2>2
  <2> QED  BY <1>5, <2>3 DEF Ring, BusyExact
<1>14. /\ c = 0 \/ c \in QFlips
       /\ Uncompleted' = IF id \in QFlips THEN {} ELSE Uncompleted
       /\ id \notin QFlips => c = 0
       /\ id \in QFlips => Uncompleted = IF c = 0 THEN {} ELSE {c}
  <2>1. Uncompleted' = {x \in Q1 : ~reqs'[x].completed}
    BY <1>4 DEF LifeCycle, QueueIsLive, Uncompleted, Used
  <2>2. Uncompleted = {x \in QFlips : ~reqs[x].completed} /\ \A u, v \in Uncompleted : u = v
    BY <1>5, OneWaits
  <2>3. Form(r)
    BY <1>3, <1>5 DEF Ring, FormsHold
  <2>4. r.back # SWAP_INVALID_IDX <=> id \in QFlips
    BY <1>3, <2>3, NextBufType DEF Form, QFlips, Buf, SWAP_INVALID_IDX
  <2>5. CASE id \notin QFlips
    <3>1. c = 0
      BY <2>4, <2>5 DEF c, CompletesPending
    <3>2. Uncompleted' = {x \in Q1 : ~reqs[x].completed}
      BY <1>3, <1>6, <2>1, <3>1 DEF ReqIds
    <3>3. Uncompleted = {x \in Q : ~reqs[x].completed}
      BY Waiters
    <3>4. id \notin Uncompleted
      BY <2>2, <2>5
    <3> QED  BY <2>5, <3>1, <3>2, <3>3, <3>4
  <2>6. CASE id \in QFlips
    <3> DEFINE S == {i \in ReqIds : reqs[i].type = "flip" /\ ~reqs[i].completed}
    <3>1. c = FirstIn(queue, S)
      BY <2>4, <2>6 DEF c, CompletesPending, FindFirstPendingFlip
    <3>2. Uncompleted = Q \cap S
      BY <1>3, <2>2 DEF QFlips
    <3> HIDE DEF S
    <3>3. c # 0 => c \in Uncompleted
      BY <1>3, <3>1, <3>2, FirstInFound
    <3>4. Uncompleted # {} => c # 0
      <4> SUFFICES ASSUME NEW u \in Uncompleted PROVE c # 0
        OBVIOUS
      <4>1. \A y \in S : ~Before(queue, y, u)
        <5> SUFFICES ASSUME NEW y \in S, Before(queue, y, u) PROVE FALSE
          OBVIOUS
        <5>1. y \in Q /\ y # u
          BY <1>3, BeforeOrder
        <5> QED  BY <2>2, <3>2, <5>1
      <4>2. FirstIn(queue, S) = u
        BY <1>3, <3>2, <4>1, FirstInFinds
      <4> QED  BY <1>3, <3>1, <3>2, <4>2 DEF ReqIds
    <3>5. Uncompleted = IF c = 0 THEN {} ELSE {c}
      BY <2>2, <3>3, <3>4
    <3>6. \A x \in Q1 : reqs[x].completed \/ x = c
      BY <3>5, Waiters
    <3>7. Uncompleted' = {}
      BY <1>6, <2>1, <3>6
    <3> QED  BY <2>2, <2>6, <3>3, <3>5, <3>7
  <2> QED  BY <2>5, <2>6
<1>15. Waiting'
  <2>1. Waiting
    BY <1>5 DEF Ring
  <2>2. CASE id \notin QFlips
    <3>1. c = 0 /\ Uncompleted' = Uncompleted /\ QFlips' = QFlips /\ pending' = pending
      <4>1. c = 0 /\ Uncompleted' = Uncompleted /\ QFlips' = QFlips
        BY <1>7, <1>14, <2>2
      <4>2. \A d \in Drawables : pending'[d] = pending[d]
        BY <1>2, <4>1 DEF SwapComplete
      <4>3. pending \in [Drawables -> Int] /\ pending' \in [Drawables -> Int]
        BY DEF TypeOK
      <4> QED  BY <4>1, <4>2, <4>3
    <3>2. Uncompleted \subseteq Q1 /\ QFlips \subseteq Q1
      BY <1>7, <2>2, Waiters, OneWaits, <1>5
    <3>3. Occupied' = Occupied
      BY <1>5, <1>6, <3>1, <3>2 DEF Occupied
    <3>4. \A u \in Uncompleted : reqs'[u].back = reqs[u].back /\ reqs'[u].draw = reqs[u].draw
      BY <1>6, <3>2
    <3> QED  BY <1>2, <1>5, <2>1, <3>1, <3>3, <3>4 DEF Waiting
  <2>3. CASE id \in QFlips
    <3>1. Uncompleted' = {} /\ Uncompleted = IF c = 0 THEN {} ELSE {c}
      BY <1>14, <2>3
    <3>2. NumBufs >= 2 => pf'.back \notin Occupied'
      <4> SUFFICES ASSUME NumBufs >= 2, pf.back \in Occupied' PROVE FALSE
        BY <1>5
      <4>1. pf.back # pf.front
        BY <1>5, NextBufType DEF Ring, Linked, TypeOK, FlipState
      <4>2. PICK z \in QFlips \ {id} : reqs[z].front = pf.back
        BY <1>5, <1>6, <1>7, <4>1 DEF Occupied
      <4> QED  BY <1>5, <1>8, <2>3, <4>2, BackIsFirst
    <3>3. pf'.completes = 0
      BY <1>5, <2>1, <3>1 DEF Waiting
    <3>4. \A d \in alive' : pending'[d] = 0
      <4> SUFFICES ASSUME NEW d \in alive PROVE pending'[d] = 0
        BY <1>2
      <4>1. d \in Drawables
        BY DEF TypeOK
      <4>2. pending[d] = IF \E u \in Uncompleted : reqs[u].draw = d THEN 1 ELSE 0
        BY <2>1 DEF Waiting
      <4>3. CASE c = 0
        <5>1. pending'[d] = pending[d]
          BY <1>2, <4>1, <4>3 DEF SwapComplete
        <5> QED  BY <3>1, <4>2, <4>3, <5>1
      <4>4. CASE c # 0
        <5>1. pending'[d] = IF d = reqs[c].draw THEN pending[d] - 1 ELSE pending[d]
          BY <1>2, <4>1, <4>4 DEF SwapComplete
        <5> QED  BY <3>1, <4>2, <4>4, <5>1
      <4> QED  BY <4>3, <4>4
    <3> QED  BY <3>1, <3>2, <3>3, <3>4 DEF Waiting
  <2> QED  BY <2>2, <2>3
<1>16. FlipsExact'
  <2>1. \A x \in Q1 : OnItsWay(x)' <=> OnItsWay(x)
    BY <1>6 DEF OnItsWay
  <2>2. ~OnItsWay(id)
    BY <1>3 DEF OnItsWay
  <2> QED  BY <1>3, <1>4, <1>5, <2>1, <2>2 DEF Ring, FlipsExact
<1>17. UpdatesApart'
  <2>1. \A x, y \in Elems(queue') :
          reqs'[x].update = reqs'[y].update /\ reqs'[x].update # SWAP_INVALID_IDX => x = y
    BY <1>4, <1>5, <1>6 DEF Ring, UpdatesApart
  <2>2. ASSUME VSync, NEW x \in Elems(queue'), reqs'[x].type = "extfb", reqs'[x].update # pf'.front
        PROVE  \E y \in QFlips' : Before(queue', x, y) /\ reqs'[y].front = reqs'[x].update
    <3>1. x \in Q1
      BY <1>4
    <3>2. PICK y \in QFlips : Before(queue, x, y) /\ reqs[y].front = reqs[x].update
      BY <1>5, <1>6, <2>2, <3>1 DEF Ring, UpdatesApart
    <3>3. y # id
      BY <1>8, <1>9, <2>2, <3>1, <3>2
    <3> QED  BY <1>4, <1>6, <1>7, <3>1, <3>2, <3>3
  <2> QED  BY <2>1, <2>2 DEF UpdatesApart
<1> QED  BY <1>10, <1>11, <1>12, <1>13, <1>15, <1>16, <1>17 DEF Ring

(***************************************************************************)
(* Damage is merged into the update of the buffer last submitted, and a    *)
(* new one is queued only if there is none.                                *)
(***************************************************************************)
LEMMA ScheduleDamageRing ==
  ASSUME TypeOK, LifeCycle, LifeCycle', Ring, ScheduleDamage
  PROVE  Ring'
<1> DEFINE region == Head(stack).region
           id     == MergeInto(region)
<1>1. UNCHANGED <<pf, alive, pending>> /\ Up /\ reqs \in [ReqIds -> SwapRequest]
  BY DEF ScheduleDamage, Running, TypeOK
<1>2. Elems(queue) \subseteq ReqIds /\ queue \in Seq(ReqIds) /\ NoRepeat(queue)
      /\ \A x \in Elems(queue) : reqs[x].used
  BY DEF LifeCycle, QueueIsLive, TypeOK
<1>3. CASE id # 0 /\ reqs' = WithReq(id, [reqs[id] EXCEPT !.region = @ \cup region])
           /\ queue' = queue
  <2>1. PICK y \in ReqIds : y = id
    BY <1>3, FirstInType DEF MergeInto, FindByUpdate, TypeOK
  <2>2. PICK v : /\ reqs'[y] = [reqs[y] EXCEPT !.region = v]
                 /\ \A x \in ReqIds \ {y} : reqs'[x] = reqs[x]
    <3>1. PICK v : v = reqs[y].region \cup region
      OBVIOUS
    <3>2. PICK r : r = [reqs[y] EXCEPT !.region = v]
      OBVIOUS
    <3>3. reqs' = WithReq(y, r)
      BY <1>3, <2>1, <3>1, <3>2
    <3>4. reqs'[y] = r /\ \A x \in ReqIds \ {y} : reqs'[x] = reqs[x]
      BY <3>3, WithReqValues
    <3> QED  BY <3>2, <3>4
  <2>3. \A x \in Elems(queue) : /\ SameForm(x) /\ reqs'[x].issued = reqs[x].issued
                                /\ reqs'[x].flipped = reqs[x].flipped
    <3>1. /\ SameForm(y) /\ reqs'[y].issued = reqs[y].issued /\ reqs'[y].flipped = reqs[y].flipped
      BY <1>1, <2>2 DEF SameForm, SwapRequest
    <3> QED  BY <1>2, <2>2, <3>1 DEF SameForm
  <2> QED  BY <1>1, <1>3, <2>3, RingKept DEF Up
<1>4. ASSUME id = 0, Free # {}, reqs' = WithReq(NewId, NewUpdate(region)),
             queue' = Append(queue, NewId)
      PROVE  Ring'
  <2>1. PICK n \in ReqIds : n = NewId /\ ~reqs[n].used
    BY <1>4, NewIdFree
  <2>2. reqs'[n] = NewUpdate(region) /\ \A x \in ReqIds \ {n} : reqs'[x] = reqs[x]
    BY <1>4, <2>1, WithReqValues
  <2>3. /\ reqs'[n].type = "extfb" /\ reqs'[n].front = SWAP_INVALID_IDX
        /\ reqs'[n].back = SWAP_INVALID_IDX /\ reqs'[n].update = pf.front
        /\ reqs'[n].completed /\ ~reqs'[n].issued
    BY <2>2 DEF NewUpdate
  <2>4. n \notin Elems(queue) /\ \A x \in Elems(queue) : reqs'[x] = reqs[x]
    BY <1>2, <2>1, <2>2
  <2>5. /\ Elems(queue') = Elems(queue) \cup {n}
        /\ \A x, y : Before(queue', x, y) <=> Before(queue, x, y) \/ (x \in Elems(queue) /\ y = n)
    BY <1>2, <1>4, <2>1, <2>4, AppendOrder
  <2>6. QFlips' = QFlips /\ QFlips \subseteq Elems(queue)
    BY <2>3, <2>4, <2>5 DEF QFlips
  <2>7. \A x, y \in Elems(queue) : Before(queue', x, y) <=> Before(queue, x, y)
    BY <2>4, <2>5
  <2>8. Uncompleted' = Uncompleted
    <3>1. Uncompleted' = {x \in Elems(queue') : ~reqs'[x].completed}
      BY DEF LifeCycle, QueueIsLive, Uncompleted, Used
    <3> QED  BY <2>3, <2>4, <2>5, <3>1, Waiters
  <2>9. pf.front # SWAP_INVALID_IDX
    BY DEF TypeOK, FlipState, Buf, SWAP_INVALID_IDX
  <2>10. FormsHold'
    BY <1>1, <2>3, <2>4, <2>5, <2>9 DEF Ring, FormsHold, Form
  <2>11. FrontsApart'
    BY <1>1, <2>4, <2>6 DEF Ring, FrontsApart
  <2>12. Linked'
    <3>1. \A x, y \in QFlips : Follows(x, y)' <=> Follows(x, y)
      BY <2>4, <2>6, <2>7 DEF Follows
    <3> QED  BY <1>1, <2>4, <2>6, <2>7, <3>1 DEF Ring, Linked
  <2>13. BusyExact'
    <3>1. \A x \in QFlips : reqs'[x] = reqs[x]
      BY <2>4, <2>6
    <3> QED  BY <1>1, <2>6, <3>1 DEF Ring, BusyExact
  <2>14. Waiting'
    <3>1. \A x \in QFlips : reqs'[x] = reqs[x]
      BY <2>4, <2>6
    <3>2. Occupied' = Occupied
      BY <1>1, <2>6, <3>1 DEF Occupied
    <3>3. \A u \in Uncompleted : reqs'[u] = reqs[u]
      BY <2>4, Waiters
    <3> QED  BY <1>1, <2>8, <3>2, <3>3 DEF Ring, Waiting
  <2>15. FlipsExact'
    <3>1. ~OnItsWay(n)' /\ \A x \in Elems(queue) : OnItsWay(x)' <=> OnItsWay(x)
      BY <2>3, <2>4 DEF OnItsWay
    <3> QED  BY <1>1, <2>5, <3>1 DEF Ring, FlipsExact
  <2>16. UpdatesApart'
    <3>1. \A x \in Elems(queue) : reqs[x].update # pf.front
      <4> DEFINE S == {i \in Used : reqs[i].update = pf.front}
      <4>1. FirstIn(queue, S) = 0
        BY <1>4 DEF MergeInto, FindByUpdate
      <4> HIDE DEF S
      <4>2. Elems(queue) \cap S = {}
        BY <1>2, <4>1, FirstInSome
      <4> QED  BY <1>2, <4>2 DEF S, Used
    <3>2. \A x, y \in Elems(queue') :
            reqs'[x].update = reqs'[y].update /\ reqs'[x].update # SWAP_INVALID_IDX => x = y
      BY <1>1, <2>3, <2>4, <2>5, <3>1 DEF Ring, UpdatesApart
    <3>3. ASSUME VSync, NEW x \in Elems(queue'), reqs'[x].type = "extfb", reqs'[x].update # pf.front
          PROVE  \E y \in QFlips' : Before(queue', x, y) /\ reqs'[y].front = reqs'[x].update
      BY <1>1, <2>3, <2>4, <2>5, <2>6, <3>3 DEF Ring, UpdatesApart
    <3> QED  BY <1>1, <3>2, <3>3 DEF UpdatesApart
  <2> QED  BY <2>10, <2>11, <2>12, <2>13, <2>14, <2>15, <2>16 DEF Ring
<1> QED  BY <1>3, <1>4 DEF ScheduleDamage

-----------------------------------------------------------------------------
(* Between requests no flip waits for the rest of its handler. *)
LEMMA NoneFlipped ==
  ASSUME TypeOK, LifeCycle, Ring, Idle
  PROVE  /\ \A x \in Elems(queue) : ~reqs[x].flipped
         /\ pf.busy = Occupied
<1>1. \A x \in Elems(queue) : ~reqs[x].flipped
  <2>1. \A x \in ReqIds : ~OnStack(x)
    BY DEF Idle, OnStack
  <2> QED  BY <2>1 DEF LifeCycle, QueueIsLive, OthersRest, Resting
<1>2. {y \in QFlips : ~reqs[y].flipped} = QFlips
  BY <1>1 DEF QFlips
<1> QED  BY <1>1, <1>2 DEF Idle, Ring, BusyExact, Occupied

(* What a submitted flip does to the ring. *)
LEMMA SubmitRing ==
  ASSUME NEW s \in FlipState, NEW f \in DRI2Buffer, NEW b \in DRI2Buffer
  PROVE  LET t == Submit(s, f, b)
         IN  /\ t \in FlipState
             /\ t.front = s.back /\ t.back = NextBuf(s.back) /\ t.busy = s.busy \cup {s.back}
             /\ t.completes = s.completes + 1 /\ t.flips = s.flips
             /\ t.server = "up" => s.server = "up"
<1> DEFINE r == Require(s, s.name[f] = s.front /\ s.name[b] = s.back /\ s.back \notin s.busy)
           q == [r EXCEPT !.busy = @ \cup {s.back}, !.completes = @ + 1]
           x == Require(q, q.name[f] = q.front /\ q.name[b] = q.back)
           t == ExchangeBufs(q, f, b)
<1>1. r \in FlipState /\ SameRing(s, r)
  BY RequireType, RequireRing
<1>2. Submit(s, f, b) = t
  BY DEF Submit
<1> HIDE DEF r
<1>3. /\ q \in FlipState /\ q.front = s.front /\ q.back = s.back /\ q.busy = s.busy \cup {s.back}
      /\ q.completes = s.completes + 1 /\ q.flips = s.flips
      /\ q.server = "up" => s.server = "up"
  <2>1. q \in FlipState
    <3> DEFINE v == r.busy \cup {s.back}
               n == r.completes + 1
               r1 == [r EXCEPT !.busy = v]
    <3>1. v \in SUBSET Buf /\ n \in Int
      BY <1>1 DEF FlipState
    <3>2. q = [r1 EXCEPT !.completes = n]
      BY <1>1 DEF FlipState
    <3> HIDE DEF v, n, q
    <3>3. r1 \in FlipState
      BY <1>1, <3>1, FieldTypes
    <3> HIDE DEF r1
    <3> QED  BY <3>1, <3>2, <3>3, FieldTypes
  <2> QED  BY <1>1, <2>1 DEF SameRing, FlipState
<1> HIDE DEF q
<1>4. x \in FlipState /\ SameRing(q, x)
  BY <1>3, RequireType, RequireRing
<1>5. PICK nm, us : t = [x EXCEPT !.front = q.back, !.back = NextBuf(q.back),
                                  !.name = nm, !.user = us]
  <2>1. \A u, v, w :
          LET r1 == [x EXCEPT !.front = u]
              r2 == [r1 EXCEPT !.back = v]
              r3 == [r2 EXCEPT !.name = w]
          IN  r2.name = x.name /\ r3.user = x.user
    <3> HIDE DEF x
    <3> QED  BY <1>4 DEF FlipState
  <2> QED  BY <2>1 DEF ExchangeBufs
<1>6. t \in FlipState
  BY <1>3, ExchangeBufsType
<1> HIDE DEF x, t
<1>7. /\ t.front = q.back /\ t.back = NextBuf(q.back) /\ t.busy = x.busy
      /\ t.completes = x.completes /\ t.flips = x.flips /\ t.server = x.server
  BY <1>4, <1>5 DEF FlipState
<1> QED  BY <1>2, <1>3, <1>4, <1>6, <1>7 DEF SameRing

(* What a swap by a flip does to the ring and to the client. *)
LEMMA SwapByFlipEffect ==
  ASSUME TypeOK, NEW draw \in Drawables, SwapByFlip(draw)
  PROVE  \E now \in BOOLEAN :
           /\ pf'.front = pf.back /\ pf'.back = NextBuf(pf.back)
           /\ pf'.busy = pf.busy \cup {pf.back} /\ pf'.flips = pf.flips
           /\ pf'.completes = IF now THEN pf.completes ELSE pf.completes + 1
           /\ Up' => Up
           /\ now <=> NextBuf(pf.back) \notin pf.busy \cup {pf.back}
           /\ pending' = [pending EXCEPT ![draw] = IF now THEN @ ELSE @ + 1]
           /\ reqs' = WithReq(NewId, [NewFlip(draw) EXCEPT !.completed = now])
<1> DEFINE f    == BufferOf(pf, draw, "front")
           b    == BufferOf(pf, draw, "back")
           p    == PrepareFlip(pf, draw, f, b)
           sub  == Submit(p, f, b)
           now  == CompleteAtOnce(sub)
           done == IF now THEN [sub EXCEPT !.completes = @ - 1] ELSE sub
<1>1. f \in DRI2Buffer /\ b \in DRI2Buffer /\ pf \in FlipState
  BY DEF SwapByFlip, Swappable, TypeOK, FlipState
<1>2. /\ pf' = Require(done, done.completes < 2)
      /\ pending' = [pending EXCEPT ![draw] = IF now THEN @ ELSE @ + 1]
      /\ reqs' = WithReq(NewId, [NewFlip(draw) EXCEPT !.completed = now])
  BY DEF SwapByFlip
<1> HIDE DEF f, b
<1>3. p \in FlipState /\ SameRing(pf, p)
  BY <1>1, PrepareFlipType, PrepareFlipRing
<1> HIDE DEF p
<1>4. /\ sub \in FlipState /\ sub.front = pf.back /\ sub.back = NextBuf(pf.back)
      /\ sub.busy = pf.busy \cup {pf.back} /\ sub.completes = pf.completes + 1
      /\ sub.flips = pf.flips /\ (sub.server = "up" => pf.server = "up")
  BY <1>1, <1>3, SubmitRing DEF SameRing
<1> HIDE DEF sub
<1>5. now \in BOOLEAN /\ (now <=> NextBuf(pf.back) \notin pf.busy \cup {pf.back})
  BY <1>4 DEF CompleteAtOnce
<1> HIDE DEF now
<1>6. /\ done \in FlipState /\ done.front = sub.front /\ done.back = sub.back
      /\ done.busy = sub.busy /\ done.flips = sub.flips /\ done.server = sub.server
      /\ done.completes = IF now THEN pf.completes ELSE pf.completes + 1
  <2> DEFINE n == sub.completes - 1
  <2>1. n \in Int /\ n = pf.completes /\ pf.completes \in Int
    BY <1>1, <1>4 DEF FlipState
  <2>2. done = IF now THEN [sub EXCEPT !.completes = n] ELSE sub
    OBVIOUS
  <2> HIDE DEF n, done
  <2>3. done \in FlipState
    BY <1>4, <2>1, <2>2, FieldTypes
  <2> QED  BY <1>4, <2>1, <2>2, <2>3 DEF FlipState
<1> HIDE DEF done
<1>7. SameRing(done, pf')
  BY <1>2, <1>6, RequireRing
<1> QED  BY <1>2, <1>4, <1>5, <1>6, <1>7 DEF SameRing, Up

(* A new flip closes up to the last one; its client waits if the ring is full. *)
LEMMA SwapByFlipRing ==
  ASSUME TypeOK, LifeCycle, LifeCycle', Ring, NEW draw \in Drawables, SwapByFlip(draw)
  PROVE  Ring'
<1> SUFFICES ASSUME Up' PROVE Ring'
  BY DEF Ring
<1> DEFINE F == pf.front
           B == pf.back
<1>1. PICK now \in BOOLEAN :
        /\ pf'.front = B /\ pf'.back = NextBuf(B)
        /\ pf'.busy = pf.busy \cup {B} /\ pf'.flips = pf.flips
        /\ pf'.completes = IF now THEN pf.completes ELSE pf.completes + 1
        /\ now <=> NextBuf(B) \notin pf.busy \cup {B}
        /\ pending' = [pending EXCEPT ![draw] = IF now THEN @ ELSE @ + 1]
        /\ reqs' = WithReq(NewId, [NewFlip(draw) EXCEPT !.completed = now])
  BY SwapByFlipEffect
<1>2. /\ Idle /\ Up /\ B \notin pf.busy /\ NumBufs >= 2 /\ Free # {} /\ draw \in alive
      /\ queue' = Append(queue, NewId) /\ alive' = alive
  BY RoomFree DEF SwapByFlip, Swappable, PageFlipPossible, Idle
<1>3. PICK n \in ReqIds : n = NewId /\ ~reqs[n].used
  BY <1>2, NewIdFree
<1>4. /\ reqs'[n].type = "flip" /\ reqs'[n].front = F /\ reqs'[n].back = B
      /\ reqs'[n].update = (IF VSync THEN B ELSE SWAP_INVALID_IDX)
      /\ reqs'[n].completed = now /\ ~reqs'[n].issued /\ ~reqs'[n].flipped
      /\ reqs'[n].draw = draw
      /\ \A x \in ReqIds \ {n} : reqs'[x] = reqs[x]
  <2>1. /\ reqs'[n] = [NewFlip(draw) EXCEPT !.completed = now]
        /\ \A x \in ReqIds \ {n} : reqs'[x] = reqs[x]
    BY <1>1, <1>3, WithReqValues
  <2> QED  BY <2>1 DEF NewFlip
<1>5. Elems(queue) \subseteq ReqIds /\ queue \in Seq(ReqIds) /\ NoRepeat(queue)
      /\ \A x \in Elems(queue) : reqs[x].used
  BY DEF LifeCycle, QueueIsLive, TypeOK
<1>6. n \notin Elems(queue) /\ \A x \in Elems(queue) : reqs'[x] = reqs[x]
  BY <1>3, <1>4, <1>5
<1>7. /\ Elems(queue') = Elems(queue) \cup {n}
      /\ \A x, y : Before(queue', x, y) <=> Before(queue, x, y) \/ (x \in Elems(queue) /\ y = n)
  BY <1>2, <1>3, <1>5, <1>6, AppendOrder
<1>8. /\ QFlips' = QFlips \cup {n} /\ QFlips \subseteq Elems(queue) /\ n \notin QFlips
      /\ \A x \in QFlips : reqs'[x] = reqs[x]
  BY <1>4, <1>6, <1>7 DEF QFlips
<1>9. /\ \A x, y : Before(queue, x, y) => x \in Elems(queue) /\ y \in Elems(queue)
      /\ \A x, y : Before(queue, x, y) => ~Before(queue, y, x)
      /\ \A x, y \in Elems(queue) : x = y \/ Before(queue, x, y) \/ Before(queue, y, x)
  BY <1>5, BeforeOrder
<1>10. F \in Buf /\ B \in Buf /\ B = NextBuf(F) /\ B # F /\ NextBuf(B) \in Buf
  BY <1>2, NextBufType DEF Ring, Linked, TypeOK, FlipState
<1>11. /\ pf.busy = Occupied /\ \A x \in Elems(queue) : ~reqs[x].flipped
       /\ Uncompleted = {} /\ pf.completes = 0 /\ \A d \in alive : pending[d] = 0
  <2>1. pf.busy = Occupied /\ \A x \in Elems(queue) : ~reqs[x].flipped
    BY <1>2, NoneFlipped
  <2> QED  BY <1>2, <2>1 DEF Ring, Waiting
<1>12. \A x \in QFlips : /\ reqs[x].front # B /\ reqs[x].front # F /\ reqs[x].front \in Buf
                         /\ reqs[x].back = NextBuf(reqs[x].front)
  BY <1>2, <1>11 DEF Occupied, Ring, FrontsApart, FormsHold, Form, QFlips
<1>13. FormsHold'
  BY <1>2, <1>4, <1>6, <1>7, <1>10 DEF Ring, FormsHold, Form
<1>14. FrontsApart'
  <2>1. \A x \in QFlips : reqs'[x].front # F /\ reqs'[x].front # B
    BY <1>8, <1>12
  <2>2. \A x \in QFlips' : reqs'[x].front # pf'.front
    BY <1>1, <1>4, <1>8, <1>10, <2>1
  <2>3. \A x, y \in QFlips : reqs'[x].front = reqs'[y].front => x = y
    BY <1>2, <1>8 DEF Ring, FrontsApart
  <2>4. \A x, y \in QFlips' : reqs'[x].front = reqs'[y].front => x = y
    BY <1>4, <1>8, <2>1, <2>3
  <2>5. ~(NumBufs < 2)
    BY <1>2, FlipAssumption
  <2> QED  BY <2>2, <2>4, <2>5 DEF FrontsApart
<1>15. Linked'
  <2>1. ASSUME NEW x \in QFlips, NEW y \in QFlips
        PROVE  Follows(x, y)' <=> Follows(x, y)
    <3>1. Before(queue', x, y) <=> Before(queue, x, y)
      BY <1>7, <1>8
    <3>2. \A z \in QFlips' : Before(queue', x, z) /\ Before(queue', z, y)
            <=> z \in QFlips /\ Before(queue, x, z) /\ Before(queue, z, y)
      BY <1>6, <1>7, <1>8, <1>9
    <3>3. reqs'[x] = reqs[x] /\ reqs'[y] = reqs[y]
      BY <1>8
    <3> QED  BY <1>8, <3>1, <3>2, <3>3 DEF Follows
  <2>2. ASSUME NEW l \in QFlips, reqs[l].back = F, \A y \in QFlips : ~Before(queue, l, y)
        PROVE  Follows(l, n)'
    <3>1. Before(queue', l, n) /\ reqs'[l].back = reqs'[n].front
      BY <1>4, <1>7, <1>8, <2>2
    <3>2. \A z \in QFlips' : ~(Before(queue', l, z) /\ Before(queue', z, n))
      BY <1>6, <1>7, <1>8, <1>9, <2>2
    <3> QED  BY <3>1, <3>2 DEF Follows
  <2>3. ASSUME NEW x \in QFlips', NEW y \in QFlips', Before(queue', x, y)
        PROVE  (\E z \in QFlips' : Follows(x, z)') /\ (\E z \in QFlips' : Follows(z, y)')
    <3>1. x \in QFlips
      BY <1>6, <1>7, <1>8, <1>9, <2>3
    <3>2. CASE y \in QFlips
      <4>1. Before(queue, x, y)
        BY <1>7, <1>8, <2>3, <3>2
      <4>2. PICK z1 \in QFlips, z2 \in QFlips : Follows(x, z1) /\ Follows(z2, y)
        BY <1>2, <3>1, <3>2, <4>1 DEF Ring, Linked
      <4> QED  BY <1>8, <2>1, <3>1, <3>2, <4>2
    <3>3. CASE y = n
      <4>1. PICK l \in QFlips : /\ reqs[l].back = F
                                /\ \A z \in QFlips : ~Before(queue, l, z)
        BY <1>2, <3>1 DEF Ring, Linked
      <4>2. Follows(l, n)'
        BY <2>2, <4>1
      <4>3. CASE x = l
        BY <1>8, <3>3, <4>2, <4>3
      <4>4. CASE x # l
        <5>1. Before(queue, x, l)
          BY <1>8, <1>9, <3>1, <4>1, <4>4
        <5>2. PICK z \in QFlips : Follows(x, z)
          BY <1>2, <3>1, <5>1 DEF Ring, Linked
        <5> QED  BY <1>8, <2>1, <3>1, <3>3, <4>2, <5>2
      <4> QED  BY <4>3, <4>4
    <3> QED  BY <1>8, <3>2, <3>3
  <2>4. \A y \in QFlips' : ~Before(queue', n, y)
    BY <1>6, <1>7, <1>8, <1>9
  <2>5. \E x \in QFlips' : reqs'[x].back = pf'.front /\ \A y \in QFlips' : ~Before(queue', x, y)
    BY <1>1, <1>4, <1>8, <2>4
  <2>6. pf'.back = NextBuf(pf'.front)
    BY <1>1
  <2> QED  BY <2>3, <2>5, <2>6 DEF Linked
<1>16. {reqs'[x].front : x \in QFlips'} = {reqs[x].front : x \in QFlips} \cup {F}
  BY <1>4, <1>8
<1>17. BusyExact' /\ Occupied' = pf.busy \cup {B}
  <2>1. {y \in QFlips' : ~reqs'[y].flipped} = QFlips'
    BY <1>4, <1>8, <1>11
  <2>2. pf.busy = {F} \cup {reqs[x].front : x \in QFlips}
    BY <1>11 DEF Occupied
  <2>3. {B} \cup {reqs'[x].front : x \in QFlips'} = pf.busy \cup {B}
    BY <1>16, <2>2
  <2> QED  BY <1>1, <2>1, <2>3 DEF BusyExact, Occupied
<1>18. Waiting'
  <2>1. Uncompleted' = IF now THEN {} ELSE {n}
    <3>1. Uncompleted' = {x \in Elems(queue') : ~reqs'[x].completed}
      BY DEF LifeCycle, QueueIsLive, Uncompleted, Used
    <3>2. \A x \in Elems(queue) : reqs[x].completed
      BY <1>11, Waiters
    <3> QED  BY <1>4, <1>6, <1>7, <3>1, <3>2
  <2>2. Uncompleted' # {} <=> pf'.back \in Occupied'
    BY <1>1, <1>17, <2>1
  <2>3. \A d \in alive' : pending'[d] = IF ~now /\ d = draw THEN 1 ELSE 0
    <3>1. alive \subseteq Drawables /\ pending \in [Drawables -> Int]
      BY DEF TypeOK
    <3>2. \A d \in alive : pending'[d] = IF ~now /\ d = draw THEN pending[d] + 1 ELSE pending[d]
      BY <1>1, <3>1
    <3> QED  BY <1>2, <1>11, <3>2
  <2>4. \A d \in alive' : pending'[d] = IF \E u \in Uncompleted' : reqs'[u].draw = d THEN 1 ELSE 0
    BY <1>4, <2>1, <2>3
  <2>5. \A u \in Uncompleted' : reqs'[u].back = pf'.front
    BY <1>1, <1>4, <2>1
  <2>6. pf'.completes = IF Uncompleted' = {} THEN 0 ELSE 1
    BY <1>1, <1>11, <2>1
  <2> QED  BY <2>2, <2>4, <2>5, <2>6 DEF Waiting
<1>19. FlipsExact'
  <2>1. ~OnItsWay(n)' /\ \A x \in Elems(queue) : OnItsWay(x)' <=> OnItsWay(x)
    BY <1>4, <1>6 DEF OnItsWay
  <2> QED  BY <1>1, <1>2, <1>7, <2>1 DEF Ring, FlipsExact
<1>20. UpdatesApart'
  <2>1. ASSUME NEW x \in Elems(queue), reqs[x].update = reqs'[n].update PROVE reqs[x].update = SWAP_INVALID_IDX
    <3> SUFFICES ASSUME VSync, reqs[x].update = B PROVE FALSE
      BY <1>4, <2>1
    <3>1. CASE reqs[x].type = "flip"
      <4>1. x \in QFlips /\ reqs[x].back = B
        BY <1>2, <3>1 DEF QFlips, Ring, FormsHold, Form
      <4> QED  BY <1>10, <1>12, <4>1, NextBufInjective
    <3>2. CASE reqs[x].type = "extfb"
      <4>1. reqs[x].update = F \/ \E y \in QFlips : reqs[y].front = reqs[x].update
        BY <1>2, <3>2 DEF Ring, UpdatesApart
      <4> QED  BY <1>10, <1>12, <4>1
    <3> QED  BY <1>2, <3>1, <3>2 DEF Ring, FormsHold, Form
  <2>2. \A x, y \in Elems(queue') :
          reqs'[x].update = reqs'[y].update /\ reqs'[x].update # SWAP_INVALID_IDX => x = y
    BY <1>2, <1>6, <1>7, <2>1 DEF Ring, UpdatesApart
  <2>3. ASSUME VSync, NEW x \in Elems(queue'), reqs'[x].type = "extfb"
        PROVE  \E y \in QFlips' : Before(queue', x, y) /\ reqs'[y].front = reqs'[x].update
    <3>1. x \in Elems(queue) /\ reqs'[x] = reqs[x]
      BY <1>4, <1>6, <1>7, <2>3
    <3>2. CASE reqs[x].update = F
      BY <1>4, <1>7, <1>8, <3>1, <3>2
    <3>3. CASE \E y \in QFlips : Before(queue, x, y) /\ reqs[y].front = reqs[x].update
      BY <1>7, <1>8, <3>1, <3>3
    <3> QED  BY <1>2, <2>3, <3>1, <3>2, <3>3 DEF Ring, UpdatesApart
  <2> QED  BY <2>2, <2>3 DEF UpdatesApart
<1> QED  BY <1>13, <1>14, <1>15, <1>17, <1>18, <1>19, <1>20 DEF Ring

-----------------------------------------------------------------------------
(* A request of a client that neither swaps nor destroys, or an event. *)
LEMMA RingUntouched ==
  ASSUME LifeCycle, LifeCycle', Ring, queue' = queue, reqs' = reqs, alive' \subseteq alive,
         \A d \in alive' : pending'[d] = pending[d], SameRing(pf, pf')
  PROVE  Ring'
<1>1. \A x \in Elems(queue) : /\ SameForm(x) /\ reqs'[x].issued = reqs[x].issued
                              /\ reqs'[x].flipped = reqs[x].flipped
  BY DEF SameForm
<1>2. Up' => Up
  BY DEF SameRing, Up
<1> QED  BY <1>1, <1>2, RingKept DEF SameRing

(* What the DRI2 module does around the hooks moves nothing in the ring either. *)
LEMMA ModuleRing ==
  ASSUME pf \in FlipState, NEW s \in FlipState, NEW draw \in Drawables
  PROVE  /\ \A att \in Attachment, resized \in BOOLEAN :
              SameRing(s, Provide(s, draw, att, resized))
         /\ \A b : SameRing(s, DropBuf(s, b))
         /\ \A keepBack, resized \in BOOLEAN : SameRing(s, DropOld(s, draw, keepBack, resized))
         /\ SameRing(s, Settle(s, draw))
<1>1. ASSUME NEW att \in Attachment, NEW resized \in BOOLEAN
      PROVE  SameRing(s, Provide(s, draw, att, resized))
  <2>1. <<draw, att, 0>> \in DRI2Buffer /\ <<draw, att, 1>> \in DRI2Buffer
    BY DEF DRI2Buffer
  <2>2. BufferOf(pf, draw, att) = NoBuffer \/ BufferOf(pf, draw, att) \in DRI2Buffer
    BY <2>1, BufferOfType DEF BufferOf
  <2>3. SameRing(s, CreateBuf(s, <<draw, att, 0>>, fs)) /\ SameRing(s, CreateBuf(s, <<draw, att, 1>>, fs))
    BY <2>1, CreateBufRing
  <2>4. BufferOf(pf, draw, att) # NoBuffer => SameRing(s, ReuseBuf(s, BufferOf(pf, draw, att), fs))
    BY <2>2, ReuseBufRing
  <2> QED  BY <2>3, <2>4 DEF Provide
<1>2. \A t \in FlipState : \A b : DropBuf(t, b) \in FlipState /\ SameRing(t, DropBuf(t, b))
  <2> SUFFICES ASSUME NEW t \in FlipState, NEW b
               PROVE  DropBuf(t, b) \in FlipState /\ SameRing(t, DropBuf(t, b))
    OBVIOUS
  <2>1. b \in t.held => b \in DRI2Buffer
    BY DEF FlipState
  <2>2. SameRing(t, t)
    BY DEF SameRing
  <2> QED  BY <2>1, <2>2, DestroyBufType, DestroyBufRing DEF DropBuf
<1>3. ASSUME NEW keepBack \in BOOLEAN, NEW resized \in BOOLEAN
      PROVE  SameRing(s, DropOld(s, draw, keepBack, resized))
  <2> DEFINE b == BufferOf(pf, draw, "back")
             f == BufferOf(pf, draw, "front")
             t == IF resized \/ ~keepBack THEN DropBuf(s, b) ELSE s
  <2>1. DropOld(s, draw, keepBack, resized) = IF resized THEN DropBuf(t, f) ELSE t
    BY DEF DropOld
  <2>2. t \in FlipState /\ SameRing(s, t)
    BY <1>2 DEF SameRing
  <2> HIDE DEF t, f
  <2>3. SameRing(t, DropBuf(t, f))
    BY <1>2, <2>2
  <2> QED  BY <2>1, <2>2, <2>3, SameRingTransitive
<1>4. SameRing(s, Settle(s, draw))
  <2>1. PICK u, h, g, n : Settle(s, draw) = [s EXCEPT !.user = u, !.held = h, !.got = g, !.name = n]
    BY DEF Settle
  <2> QED  BY <2>1 DEF SameRing, FlipState
<1> QED  BY <1>1, <1>2, <1>3, <1>4

(* So the buffers that are provided, *)
LEMMA GetBuffersUnmoved ==
  ASSUME TypeOK, NEW draw \in Drawables, NEW resized \in BOOLEAN,
         GetBuffers(draw, resized) \/ GetFrontBuffer(draw, resized)
  PROVE  SameRing(pf, pf')
<1> DEFINE b == Provide(pf, draw, "back", resized)
           g == Provide(b, draw, "front", resized)
           h == Provide(pf, draw, "front", resized)
<1>1. pf \in FlipState /\ "back" \in Attachment /\ "front" \in Attachment
  BY DEF TypeOK, Attachment
<1>2. b \in FlipState /\ SameRing(pf, b) /\ h \in FlipState /\ SameRing(pf, h)
  BY <1>1, ProvideType, ModuleRing
<1>3. PICK u \in {g, h} : \E keep \in BOOLEAN : pf' = Settle(DropOld(u, draw, keep, resized), draw)
  BY DEF GetBuffers, GetFrontBuffer
<1> HIDE DEF b
<1>4. g \in FlipState /\ SameRing(b, g)
  BY <1>1, <1>2, ProvideType, ModuleRing
<1>5. u \in FlipState /\ SameRing(pf, u)
  BY <1>2, <1>3, <1>4, SameRingTransitive
<1>6. PICK keep \in BOOLEAN : pf' = Settle(DropOld(u, draw, keep, resized), draw)
  BY <1>3
<1> DEFINE w == DropOld(u, draw, keep, resized)
<1>7. w \in FlipState /\ SameRing(u, w)
  BY <1>1, <1>5, DropOldType, ModuleRing
<1> HIDE DEF w
<1>8. SameRing(w, pf')
  BY <1>1, <1>6, <1>7, ModuleRing DEF w
<1> QED  BY <1>5, <1>7, <1>8, SameRingTransitive

(* a window that is destroyed, *)
LEMMA DestroyDrawableUnmoved ==
  ASSUME TypeOK, NEW draw \in Drawables, DestroyDrawable(draw)
  PROVE  SameRing(pf, pf')
<1> DEFINE s == DropBuf(pf, BufferOf(pf, draw, "back"))
<1>1. pf \in FlipState
  BY DEF TypeOK
<1>2. s \in FlipState /\ SameRing(pf, s)
  BY <1>1, DropBufType, ModuleRing
<1>3. pf' = DropBuf(s, BufferOf(pf, draw, "front"))
  BY DEF DestroyDrawable
<1> HIDE DEF s
<1>4. SameRing(s, pf')
  BY <1>1, <1>2, <1>3, ModuleRing
<1> QED  BY <1>2, <1>4, SameRingTransitive

(* and a swap by copy leave the ring as it is. *)
LEMMA SwapByCopyUnmoved ==
  ASSUME TypeOK, NEW draw \in Drawables, SwapByCopy(draw)
  PROVE  SameRing(pf, pf')
<1>1. pf \in FlipState /\ BufferOf(pf, draw, "back") \in DRI2Buffer
  BY DEF TypeOK, SwapByCopy, Swappable, FlipState
<1> QED  BY <1>1, EndReservationRing DEF SwapByCopy

(* Of these only a window that is destroyed changes for whom a swap is counted. *)
LEMMA UnmovedRing ==
  ASSUME TypeOK, LifeCycle, LifeCycle', Ring, NEW draw \in Drawables, NEW resized \in BOOLEAN,
         \/ GetBuffers(draw, resized) \/ GetFrontBuffer(draw, resized)
         \/ DestroyDrawable(draw) \/ SwapByCopy(draw)
  PROVE  Ring'
<1>1. SameRing(pf, pf')
  BY GetBuffersUnmoved, DestroyDrawableUnmoved, SwapByCopyUnmoved
<1>2. queue' = queue /\ reqs' = reqs
  BY DEF GetBuffers, GetFrontBuffer, DestroyDrawable, SwapByCopy
<1>3. alive' \subseteq alive /\ \A d \in alive' : pending'[d] = pending[d]
  <2>1. CASE alive' = alive /\ pending' = pending
    BY <2>1
  <2>2. CASE alive' = alive \ {draw} /\ pending' = [pending EXCEPT ![draw] = 0]
    BY <2>2 DEF TypeOK
  <2> QED  BY <2>1, <2>2 DEF GetBuffers, GetFrontBuffer, DestroyDrawable, SwapByCopy
<1> QED  BY <1>1, <1>2, <1>3, RingUntouched

(* A ring that is created again is empty, and no client waits for it. *)
LEMMA ResizeScreenRing ==
  ASSUME TypeOK, LifeCycle, LifeCycle', Ring, ResizeScreen
  PROVE  Ring'
<1> SUFFICES ASSUME Up' PROVE Ring'
  BY DEF Ring
<1> DEFINE k == KillChecked(pf)
           r == RecreateFlip(k)
<1>1. Up /\ queue' = <<>> /\ alive' = alive /\ SwapComplete(Killed)
  BY DEF ResizeScreen, Idle
<1>2. /\ r.front = 0 /\ r.back = NextBuf(0) /\ r.busy = {0} /\ r.completes = 0 /\ r.flips = 0
  BY DEF RecreateFlip, FreshFlip
<1>3. /\ pf'.front = 0 /\ pf'.back = NextBuf(0) /\ pf'.busy = {0}
      /\ pf'.completes = 0 /\ pf'.flips = 0
  <2>1. PICK px, sv, nm : r = [FreshFlip EXCEPT !.held = k.held, !.got = k.got, !.name = nm,
                                                !.pixmaps = px, !.server = sv]
    BY DEF RecreateFlip
  <2>2. pf' = r \/ pf' = [r EXCEPT !.server = "segfault"]
    BY DEF ResizeScreen, UpdateFlipPixmaps
  <2>3. \A x : LET q == [r EXCEPT !.server = x]
               IN  /\ q.front = r.front /\ q.back = r.back /\ q.busy = r.busy
                   /\ q.completes = r.completes /\ q.flips = r.flips
    BY <2>1 DEF FreshFlip
  <2> QED  BY <1>2, <2>2, <2>3
<1>4. Elems(queue') = {} /\ QFlips' = {} /\ \A x, y : ~Before(queue', x, y)
  BY <1>1 DEF Elems, QFlips, Before
<1>5. Uncompleted' = {}
  BY <1>4 DEF LifeCycle, QueueIsLive, Uncompleted, Used
<1>6. 0 \in Buf /\ (NumBufs >= 2 => NextBuf(0) # 0)
  BY NextBufType, FlipAssumption DEF Buf
<1>7. Occupied' = {0}
  BY <1>3, <1>4 DEF Occupied
<1>8. \A d \in alive : pending'[d] = 0
  <2> SUFFICES ASSUME NEW d \in alive PROVE pending'[d] = 0
    OBVIOUS
  <2>1. d \in Drawables /\ pending[d] = IF \E u \in Uncompleted : reqs[u].draw = d THEN 1 ELSE 0
    BY <1>1 DEF TypeOK, Ring, Waiting
  <2>2. d \in Killed <=> \E u \in Uncompleted : reqs[u].draw = d
    BY DEF Killed
  <2> QED  BY <1>1, <2>1, <2>2 DEF SwapComplete
<1>9. Waiting'
  BY <1>1, <1>3, <1>5, <1>6, <1>7, <1>8 DEF Waiting
<1>10. BusyExact' /\ FlipsExact'
  BY <1>3, <1>4 DEF BusyExact, FlipsExact
<1>11. FormsHold' /\ FrontsApart' /\ Linked' /\ UpdatesApart'
  BY <1>3, <1>4 DEF FormsHold, FrontsApart, Linked, UpdatesApart
<1> QED  BY <1>9, <1>10, <1>11 DEF Ring

(* The server starts with an empty ring. *)
LEMMA InitRing == Init => Ring
<1> SUFFICES ASSUME Init PROVE Ring
  OBVIOUS
<1>1. Elems(queue) = {} /\ QFlips = {} /\ \A x, y : ~Before(queue, x, y)
  BY DEF Init, Elems, QFlips, Before
<1>2. Uncompleted = {}
  BY DEF Init, Uncompleted, Used, FreeRequest
<1>3. 0 \in Buf /\ (NumBufs >= 2 => NextBuf(0) # 0)
  BY NextBufType, FlipAssumption DEF Buf
<1>4. /\ pf.front = 0 /\ pf.back = NextBuf(0) /\ pf.busy = {0}
      /\ pf.completes = 0 /\ pf.flips = 0
  BY DEF Init, FreshFlip
<1>5. \A d \in alive : pending[d] = 0
  BY DEF Init
<1>6. Waiting
  BY <1>1, <1>2, <1>3, <1>4, <1>5 DEF Waiting, Occupied
<1>7. BusyExact /\ FlipsExact
  BY <1>1, <1>4 DEF BusyExact, FlipsExact
<1>8. FormsHold /\ FrontsApart /\ Linked /\ UpdatesApart
  BY <1>1, <1>4 DEF FormsHold, FrontsApart, Linked, UpdatesApart
<1> QED  BY <1>6, <1>7, <1>8 DEF Ring

(* Every step leaves the ring in order. *)
LEMMA NextRing ==
  TypeOK /\ TypeOK' /\ LifeCycle /\ LifeCycle' /\ Ring /\ [Next]_vars => Ring'
<1> SUFFICES ASSUME TypeOK, TypeOK', LifeCycle, LifeCycle', Ring, [Next]_vars PROVE Ring'
  OBVIOUS
<1>1. ASSUME UNCHANGED <<pf, alive, pending, reqs, queue>> PROVE Ring'
  BY <1>1, RingUntouched DEF SameRing
<1>2. CASE ServerCall
  BY <1>2, SyncHandlerRing, FlipSwapReqRing, FlipHandlerRing, FlipDoneRing,
     ScheduleDamageRing DEF ServerCall
<1>3. CASE Client
  <2>1. ASSUME NEW d \in Drawables \cup {NoDraw}, SetFullscreen(d) PROVE Ring'
    BY <1>1, <2>1 DEF SetFullscreen
  <2>2. ASSUME NEW a \in Areas, DrawOnScreen(a) PROVE Ring'
    BY <1>1, <2>2 DEF DrawOnScreen
  <2> QED  BY <1>3, <2>1, <2>2, UnmovedRing, SwapByFlipRing DEF Client
<1>4. CASE Kernel
  BY <1>1, <1>4 DEF Kernel, RenderDone, VBlank, TransferDone, FlipEvent
<1>5. CASE \E o \in Overlays : CrtcDpms(o)
  BY <1>1, <1>5 DEF CrtcDpms
<1>6. CASE ResizeScreen
  BY <1>6, ResizeScreenRing
<1>7. CASE UNCHANGED vars
  BY <1>1, <1>7 DEF vars
<1> QED  BY <1>2, <1>3, <1>4, <1>5, <1>6, <1>7 DEF Next

(***************************************************************************)
(* The flips in the queue are a chain through the ring of buffers that     *)
(* ends at the buffer submitted last, the busy flags are those of this     *)
(* chain, and a client waits while the chain closes the ring.              *)
(***************************************************************************)
THEOREM RingInOrder == Spec => [](TypeOK /\ LifeCycle /\ Ring)
<1> USE DEF Spec
<1>1. Spec => [](TypeOK /\ LifeCycle)
  BY RequestsLive
<1> QED  BY <1>1, InitRing, NextRing, PTL

-----------------------------------------------------------------------------
(***************************************************************************)
(* Between events the busy buffers are the last submitted one and those a  *)
(* queued flip still has to replace: none stays busy for ever, and none    *)
(* that may be on the screen is free.                                      *)
(***************************************************************************)
THEOREM BusyStaysExact == Spec => []BusyIsInFlight
<1>1. TypeOK /\ LifeCycle /\ Ring => BusyIsInFlight
  <2> SUFFICES ASSUME TypeOK, LifeCycle, Ring, Idle
               PROVE  pf.busy = {pf.front} \cup
                        ({reqs[id].front : id \in InQueue} \ {SWAP_INVALID_IDX})
    BY DEF BusyIsInFlight
  <2>1. pf.busy = Occupied
    BY NoneFlipped
  <2>2. \A x \in Elems(queue) :
          IF x \in QFlips THEN reqs[x].front # SWAP_INVALID_IDX
                          ELSE reqs[x].front = SWAP_INVALID_IDX
    BY DEF Idle, Ring, FormsHold, Form, QFlips, Buf, SWAP_INVALID_IDX
  <2>3. InQueue = Elems(queue) /\ QFlips \subseteq Elems(queue)
    BY DEF InQueue, Elems, QFlips
  <2> QED  BY <2>1, <2>2, <2>3 DEF Occupied
<1> QED  BY <1>1, RingInOrder, PTL

(***************************************************************************)
(* The DRI2 module blocks a client exactly while one swap of its drawable  *)
(* is uncompleted, and completes_pending counts these swaps, of which      *)
(* there is at most one: no completion is lost and none comes twice.       *)
(***************************************************************************)
THEOREM ThrottleStaysExact == Spec => []ThrottleExact
<1>1. TypeOK /\ LifeCycle /\ Ring => ThrottleExact
  <2> SUFFICES ASSUME TypeOK, LifeCycle, Ring, Idle
               PROVE  /\ \A d \in alive :
                           pending[d] = Cardinality({id \in Uncompleted : reqs[id].draw = d})
                      /\ pf.completes = Cardinality(Uncompleted)
                      /\ pf.completes <= 1
    BY DEF ThrottleExact
  <2>1. \A u, v \in Uncompleted : u = v
    BY OneWaits DEF Idle
  <2>2. ASSUME NEW S \in SUBSET Uncompleted
        PROVE  Cardinality(S) = IF S = {} THEN 0 ELSE 1
    <3>1. CASE S = {}
      BY <3>1, FS_EmptySet
    <3>2. CASE S # {}
      <4>1. PICK u : S = {u}
        BY <2>1, <3>2
      <4> QED  BY <4>1, FS_Singleton
    <3> QED  BY <3>1, <3>2
  <2>3. pf.completes = IF Uncompleted = {} THEN 0 ELSE 1
    BY DEF Idle, Ring, Waiting
  <2>4. ASSUME NEW d \in alive
        PROVE  pending[d] = Cardinality({id \in Uncompleted : reqs[id].draw = d})
    <3>1. pending[d] = IF \E u \in Uncompleted : reqs[u].draw = d THEN 1 ELSE 0
      BY DEF Idle, Ring, Waiting
    <3> DEFINE S == {id \in Uncompleted : reqs[id].draw = d}
    <3>2. S \in SUBSET Uncompleted /\ (S = {} <=> ~\E u \in Uncompleted : reqs[u].draw = d)
      OBVIOUS
    <3> HIDE DEF S
    <3>3. pending[d] = Cardinality(S)
      BY <2>2, <3>1, <3>2
    <3> QED  BY <3>3 DEF S
  <2>5. Cardinality(Uncompleted) = IF Uncompleted = {} THEN 0 ELSE 1
    BY <2>2
  <2>6. pf.completes = Cardinality(Uncompleted) /\ pf.completes <= 1
    BY <2>3, <2>5
  <2> QED  BY <2>4, <2>6
<1> QED  BY <1>1, RingInOrder, PTL

(* A queue that holds each request once is as long as it has requests. *)
LEMMA LengthOfElems ==
  ASSUME NEW S, NEW q \in Seq(S), NoRepeat(q)
  PROVE  IsFiniteSet(Elems(q)) /\ Cardinality(Elems(q)) = Len(q)
<1> DEFINE f == [i \in 1 .. Len(q) |-> q[i]]
<1>1. Len(q) \in Nat /\ DOMAIN q = 1 .. Len(q)
  OBVIOUS
<1>2. IsFiniteSet(1 .. Len(q)) /\ Cardinality(1 .. Len(q)) = Len(q)
  BY <1>1, FS_Interval
<1>3. f \in Bijection(1 .. Len(q), Elems(q))
  BY <1>1 DEF Elems, NoRepeat, Bijection, Injection, Surjection, IsInjective
<1>4. ExistsBijection(1 .. Len(q), Elems(q))
  BY <1>3 DEF ExistsBijection
<1> QED  BY <1>2, <1>4, FS_Bijection

(* What goes apart into the buffers are no more than there are buffers. *)
LEMMA AtMostAsManyAs ==
  ASSUME NEW S, NEW T, IsFiniteSet(T), NEW f \in [S -> T],
         \A x, y \in S : f[x] = f[y] => x = y
  PROVE  IsFiniteSet(S) /\ Cardinality(S) <= Cardinality(T)
<1>1. f \in Injection(S, T)
  BY DEF Injection, IsInjective
<1> QED  BY <1>1, FS_Injection

(***************************************************************************)
(* Drawing cannot fill the queue: each buffer is replaced by one flip and  *)
(* updated by one request at most.                                         *)
(***************************************************************************)
THEOREM QueueStaysBounded == Spec => []QueueBounded
<1>1. TypeOK /\ LifeCycle /\ Ring => QueueBounded
  <2> SUFFICES ASSUME TypeOK, LifeCycle, Ring, Up
               PROVE  Len(queue) <= IF VSync THEN NumBufs ELSE 2 * NumBufs - 1
    BY DEF QueueBounded
  <2>1. IsFiniteSet(Elems(queue)) /\ Cardinality(Elems(queue)) = Len(queue)
    BY LengthOfElems DEF TypeOK, LifeCycle, QueueIsLive
  <2>2. IsFiniteSet(Buf) /\ Cardinality(Buf) = NumBufs /\ NumBufs \in Nat
    BY FS_Interval, FlipAssumption DEF Buf
  <2>3. \A x \in Elems(queue) : reqs[x].update \in Buf \cup {SWAP_INVALID_IDX}
    BY DEF TypeOK, LifeCycle, QueueIsLive, SwapRequest
  <2> DEFINE S == {x \in Elems(queue) : reqs[x].update # SWAP_INVALID_IDX}
  <2>4. IsFiniteSet(S) /\ Cardinality(S) <= NumBufs
    <3> DEFINE f == [x \in S |-> reqs[x].update]
    <3>1. f \in [S -> Buf] /\ \A x, y \in S : f[x] = f[y] => x = y
      BY <2>3 DEF Ring, UpdatesApart
    <3> HIDE DEF f, S
    <3> QED  BY <2>2, <3>1, AtMostAsManyAs
  <2>5. CASE VSync
    <3>1. S = Elems(queue)
      BY <2>5, NextBufType DEF Ring, FormsHold, Form, SWAP_INVALID_IDX, Buf
    <3> QED  BY <2>1, <2>4, <2>5, <3>1
  <2>6. CASE ~VSync
    <3> DEFINE T == Buf \ {pf.front}
    <3>1. IsFiniteSet(T) /\ Cardinality(T) = NumBufs - 1
      <4>1. pf.front \in Buf
        BY DEF TypeOK, FlipState
      <4> QED  BY <2>2, <4>1, FS_RemoveElement
    <3>2. IsFiniteSet(QFlips) /\ Cardinality(QFlips) <= NumBufs - 1
      <4> DEFINE f == [x \in QFlips |-> reqs[x].front]
      <4>1. f \in [QFlips -> T] /\ \A x, y \in QFlips : f[x] = f[y] => x = y
        BY DEF Ring, FrontsApart, FormsHold, Form, QFlips
      <4> HIDE DEF f, T
      <4> QED  BY <3>1, <4>1, AtMostAsManyAs
    <3>3. Elems(queue) = S \cup QFlips
      BY DEF Ring, FormsHold, Form, QFlips
    <3> HIDE DEF S
    <3>4. Cardinality(S) \in Nat /\ Cardinality(QFlips) \in Nat
      BY <2>4, <3>2, FS_CardinalityType
    <3>5. Cardinality(Elems(queue)) <= Cardinality(S) + Cardinality(QFlips)
      <4>1. Cardinality(S \cap QFlips) \in Nat
        BY <2>4, FS_Intersection, FS_CardinalityType
      <4>2. Cardinality(S \cup QFlips)
              = Cardinality(S) + Cardinality(QFlips) - Cardinality(S \cap QFlips)
        BY <2>4, <3>2, FS_Union
      <4> QED  BY <3>3, <3>4, <4>1, <4>2
    <3>6. Len(queue) \in Nat
      BY DEF TypeOK
    <3> QED  BY <2>1, <2>2, <2>4, <2>6, <3>2, <3>4, <3>5, <3>6
  <2> QED  BY <2>5, <2>6
<1> QED  BY <1>1, RingInOrder, PTL
=============================================================================
