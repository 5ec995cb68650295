--------------------------- MODULE SwapQueueProofs ---------------------------
(***************************************************************************)
(* Theorems about SwapQueue for every number of buffers, set of windows,   *)
(* set of overlays and bound on requests, with or without vsync: its types *)
(* are correct, and, whatever the clients, the kernel and the users do,    *)
(* the flip buffers and the DRI2 buffers agree between requests, so that   *)
(* no two clients are told to render to the same flip buffer.              *)
(***************************************************************************)
EXTENDS SwapQueue, FiniteSetTheorems, SequenceTheorems, TLAPS

-----------------------------------------------------------------------------
(* What the operators of FlipBufs preserve, for every number of buffers    *)
(* and every set of drawables: the types, the agreement of flip buffers    *)
(* and DRI2 buffers, the ring and the reservation.                         *)

(* The ring of flip buffers: the successor is a buffer, and another one. *)
LEMMA NextBufType == \A i \in Buf : NextBuf(i) \in Buf /\ (NumBufs >= 2 => NextBuf(i) # i)
<1>1. TAKE i \in Buf
<1>2. CASE i + 1 < NumBufs
  BY <1>2, FlipAssumption DEF Buf, NextBuf
<1>3. CASE i + 1 = NumBufs
  BY <1>3, FlipAssumption DEF Buf, NextBuf
<1> QED  BY <1>2, <1>3, FlipAssumption DEF Buf

(* The flip buffers are created in a state of its type. *)
LEMMA FreshFlipType == FreshFlip \in FlipState
BY NextBufType, FlipAssumption DEF FreshFlip, FlipState, Buf, Status

(* A field may be set to any value of its type. *)
LEMMA FieldTypes ==
  ASSUME NEW s \in FlipState
  PROVE  /\ \A x \in Buf : [s EXCEPT !.front = x] \in FlipState
         /\ \A x \in Buf : [s EXCEPT !.back = x] \in FlipState
         /\ \A x \in Drawables \cup {NoDraw} : [s EXCEPT !.owner = x] \in FlipState
         /\ \A x \in SUBSET Buf : [s EXCEPT !.busy = x] \in FlipState
         /\ \A x \in SUBSET Buf : [s EXCEPT !.reserved = x] \in FlipState
         /\ \A x \in Int : [s EXCEPT !.completes = x] \in FlipState
         /\ \A x \in Int : [s EXCEPT !.flips = x] \in FlipState
         /\ \A x \in [Buf -> DRI2Buffer \cup {NoBuffer}] : [s EXCEPT !.user = x] \in FlipState
         /\ \A x \in SUBSET DRI2Buffer : [s EXCEPT !.held = x] \in FlipState
         /\ \A x \in [DRI2Buffer -> Buf \cup {Private, Gone}] : [s EXCEPT !.name = x] \in FlipState
         /\ \A x \in SUBSET DRI2Buffer : [s EXCEPT !.got = x] \in FlipState
         /\ \A x \in BOOLEAN : [s EXCEPT !.pixmaps = x] \in FlipState
BY DEF FlipState

(* An assertion keeps the type, and so does every DRI2 hook below. *)
LEMMA RequireType ==
  ASSUME NEW s \in FlipState, NEW cond
  PROVE  Require(s, cond) \in FlipState
BY DEF Require, FlipState, Status

(* front_idx and back_idx are buffers. *)
LEMMA IdxOfType ==
  ASSUME NEW s \in FlipState, NEW att
  PROVE  IdxOf(s, att) \in Buf
BY DEF IdxOf, FlipState

(* A private pixmap. *)
LEMMA GetNonSysBufType ==
  ASSUME NEW s \in FlipState, NEW b \in DRI2Buffer
  PROVE  GetNonSysBuf(s, b) \in FlipState
BY DEF GetNonSysBuf, FlipState

(* A pixmap of the flip chain. *)
LEMMA GetSysBufType ==
  ASSUME NEW s \in FlipState, NEW b \in DRI2Buffer
  PROVE  GetSysBuf(s, b) \in FlipState
BY IdxOfType DEF GetSysBuf, FlipState

(* The owner leaves the flip chain. *)
LEMMA MigrateFromFsType ==
  ASSUME NEW s \in FlipState
  PROVE  MigrateFromFs(s) \in FlipState
<1> DEFINE f == s.user[s.front]
           b == s.user[s.back]
           r == Require(s, f[2] = "front" /\ b[2] = "back" /\ s.front \notin s.reserved)
<1>1. CASE NoBuffer \in {f, b}
  BY <1>1 DEF MigrateFromFs, FlipState, Status
<1>2. CASE NoBuffer \notin {f, b}
  <2>1. f \in DRI2Buffer /\ b \in DRI2Buffer /\ s.front \in Buf /\ s.back \in Buf
    BY <1>2 DEF FlipState
  <2>2. r \in FlipState
    BY RequireType
  <2> HIDE DEF f, b, r
  <2>3. r.name \in [DRI2Buffer -> Buf \cup {Private, Gone}]
        /\ r.user \in [Buf -> DRI2Buffer \cup {NoBuffer}]
        /\ r.reserved \in SUBSET Buf
    BY <2>2 DEF FlipState
  <2> DEFINE nm  == [r.name EXCEPT ![b] = Private, ![f] = Private]
             us  == [r.user EXCEPT ![s.front] = NoBuffer, ![s.back] = NoBuffer]
             rv  == r.reserved \ {s.back}
  <2>4. MigrateFromFs(s) =
          [r EXCEPT !.name = nm, !.reserved = rv, !.user = us, !.owner = NoDraw]
    BY <1>2, <2>2 DEF MigrateFromFs, FlipState, f, b, r
  <2>5. nm \in [DRI2Buffer -> Buf \cup {Private, Gone}]
        /\ us \in [Buf -> DRI2Buffer \cup {NoBuffer}]
        /\ rv \in SUBSET Buf
    BY <2>1, <2>3
  <2> HIDE DEF nm, us, rv
  <2> DEFINE r1 == [r EXCEPT !.name = nm]
             r2 == [r1 EXCEPT !.reserved = rv]
             r3 == [r2 EXCEPT !.user = us]
  <2>6. r1 \in FlipState
    BY <2>2, <2>5, FieldTypes
  <2>7. r2 \in FlipState
    <3> HIDE DEF r1
    <3> QED  BY <2>5, <2>6, FieldTypes
  <2>8. r3 \in FlipState
    <3> HIDE DEF r2
    <3> QED  BY <2>5, <2>7, FieldTypes
  <2>9. [r3 EXCEPT !.owner = NoDraw] \in FlipState
    <3> HIDE DEF r3
    <3> QED  BY <2>8, FieldTypes
  <2> QED  BY <2>4, <2>9
<1> QED  BY <1>1, <1>2

(* A drawable takes it over. *)
LEMMA TakeOverType ==
  ASSUME NEW s \in FlipState, NEW draw \in Drawables
  PROVE  TakeOver(s, draw) \in FlipState
BY MigrateFromFsType DEF TakeOver, FlipState

(* The back buffer is reserved. *)
LEMMA ReserveType ==
  ASSUME NEW s \in FlipState, NEW b \in DRI2Buffer
  PROVE  Reserve(s, b) \in FlipState
BY DEF Reserve, FlipState

(* A client is given a back buffer. *)
LEMMA HandOutType ==
  ASSUME NEW s \in FlipState, NEW b \in DRI2Buffer
  PROVE  HandOut(s, b) \in FlipState
BY DEF HandOut, FlipState

(* pvr2d_dri2_create_buf. *)
LEMMA CreateBufType ==
  ASSUME NEW s \in FlipState, NEW b \in DRI2Buffer, NEW canFlip
  PROVE  CreateBuf(s, b, canFlip) \in FlipState
<1> DEFINE n == [s EXCEPT !.held = @ \cup {b}, !.got = @ \ {b}]
<1>1. n \in FlipState /\ b[1] \in Drawables
  BY DEF FlipState, DRI2Buffer
<1> HIDE DEF n
<1>2. Reserve(GetSysBuf(TakeOver(n, b[1]), b), b) \in FlipState
  BY <1>1, TakeOverType, GetSysBufType, ReserveType
<1>3. GetNonSysBuf(n, b) \in FlipState
  BY <1>1, GetNonSysBufType
<1> QED  BY <1>2, <1>3, HandOutType DEF CreateBuf, n

(* The migration out of fullscreen when a buffer is reused. *)
LEMMA LeaveType ==
  ASSUME NEW s \in FlipState, NEW b \in DRI2Buffer, NEW canFlip
  PROVE  LeaveIfNotCapable(s, b, canFlip) \in FlipState
BY RequireType, MigrateFromFsType DEF LeaveIfNotCapable

(* pvr2d_dri2_reuse_buf. *)
LEMMA ReuseBufType ==
  ASSUME NEW s \in FlipState, NEW b \in DRI2Buffer, NEW canFlip
  PROVE  ReuseBuf(s, b, canFlip) \in FlipState
<1> DEFINE m == LeaveIfNotCapable(s, b, canFlip)
           t == TakeOver(m, b[1])
<1>1. m \in FlipState /\ b[1] \in Drawables
  BY LeaveType DEF DRI2Buffer
<1> HIDE DEF m
<1>2. t \in FlipState
  BY <1>1, TakeOverType
<1> HIDE DEF t
<1>3. Reserve(IF IsFs(t, b) THEN t ELSE GetSysBuf(t, b), b) \in FlipState
  BY <1>2, GetSysBufType, ReserveType
<1> QED  BY <1>1, <1>3, HandOutType DEF ReuseBuf, m, t

(* pvr2d_dri2_destroy_buf. *)
LEMMA DestroyBufType ==
  ASSUME NEW s \in FlipState, NEW b \in DRI2Buffer
  PROVE  DestroyBuf(s, b) \in FlipState
<1> DEFINE at  == {i \in {s.front, s.back} : s.owner = b[1] /\ s.user[i] = b}
           usr == [i \in Buf |-> IF i \in at THEN NoBuffer ELSE s.user[i]]
           r   == Require(s, s.front \in at => s.front \notin s.reserved)
           rv  == IF s.back \in at THEN r.reserved \ {s.back} ELSE r.reserved
           ow  == IF at # {} /\ usr[s.front] = NoBuffer /\ usr[s.back] = NoBuffer
                    THEN NoDraw ELSE r.owner
           hd  == r.held \ {b}
           gt  == r.got \ {b}
           nm  == [r.name EXCEPT ![b] = Private]
<1>1. r \in FlipState
  BY RequireType
<1>2. usr \in [Buf -> DRI2Buffer \cup {NoBuffer}]
  BY DEF FlipState
<1>3. DestroyBuf(s, b) = [r EXCEPT !.user = usr, !.reserved = rv, !.owner = ow,
                                   !.held = hd, !.got = gt, !.name = nm]
  <2>1. \A u, v, o, h, g :
          LET r1 == [r EXCEPT !.user = u]
              r2 == [r1 EXCEPT !.reserved = v]
              r3 == [r2 EXCEPT !.owner = o]
              r4 == [r3 EXCEPT !.held = h]
              r5 == [r4 EXCEPT !.got = g]
          IN  /\ r1.reserved = r.reserved
              /\ r2.owner = r.owner
              /\ r3.held = r.held
              /\ r4.got = r.got
              /\ r5.name = r.name
    <3> HIDE DEF r
    <3> QED  BY <1>1 DEF FlipState
  <2> QED  BY <2>1 DEF DestroyBuf
<1> HIDE DEF r
<1>4. /\ rv \in SUBSET Buf /\ ow \in Drawables \cup {NoDraw}
      /\ hd \in SUBSET DRI2Buffer /\ gt \in SUBSET DRI2Buffer
      /\ nm \in [DRI2Buffer -> Buf \cup {Private, Gone}]
  BY <1>1 DEF FlipState
<1> HIDE DEF usr, rv, ow, hd, gt, nm
<1> DEFINE r1 == [r EXCEPT !.user = usr]
           r2 == [r1 EXCEPT !.reserved = rv]
           r3 == [r2 EXCEPT !.owner = ow]
           r4 == [r3 EXCEPT !.held = hd]
           r5 == [r4 EXCEPT !.got = gt]
           r6 == [r5 EXCEPT !.name = nm]
<1>5. r1 \in FlipState  BY <1>1, <1>2, FieldTypes
<1> HIDE DEF r1
<1>6. r2 \in FlipState  BY <1>4, <1>5, FieldTypes
<1> HIDE DEF r2
<1>7. r3 \in FlipState  BY <1>4, <1>6, FieldTypes
<1> HIDE DEF r3
<1>8. r4 \in FlipState  BY <1>4, <1>7, FieldTypes
<1> HIDE DEF r4
<1>9. r5 \in FlipState  BY <1>4, <1>8, FieldTypes
<1> HIDE DEF r5
<1>10. r6 \in FlipState  BY <1>4, <1>9, FieldTypes
<1> QED  BY <1>3, <1>10 DEF r1, r2, r3, r4, r5

(* pvr2d_dri2_exchange_bufs. *)
LEMMA ExchangeBufsType ==
  ASSUME NEW s \in FlipState, NEW f \in DRI2Buffer, NEW b \in DRI2Buffer
  PROVE  ExchangeBufs(s, f, b) \in FlipState
<1> DEFINE r  == Require(s, s.name[f] = s.front /\ s.name[b] = s.back)
           nf == s.back
           nb == NextBuf(s.back)
           nm == [r.name EXCEPT ![f] = nf, ![b] = nb]
           us == [i \in Buf |-> IF i = nb THEN b ELSE IF i = nf THEN f
                                ELSE IF i = s.front THEN NoBuffer ELSE r.user[i]]
<1>1. nf \in Buf /\ nb \in Buf
  BY NextBufType DEF FlipState
<1>2. r \in FlipState
  BY RequireType
<1>3. ExchangeBufs(s, f, b) =
        [r EXCEPT !.front = nf, !.back = nb, !.name = nm, !.user = us]
  <2>1. \A u, v, w :
          LET r1 == [r EXCEPT !.front = u]
              r2 == [r1 EXCEPT !.back = v]
              r3 == [r2 EXCEPT !.name = w]
          IN  r2.name = r.name /\ r3.user = r.user
    <3> HIDE DEF r
    <3> QED  BY <1>2 DEF FlipState
  <2> QED  BY <2>1 DEF ExchangeBufs
<1> HIDE DEF r, nf, nb
<1>4. /\ nm \in [DRI2Buffer -> Buf \cup {Private, Gone}]
      /\ us \in [Buf -> DRI2Buffer \cup {NoBuffer}]
  BY <1>1, <1>2 DEF FlipState
<1> HIDE DEF nm, us
<1> DEFINE r1 == [r EXCEPT !.front = nf]
           r2 == [r1 EXCEPT !.back = nb]
           r3 == [r2 EXCEPT !.name = nm]
           r4 == [r3 EXCEPT !.user = us]
<1>5. r1 \in FlipState  BY <1>1, <1>2, FieldTypes
<1> HIDE DEF r1
<1>6. r2 \in FlipState  BY <1>1, <1>5, FieldTypes
<1> HIDE DEF r2
<1>7. r3 \in FlipState  BY <1>4, <1>6, FieldTypes
<1> HIDE DEF r3
<1>8. r4 \in FlipState  BY <1>4, <1>7, FieldTypes
<1> QED  BY <1>3, <1>8 DEF r1, r2, r3

(* A drawable moves in and its reservation ends. *)
LEMMA PrepareFlipType ==
  ASSUME NEW s \in FlipState, NEW draw \in Drawables,
         NEW f \in DRI2Buffer, NEW b \in DRI2Buffer
  PROVE  PrepareFlip(s, draw, f, b) \in FlipState
<1> DEFINE a == Require(s, s.owner \in {NoDraw, draw} \/ s.back \notin s.reserved)
           t == TakeOver(a, draw)
           m == IF s.owner = draw THEN s
                ELSE Reserve(GetSysBuf(GetSysBuf(t, f), b), b)
           r == Require(m, b \in m.got /\ m.front \notin m.reserved /\ m.back \in m.reserved)
<1>1. m \in FlipState
  BY RequireType, TakeOverType, GetSysBufType, ReserveType
<1> HIDE DEF m
<1>2. r \in FlipState
  BY <1>1, RequireType
<1> DEFINE r1 == [r EXCEPT !.got = @ \ {b}]
           rv == r.reserved \ {m.back}
<1>3. PrepareFlip(s, draw, f, b) = [r1 EXCEPT !.reserved = rv]
  <2>1. \A x : [r EXCEPT !.got = x].reserved = r.reserved
    <3> HIDE DEF r
    <3> QED  BY <1>2 DEF FlipState
  <2> QED  BY <2>1 DEF PrepareFlip, m
<1> HIDE DEF r
<1>4. r.got \ {b} \in SUBSET DRI2Buffer /\ rv \in SUBSET Buf
  BY <1>2 DEF FlipState
<1>5. r1 \in FlipState
  BY <1>2, <1>4, FieldTypes
<1> HIDE DEF r1, rv
<1> QED  BY <1>3, <1>4, <1>5, FieldTypes

(* A reservation ends with a copy. *)
LEMMA EndReservationType ==
  ASSUME NEW s \in FlipState, NEW draw, NEW b \in DRI2Buffer
  PROVE  EndReservation(s, draw, b) \in FlipState
<1> DEFINE q == Require(s, s.front \notin s.reserved /\ s.back \in s.reserved)
           a == IF s.owner = draw THEN [q EXCEPT !.reserved = @ \ {s.back}] ELSE s
           r == Require(a, b \in a.got)
<1>1. q \in FlipState
  BY RequireType
<1>2. a \in FlipState
  <2> HIDE DEF q
  <2> QED  BY <1>1 DEF FlipState
<1>3. EndReservation(s, draw, b) = [r EXCEPT !.got = @ \ {b}]
  BY DEF EndReservation
<1> HIDE DEF a
<1>4. r \in FlipState
  BY <1>2, RequireType
<1> HIDE DEF r
<1> QED  BY <1>3, <1>4 DEF FlipState
-----------------------------------------------------------------------------
(***************************************************************************)
(* Every DRI2 hook keeps the flip buffers and the DRI2 buffers in          *)
(* agreement (Agrees), as long as the server does not die in it.           *)
(***************************************************************************)
Good(s, old) == s.server = "up" => Agrees(s, old)

(* Both states show the same buffers as the same drawable's; an assertion may *)
(* have failed in between.                                                    *)
SameOwnership(s, t) ==
  /\ t.server = "up" => s.server = "up"
  /\ t.server = "segfault" => s.server = "segfault"
  /\ t.pixmaps = s.pixmaps
  /\ t.front = s.front /\ t.back = s.back /\ t.owner = s.owner
  /\ t.user = s.user /\ t.held = s.held /\ t.name = s.name
  /\ t.got \subseteq s.got

(* Agreement depends on these fields only. *)
LEMMA SameGood ==
  ASSUME NEW s, NEW t, NEW old, SameOwnership(s, t), Good(s, old)
  PROVE  Good(t, old)
BY DEF SameOwnership, Good, Agrees, IdxOf

(* A failed assertion changes nothing else. *)
LEMMA RequireSame ==
  ASSUME NEW s \in FlipState, NEW cond
  PROVE  /\ SameOwnership(s, Require(s, cond))
         /\ Require(s, cond).server = "up" => cond /\ s.server = "up"
         /\ Require(s, cond).reserved = s.reserved
BY DEF Require, SameOwnership, FlipState

(* A NULL pointer is no buffer. *)
LEMMA NoBufferType == NoBuffer \notin DRI2Buffer
BY FlipAssumption DEF DRI2Buffer, Attachment

(* Without an owner no flip buffer is shown as anybody's. *)
LEMMA NoOwner ==
  ASSUME NEW s \in FlipState, NEW old, Agrees(s, old), s.owner = NoDraw
  PROVE  \A i \in Buf : s.user[i] = NoBuffer
<1> SUFFICES ASSUME NEW i \in Buf, s.user[i] # NoBuffer PROVE FALSE
  OBVIOUS
<1>1. s.user[i][1] = NoDraw
  BY DEF Agrees
<1>2. s.user[i] \in DRI2Buffer
  BY DEF FlipState
<1> QED  BY <1>1, <1>2, FlipAssumption DEF DRI2Buffer

(* What migrate_from_fs leaves behind. *)
LEMMA MigrateFields ==
  ASSUME NEW s \in FlipState, MigrateFromFs(s).server = "up"
  PROVE  LET t == MigrateFromFs(s)
             f == s.user[s.front]
             b == s.user[s.back]
         IN  /\ s.server = "up" /\ f # NoBuffer /\ b # NoBuffer
             /\ f[2] = "front" /\ b[2] = "back"
             /\ t.front = s.front /\ t.back = s.back /\ t.owner = NoDraw
             /\ t.held = s.held /\ t.got = s.got
             /\ t.user = [[s.user EXCEPT ![s.front] = NoBuffer] EXCEPT ![s.back] = NoBuffer]
             /\ t.name = [[s.name EXCEPT ![b] = Private] EXCEPT ![f] = Private]
<1> DEFINE t == MigrateFromFs(s)
           f == s.user[s.front]
           b == s.user[s.back]
           cond == f[2] = "front" /\ b[2] = "back" /\ s.front \notin s.reserved
           r == Require(s, cond)
<1>1. NoBuffer \notin {f, b}
  <2> SUFFICES ASSUME NoBuffer \in {f, b} PROVE FALSE
    OBVIOUS
  <2>1. t = [s EXCEPT !.server = "segfault"]
    BY DEF MigrateFromFs
  <2> QED  BY <2>1 DEF FlipState
<1>2. t = [r EXCEPT !.name = [[r.name EXCEPT ![b] = Private] EXCEPT ![f] = Private],
                    !.reserved = r.reserved \ {s.back},
                    !.user = [[r.user EXCEPT ![s.front] = NoBuffer] EXCEPT ![s.back] = NoBuffer],
                    !.owner = NoDraw]
  BY <1>1 DEF MigrateFromFs
<1>3. r \in FlipState
  BY RequireType
<1>4. SameOwnership(s, r) /\ (r.server = "up" => cond /\ s.server = "up")
  BY RequireSame
<1> HIDE DEF r
<1>5. \A n, v, u, o :
        LET x == [r EXCEPT !.name = n, !.reserved = v, !.user = u, !.owner = o]
        IN  /\ x.front = r.front /\ x.back = r.back /\ x.owner = o
            /\ x.held = r.held /\ x.got = r.got /\ x.user = u /\ x.name = n
            /\ x.server = r.server
  BY <1>3 DEF FlipState
<1>6. /\ t.front = r.front /\ t.back = r.back /\ t.owner = NoDraw
      /\ t.held = r.held /\ t.got = r.got /\ t.server = r.server
      /\ t.user = [[r.user EXCEPT ![s.front] = NoBuffer] EXCEPT ![s.back] = NoBuffer]
      /\ t.name = [[r.name EXCEPT ![b] = Private] EXCEPT ![f] = Private]
  BY <1>2, <1>5
<1>7. t.server = "up"
  OBVIOUS
<1>8. f # NoBuffer /\ b # NoBuffer
  BY <1>1
<1>9. cond /\ s.server = "up"
  BY <1>4, <1>6, <1>7
<1>10. r.held = s.held /\ r.got = s.got /\ r.front = s.front /\ r.back = s.back
  BY DEF r, Require, FlipState
<1> HIDE DEF t
<1> QED  BY <1>4, <1>6, <1>8, <1>9, <1>10 DEF SameOwnership, t

(* No hook creates or frees buffers, but for the two that are meant to. *)
LEMMA MigrateHeld ==
  ASSUME NEW s \in FlipState
  PROVE  MigrateFromFs(s).held = s.held
<1> DEFINE f == s.user[s.front]
           b == s.user[s.back]
           r == Require(s, f[2] = "front" /\ b[2] = "back" /\ s.front \notin s.reserved)
<1>1. r \in FlipState /\ r.held = s.held
  BY RequireType DEF Require, FlipState
<1> HIDE DEF r
<1>2. \A n, v, u, o :
        [r EXCEPT !.name = n, !.reserved = v, !.user = u, !.owner = o].held = r.held
  BY <1>1 DEF FlipState
<1>3. CASE NoBuffer \in {f, b}
  BY <1>3 DEF MigrateFromFs, FlipState
<1>4. CASE NoBuffer \notin {f, b}
  <2>1. MigrateFromFs(s) =
          [r EXCEPT !.name = [[r.name EXCEPT ![b] = Private] EXCEPT ![f] = Private],
                    !.reserved = r.reserved \ {s.back},
                    !.user = [[r.user EXCEPT ![s.front] = NoBuffer] EXCEPT ![s.back] = NoBuffer],
                    !.owner = NoDraw]
    BY <1>4 DEF MigrateFromFs, r
  <2> QED  BY <1>1, <1>2, <2>1
<1> QED  BY <1>3, <1>4

(* The owner that leaves keeps nothing of the flip chain. *)
LEMMA MigrateGood ==
  ASSUME NEW s \in FlipState, NEW old, Good(s, old)
  PROVE  Good(MigrateFromFs(s), old)
<1> DEFINE t == MigrateFromFs(s)
           f == s.user[s.front]
           b == s.user[s.back]
<1> SUFFICES ASSUME t.server = "up" PROVE Agrees(t, old)
  BY DEF Good
<1>1. /\ s.server = "up" /\ f # NoBuffer /\ b # NoBuffer
      /\ f[2] = "front" /\ b[2] = "back"
      /\ t.front = s.front /\ t.back = s.back /\ t.owner = NoDraw
      /\ t.held = s.held /\ t.got = s.got
      /\ t.user = [[s.user EXCEPT ![s.front] = NoBuffer] EXCEPT ![s.back] = NoBuffer]
      /\ t.name = [[s.name EXCEPT ![b] = Private] EXCEPT ![f] = Private]
  BY MigrateFields
<1>2. Agrees(s, old)
  BY <1>1 DEF Good
<1>3. /\ s.front \in Buf /\ s.back \in Buf
      /\ s.user \in [Buf -> DRI2Buffer \cup {NoBuffer}]
      /\ s.name \in [DRI2Buffer -> Buf \cup {Private, Gone}]
      /\ s.held \in SUBSET DRI2Buffer
  BY DEF FlipState
<1> HIDE DEF t
<1>4. \A i \in Buf : t.user[i] = NoBuffer
  <2> SUFFICES ASSUME NEW i \in Buf PROVE t.user[i] = NoBuffer
    OBVIOUS
  <2>1. s.user[i] # NoBuffer => i \in {s.front, s.back}
    BY <1>2 DEF Agrees, IdxOf
  <2> QED  BY <1>1, <1>3, <2>1
<1>5. NumBufs >= 2 => t.front # t.back
  BY <1>1, <1>2 DEF Agrees
<1>6. Private \notin Buf
  BY FlipAssumption DEF Buf
<1>7. \A c \in t.held \ old : t.name[c] \notin Buf
  <2> SUFFICES ASSUME NEW c \in s.held \ old, t.name[c] \in Buf PROVE FALSE
    BY <1>1
  <2>1. c # f /\ c # b /\ t.name[c] = s.name[c]
    BY <1>1, <1>3, <1>6
  <2>2. s.user[s.name[c]] = c
    BY <1>2, <2>1 DEF Agrees
  <2>3. c # NoBuffer
    BY <1>3, NoBufferType
  <2>4. s.name[c] \in {s.front, s.back}
    BY <1>2, <2>1, <2>2, <2>3 DEF Agrees, IdxOf
  <2> QED  BY <2>1, <2>2, <2>4
<1>8. t.got \subseteq t.held
  BY <1>1, <1>2 DEF Agrees
<1> QED  BY <1>4, <1>5, <1>7, <1>8 DEF Agrees

(* draw is the owner once it took the chain over. *)
LEMMA TakeOverGood ==
  ASSUME NEW s \in FlipState, NEW old, NEW draw \in Drawables, Good(s, old)
  PROVE  /\ Good(TakeOver(s, draw), old)
         /\ TakeOver(s, draw).owner = draw
         /\ TakeOver(s, draw).held = s.held
<1> DEFINE m == IF s.owner \in {NoDraw, draw} THEN s ELSE MigrateFromFs(s)
           t == [m EXCEPT !.owner = draw]
<1>1. m \in FlipState /\ m.held = s.held /\ Good(m, old)
  BY MigrateFromFsType, MigrateHeld, MigrateGood
<1>2. m.server = "up" => m.owner \in {NoDraw, draw}
  BY MigrateFields
<1>3. TakeOver(s, draw) = t
  BY DEF TakeOver
<1> HIDE DEF m
<1>4. /\ t.owner = draw /\ t.front = m.front /\ t.back = m.back
      /\ t.user = m.user /\ t.held = m.held /\ t.got = m.got /\ t.name = m.name
      /\ t.server = m.server
  BY <1>1 DEF FlipState
<1> HIDE DEF t
<1>5. ASSUME m.server = "up" PROVE Agrees(t, old)
  <2>1. Agrees(m, old)
    BY <1>1, <1>5 DEF Good
  <2>2. CASE m.owner = draw
    BY <1>4, <2>1, <2>2 DEF Agrees, IdxOf
  <2>3. CASE m.owner = NoDraw
    <3>1. \A i \in Buf : m.user[i] = NoBuffer
      BY <1>1, <2>1, <2>3, NoOwner
    <3> QED  BY <1>4, <2>1, <3>1 DEF Agrees
  <2> QED  BY <1>2, <1>5, <2>2, <2>3
<1> QED  BY <1>1, <1>3, <1>4, <1>5 DEF Good

(***************************************************************************)
(* A buffer of the owner enters the flip chain.  One that it replaces      *)
(* there, of the same drawable and attachment, must be an old one.         *)
(***************************************************************************)
LEMMA GetSysBufGood ==
  ASSUME NEW s \in FlipState, NEW old, NEW b \in DRI2Buffer, Good(s, old),
         NumBufs >= 2, b \in s.held, b[1] = s.owner,
         \A c \in s.held \ old : c[1] = b[1] /\ c[2] = b[2] => c = b
  PROVE  /\ Good(GetSysBuf(s, b), old)
         /\ GetSysBuf(s, b).held = s.held /\ GetSysBuf(s, b).owner = s.owner
<1> DEFINE t == GetSysBuf(s, b)
           i == IdxOf(s, b[2])
<1>1. i \in Buf
  BY IdxOfType
<1>2. /\ t.front = s.front /\ t.back = s.back /\ t.owner = s.owner
      /\ t.held = s.held /\ t.got = s.got /\ t.server = s.server
      /\ t.user = [s.user EXCEPT ![i] = b]
      /\ t.name = [s.name EXCEPT ![b] = i]
  <2> HIDE DEF i
  <2>1. t = [s EXCEPT !.name = [s.name EXCEPT ![b] = i], !.user = [s.user EXCEPT ![i] = b]]
    BY DEF GetSysBuf, i
  <2> HIDE DEF t
  <2> QED  BY <2>1 DEF FlipState
<1>3. /\ s.user \in [Buf -> DRI2Buffer \cup {NoBuffer}]
      /\ s.name \in [DRI2Buffer -> Buf \cup {Private, Gone}]
      /\ s.held \in SUBSET DRI2Buffer
  BY DEF FlipState
<1> SUFFICES ASSUME s.server = "up" PROVE Agrees(t, old)
  BY <1>2 DEF Good
<1>4. Agrees(s, old)
  BY DEF Good
<1>5. \A att : IdxOf(t, att) = IdxOf(s, att)
  BY <1>2 DEF IdxOf
<1> HIDE DEF t
<1>6. \A j \in Buf : t.user[j] # NoBuffer =>
        /\ t.user[j] \in t.held /\ t.user[j][1] = t.owner
        /\ IdxOf(t, t.user[j][2]) = j /\ t.name[t.user[j]] = j
  <2> SUFFICES ASSUME NEW j \in Buf, t.user[j] # NoBuffer
               PROVE  /\ t.user[j] \in t.held /\ t.user[j][1] = t.owner
                      /\ IdxOf(t, t.user[j][2]) = j /\ t.name[t.user[j]] = j
    OBVIOUS
  <2>1. CASE j = i
    BY <1>1, <1>2, <1>3, <1>5, <2>1
  <2>2. CASE j # i
    <3>1. t.user[j] = s.user[j]
      BY <1>1, <1>2, <1>3, <2>2
    <3> HIDE DEF i
    <3>2. /\ s.user[j] \in s.held /\ s.user[j][1] = s.owner
          /\ IdxOf(s, s.user[j][2]) = j /\ s.name[s.user[j]] = j
      BY <1>4, <3>1 DEF Agrees
    <3>3. s.user[j] # b
      BY <2>2, <3>2 DEF i
    <3>4. t.name[s.user[j]] = s.name[s.user[j]]
      BY <1>2, <1>3, <3>2, <3>3
    <3> QED  BY <1>2, <1>5, <3>1, <3>2, <3>4
  <2> QED  BY <2>1, <2>2
<1>7. \A c \in t.held \ old : t.name[c] \in Buf => t.user[t.name[c]] = c
  <2> SUFFICES ASSUME NEW c \in s.held \ old, t.name[c] \in Buf
               PROVE  t.user[t.name[c]] = c
    BY <1>2
  <2> HIDE DEF i
  <2>1. CASE c = b
    BY <1>1, <1>2, <1>3, <2>1
  <2>2. CASE c # b
    <3>1. t.name[c] = s.name[c]
      BY <1>2, <1>3, <2>2
    <3>2. s.user[s.name[c]] = c /\ c # NoBuffer
      BY <1>3, <1>4, <3>1, NoBufferType DEF Agrees
    <3>3. c[1] = s.owner /\ IdxOf(s, c[2]) = s.name[c]
      BY <1>4, <3>1, <3>2 DEF Agrees
    <3>4. c[2] # b[2]
      BY <2>2, <3>3
    <3>5. s.front # s.back
      BY <1>4 DEF Agrees
    <3>6. s.name[c] # i
      <4>1. c[2] \in {"front", "back"} /\ b[2] \in {"front", "back"}
        BY <1>3 DEF DRI2Buffer, Attachment
      <4> QED  BY <3>3, <3>4, <3>5, <4>1 DEF IdxOf, i
    <3> QED  BY <1>1, <1>2, <1>3, <3>1, <3>2, <3>6
  <2> QED  BY <2>1, <2>2
<1>8. t.front # t.back /\ t.got \subseteq t.held
  BY <1>2, <1>4 DEF Agrees
<1> QED  BY <1>6, <1>7, <1>8 DEF Agrees

(* A buffer outside the chain gets a private name. *)
LEMMA GetNonSysBufGood ==
  ASSUME NEW s \in FlipState, NEW old, NEW b \in DRI2Buffer, Good(s, old),
         \A i \in Buf : s.user[i] # b
  PROVE  Good(GetNonSysBuf(s, b), old) /\ GetNonSysBuf(s, b).held = s.held
<1> DEFINE t == GetNonSysBuf(s, b)
<1>1. /\ t.front = s.front /\ t.back = s.back /\ t.owner = s.owner
      /\ t.held = s.held /\ t.got = s.got /\ t.server = s.server /\ t.user = s.user
      /\ t.name = [s.name EXCEPT ![b] = Private]
  BY DEF GetNonSysBuf, FlipState
<1> HIDE DEF t
<1> SUFFICES ASSUME s.server = "up" PROVE Agrees(t, old)
  BY <1>1 DEF Good, t
<1>2. Agrees(s, old)
  BY DEF Good
<1>3. s.name \in [DRI2Buffer -> Buf \cup {Private, Gone}] /\ s.held \in SUBSET DRI2Buffer
  BY DEF FlipState
<1>4. Private \notin Buf
  BY FlipAssumption DEF Buf
<1>5. \A c \in s.held : c # b => t.name[c] = s.name[c]
  BY <1>1, <1>3
<1>6. t.name[b] = Private
  BY <1>1, <1>3
<1> QED  BY <1>1, <1>2, <1>4, <1>5, <1>6 DEF Agrees, IdxOf

(* What the name of a buffer that just got one is. *)
LEMMA NamedBuf ==
  ASSUME NEW s \in FlipState, NEW b \in DRI2Buffer
  PROVE  /\ GetSysBuf(s, b).user[GetSysBuf(s, b).name[b]] = b
         /\ GetNonSysBuf(s, b).name[b] = Private
<1> DEFINE i == IdxOf(s, b[2])
           u == [s.user EXCEPT ![i] = b]
           n == [s.name EXCEPT ![b] = i]
<1>1. i \in Buf
  BY IdxOfType
<1> HIDE DEF i
<1>2. u[i] = b /\ n[b] = i
  BY <1>1 DEF FlipState
<1>3. GetSysBuf(s, b) = [s EXCEPT !.name = n, !.user = u]
  BY DEF GetSysBuf, i
<1> HIDE DEF u, n
<1>4. GetSysBuf(s, b).user = u /\ GetSysBuf(s, b).name = n
  BY <1>3 DEF FlipState
<1>5. GetNonSysBuf(s, b).name[b] = Private
  BY DEF GetNonSysBuf, FlipState
<1> QED  BY <1>2, <1>4, <1>5

(* A new buffer may be left out of account until it has a name. *)
LEMMA NewBufNamed ==
  ASSUME NEW s, NEW old, NEW b, Good(s, old \cup {b}),
         s.name[b] \in Buf => s.user[s.name[b]] = b
  PROVE  Good(s, old)
BY DEF Good, Agrees

(* A reservation does not concern ownership. *)
LEMMA ReserveGood ==
  ASSUME NEW s \in FlipState, NEW old, NEW b, Good(s, old)
  PROVE  /\ Good(Reserve(s, b), old)
         /\ Reserve(s, b).held = s.held /\ Reserve(s, b).owner = s.owner
<1>1. SameOwnership(s, Reserve(s, b))
  BY DEF SameOwnership, Reserve, FlipState
<1> QED  BY <1>1, SameGood DEF SameOwnership

(* A client is handed a buffer that exists. *)
LEMMA HandOutGood ==
  ASSUME NEW s \in FlipState, NEW old, NEW b \in s.held, Good(s, old)
  PROVE  Good(HandOut(s, b), old) /\ HandOut(s, b).held = s.held
<1> DEFINE t == HandOut(s, b)
<1>1. /\ t.front = s.front /\ t.back = s.back /\ t.owner = s.owner
      /\ t.held = s.held /\ t.server = s.server /\ t.user = s.user
      /\ t.name = s.name /\ t.got \subseteq s.got \cup {b}
  BY DEF HandOut, FlipState
<1> HIDE DEF t
<1>2. Good(t, old)
  BY <1>1 DEF Good, Agrees, IdxOf
<1> QED  BY <1>1, <1>2 DEF t

(***************************************************************************)
(* pvr2d_dri2_create_buf, for a buffer that does not exist yet and is the  *)
(* only one of its kind but for old ones.                                  *)
(***************************************************************************)
LEMMA CreateBufGood ==
  ASSUME NEW s \in FlipState, NEW old, NEW b \in DRI2Buffer, NEW canFlip, Good(s, old),
         b \notin s.held,
         \A c \in s.held \ old : ~(c[1] = b[1] /\ c[2] = b[2])
  PROVE  /\ Good(CreateBuf(s, b, canFlip), old)
         /\ CreateBuf(s, b, canFlip).held = s.held \cup {b}
<1> DEFINE n == [s EXCEPT !.held = @ \cup {b}, !.got = @ \ {b}]
           t == TakeOver(n, b[1])
           g == GetSysBuf(t, b)
           p == GetNonSysBuf(n, b)
           alone == old \cup {b}
<1>1. n \in FlipState
  <2> DEFINE n1 == [s EXCEPT !.held = @ \cup {b}]
             n2 == [n1 EXCEPT !.got = @ \ {b}]
  <2>1. n1 \in FlipState
    <3>1. s.held \cup {b} \in SUBSET DRI2Buffer
      BY DEF FlipState
    <3> QED  BY <3>1, FieldTypes
  <2>2. n = n2
    BY DEF FlipState
  <2> HIDE DEF n1
  <2>3. n1.got \ {b} \in SUBSET DRI2Buffer
    BY <2>1 DEF FlipState
  <2> QED  BY <2>1, <2>2, <2>3, FieldTypes
<1>2. /\ n.front = s.front /\ n.back = s.back /\ n.owner = s.owner
      /\ n.held = s.held \cup {b} /\ n.server = s.server /\ n.user = s.user
      /\ n.name = s.name /\ n.got \subseteq s.got
  BY DEF FlipState
<1> HIDE DEF n
<1>3. Good(n, alone)
  BY <1>2 DEF Good, Agrees, IdxOf
<1>4. b[1] \in Drawables
  BY DEF DRI2Buffer
<1>5. t \in FlipState /\ Good(t, alone) /\ t.owner = b[1] /\ t.held = n.held
  BY <1>1, <1>3, <1>4, TakeOverType, TakeOverGood
<1> HIDE DEF t
<1>6. ASSUME PageFlipPossible(n, b[1], canFlip)
      PROVE  /\ HandOut(Reserve(g, b), b).held = s.held \cup {b}
             /\ Good(HandOut(Reserve(g, b), b), old)
  <2>1. NumBufs >= 2
    BY <1>6 DEF PageFlipPossible
  <2>2. Good(g, alone) /\ g.held = t.held
    BY <1>2, <1>5, <2>1, GetSysBufGood
  <2>3. g \in FlipState /\ Good(g, old)
    BY <1>5, <2>2, GetSysBufType, NamedBuf, NewBufNamed
  <2> HIDE DEF g
  <2>4. /\ Reserve(g, b) \in FlipState /\ Good(Reserve(g, b), old)
        /\ Reserve(g, b).held = g.held
    BY <2>3, ReserveType, ReserveGood
  <2> QED  BY <1>2, <1>5, <2>2, <2>4, HandOutGood
<1>7. /\ HandOut(p, b).held = s.held \cup {b}
      /\ Good(HandOut(p, b), old)
  <2>1. p \in FlipState
    BY <1>1, GetNonSysBufType
  <2>2. ASSUME s.server = "up" PROVE \A i \in Buf : n.user[i] # b
    BY <1>2, <2>2, NoBufferType DEF Good, Agrees
  <2>3. p.server = n.server /\ p.held = n.held
    BY <1>1 DEF GetNonSysBuf, FlipState
  <2>4. Good(p, alone)
    <3>1. CASE s.server = "up"
      BY <1>1, <1>3, <2>2, <3>1, GetNonSysBufGood
    <3>2. CASE s.server # "up"
      BY <1>2, <2>3, <3>2 DEF Good
    <3> QED  BY <3>1, <3>2
  <2>5. p.name[b] \notin Buf
    BY <1>1, NamedBuf, FlipAssumption DEF Buf
  <2> HIDE DEF p
  <2>6. Good(p, old)
    BY <2>4, <2>5, NewBufNamed
  <2> QED  BY <1>2, <2>1, <2>3, <2>6, HandOutGood
<1> QED  BY <1>6, <1>7 DEF CreateBuf, n, t

(* The migration out of fullscreen when a buffer is reused. *)
LEMMA LeaveGood ==
  ASSUME NEW s \in FlipState, NEW old, NEW b, NEW canFlip, Good(s, old)
  PROVE  /\ Good(LeaveIfNotCapable(s, b, canFlip), old)
         /\ LeaveIfNotCapable(s, b, canFlip).held = s.held
<1> DEFINE r == Require(s, IsFs(s, b))
<1>1. r \in FlipState /\ SameOwnership(s, r)
  BY RequireType, RequireSame
<1> HIDE DEF r
<1>2. Good(r, old) /\ r.held = s.held
  BY <1>1, SameGood DEF SameOwnership
<1>3. Good(MigrateFromFs(r), old) /\ MigrateFromFs(r).held = s.held
  BY <1>1, <1>2, MigrateGood, MigrateHeld
<1> QED  BY <1>3 DEF LeaveIfNotCapable, r

(* pvr2d_dri2_reuse_buf. *)
LEMMA ReuseBufGood ==
  ASSUME NEW s \in FlipState, NEW old, NEW b \in DRI2Buffer, NEW canFlip, Good(s, old),
         b \in s.held,
         \A c \in s.held \ old : c[1] = b[1] /\ c[2] = b[2] => c = b
  PROVE  /\ Good(ReuseBuf(s, b, canFlip), old)
         /\ ReuseBuf(s, b, canFlip).held = s.held
<1> DEFINE m == LeaveIfNotCapable(s, b, canFlip)
           t == TakeOver(m, b[1])
           g == IF IsFs(t, b) THEN t ELSE GetSysBuf(t, b)
<1>1. m \in FlipState /\ Good(m, old) /\ m.held = s.held
  BY LeaveType, LeaveGood
<1> HIDE DEF m
<1>2. b[1] \in Drawables
  BY DEF DRI2Buffer
<1>3. t \in FlipState /\ Good(t, old) /\ t.owner = b[1] /\ t.held = s.held
  BY <1>1, <1>2, TakeOverType, TakeOverGood
<1> HIDE DEF t
<1>4. ASSUME PageFlipPossible(m, b[1], canFlip)
      PROVE  /\ HandOut(Reserve(g, b), b).held = s.held
             /\ Good(HandOut(Reserve(g, b), b), old)
  <2>1. NumBufs >= 2
    BY <1>4 DEF PageFlipPossible
  <2>2. Good(GetSysBuf(t, b), old) /\ GetSysBuf(t, b).held = s.held
    BY <1>3, <2>1, GetSysBufGood
  <2>3. g \in FlipState /\ Good(g, old) /\ g.held = s.held
    BY <1>3, <2>2, GetSysBufType
  <2> HIDE DEF g
  <2>4. /\ Reserve(g, b) \in FlipState /\ Good(Reserve(g, b), old)
        /\ Reserve(g, b).held = s.held
    BY <2>3, ReserveType, ReserveGood
  <2> QED  BY <2>4, HandOutGood
<1>5. HandOut(m, b).held = s.held /\ Good(HandOut(m, b), old)
  BY <1>1, HandOutGood
<1> QED  BY <1>4, <1>5 DEF ReuseBuf, m, t

(* pvr2d_dri2_destroy_buf. *)
LEMMA DestroyBufGood ==
  ASSUME NEW s \in FlipState, NEW old, NEW b \in s.held, Good(s, old)
  PROVE  /\ Good(DestroyBuf(s, b), old)
         /\ DestroyBuf(s, b).held = s.held \ {b}
<1> DEFINE at  == {i \in {s.front, s.back} : s.owner = b[1] /\ s.user[i] = b}
           usr == [i \in Buf |-> IF i \in at THEN NoBuffer ELSE s.user[i]]
           r   == Require(s, s.front \in at => s.front \notin s.reserved)
           rsv == IF s.back \in at THEN r.reserved \ {s.back} ELSE r.reserved
           own == IF at # {} /\ usr[s.front] = NoBuffer /\ usr[s.back] = NoBuffer
                    THEN NoDraw ELSE r.owner
           hld == r.held \ {b}
           gt  == r.got \ {b}
           nm  == [r.name EXCEPT ![b] = Private]
           t   == [r EXCEPT !.user = usr, !.reserved = rsv, !.owner = own,
                            !.held = hld, !.got = gt, !.name = nm]
<1>1. DestroyBuf(s, b) = t
  BY DEF DestroyBuf
<1>2. r \in FlipState /\ SameOwnership(s, r)
  BY RequireType, RequireSame
<1>3. /\ s.user \in [Buf -> DRI2Buffer \cup {NoBuffer}] /\ s.held \in SUBSET DRI2Buffer
      /\ s.name \in [DRI2Buffer -> Buf \cup {Private, Gone}] /\ s.front \in Buf /\ s.back \in Buf
  BY DEF FlipState
<1>4. \A i \in Buf : usr[i] = IF i \in at THEN NoBuffer ELSE s.user[i]
  OBVIOUS
<1>5. nm[b] = Private /\ \A c \in DRI2Buffer : c # b => nm[c] = s.name[c]
  BY <1>2, <1>3 DEF SameOwnership
<1>6. hld = s.held \ {b} /\ gt \subseteq s.got \ {b}
  BY <1>2 DEF SameOwnership
<1>7. own = s.owner \/ (own = NoDraw /\ usr[s.front] = NoBuffer /\ usr[s.back] = NoBuffer)
  BY <1>2 DEF SameOwnership
<1> HIDE DEF r, usr, rsv, own, hld, gt, nm
<1>8. /\ t.front = r.front /\ t.back = r.back /\ t.owner = own /\ t.server = r.server
      /\ t.held = hld /\ t.user = usr /\ t.got = gt /\ t.name = nm
  BY <1>2 DEF FlipState
<1> HIDE DEF t
<1>9. ASSUME t.server = "up" PROVE Agrees(t, old)
  <2>1. Agrees(s, old) /\ t.front = s.front /\ t.back = s.back
    BY <1>2, <1>8, <1>9 DEF Good, SameOwnership
  <2>2. \A i \in Buf : s.user[i] # NoBuffer =>
          i \in {s.front, s.back} /\ s.user[i] \in s.held /\ s.user[i][1] = s.owner
    BY <2>1 DEF Agrees, IdxOf
  <2>3. \A i \in Buf : s.user[i] = b => i \in at
    BY <1>3, <2>2, NoBufferType
  <2>4. \A i \in Buf : usr[i] # NoBuffer => usr[i] = s.user[i] /\ usr[i] # b
    BY <1>4, <2>3
  <2> HIDE DEF at
  <2>5. \A i \in Buf : usr[i] # NoBuffer => t.owner = s.owner
    BY <1>7, <1>8, <2>2, <2>4
  <2>6. \A i \in Buf : t.user[i] # NoBuffer =>
          /\ t.user[i] \in t.held /\ t.user[i][1] = t.owner
          /\ IdxOf(t, t.user[i][2]) = i /\ t.name[t.user[i]] = i
    <3> SUFFICES ASSUME NEW i \in Buf, usr[i] # NoBuffer
                 PROVE  /\ usr[i] \in t.held /\ usr[i][1] = t.owner
                        /\ IdxOf(t, usr[i][2]) = i /\ t.name[usr[i]] = i
      BY <1>8
    <3>1. usr[i] = s.user[i] /\ usr[i] # b /\ t.owner = s.owner
      BY <2>4, <2>5
    <3>2. /\ s.user[i] \in s.held /\ s.user[i][1] = s.owner
          /\ IdxOf(s, s.user[i][2]) = i /\ s.name[s.user[i]] = i
      BY <2>1, <3>1 DEF Agrees
    <3>3. nm[s.user[i]] = i
      BY <1>3, <1>5, <3>1, <3>2
    <3> QED  BY <1>6, <1>8, <2>1, <3>1, <3>2, <3>3 DEF IdxOf
  <2>7. \A c \in t.held \ old : t.name[c] \in Buf => t.user[t.name[c]] = c
    <3> SUFFICES ASSUME NEW c \in s.held \ old, c # b, nm[c] \in Buf
                 PROVE  usr[nm[c]] = c
      BY <1>6, <1>8
    <3>1. nm[c] = s.name[c] /\ s.user[s.name[c]] = c
      BY <1>3, <1>5, <2>1 DEF Agrees
    <3>2. s.name[c] \notin at
      BY <3>1 DEF at
    <3> QED  BY <1>4, <3>1, <3>2
  <2>8. NumBufs < 2 => \A i \in Buf : t.user[i] = NoBuffer
    BY <1>8, <2>1, <2>4, FlipAssumption DEF Agrees
  <2>9. NumBufs >= 2 => t.front # t.back
    BY <2>1 DEF Agrees
  <2>10. t.got \subseteq t.held
    BY <1>6, <1>8, <2>1 DEF Agrees
  <2> QED  BY <2>6, <2>7, <2>8, <2>9, <2>10, FlipAssumption DEF Agrees
<1> QED  BY <1>1, <1>6, <1>8, <1>9 DEF Good

(***************************************************************************)
(* pvr2d_dri2_exchange_bufs: if the assertion about the names holds, the   *)
(* buffers are those of the owner, and move on in the ring.                *)
(***************************************************************************)
LEMMA ExchangeBufsGood ==
  ASSUME NEW s \in FlipState, NEW f \in s.held, NEW b \in s.held, Good(s, {}),
         f[2] = "front", b[2] = "back"
  PROVE  /\ Good(ExchangeBufs(s, f, b), {})
         /\ ExchangeBufs(s, f, b).held = s.held
<1> DEFINE r   == Require(s, s.name[f] = s.front /\ s.name[b] = s.back)
           nf  == s.back
           nb  == NextBuf(s.back)
           nm  == [[r.name EXCEPT ![f] = nf] EXCEPT ![b] = nb]
           usr == [i \in Buf |-> IF i = nb THEN b ELSE IF i = nf THEN f
                                 ELSE IF i = s.front THEN NoBuffer ELSE r.user[i]]
           t   == [r EXCEPT !.front = nf, !.back = nb, !.name = nm, !.user = usr]
<1>1. ExchangeBufs(s, f, b) = t
  BY DEF ExchangeBufs
<1>2. /\ r \in FlipState /\ SameOwnership(s, r)
      /\ r.server = "up" => s.name[f] = s.front /\ s.name[b] = s.back /\ s.server = "up"
  BY RequireType, RequireSame
<1>3. /\ s.user \in [Buf -> DRI2Buffer \cup {NoBuffer}] /\ s.held \in SUBSET DRI2Buffer
      /\ s.name \in [DRI2Buffer -> Buf \cup {Private, Gone}] /\ s.front \in Buf /\ s.back \in Buf
  BY DEF FlipState
<1>4. nb \in Buf /\ (NumBufs >= 2 => nb # nf)
  BY <1>3, NextBufType
<1>5. f # b /\ f \in DRI2Buffer /\ b \in DRI2Buffer
  BY <1>3
<1>6. nm[f] = nf /\ nm[b] = nb /\ \A c \in DRI2Buffer : c \notin {f, b} => nm[c] = s.name[c]
  BY <1>2, <1>3, <1>5 DEF SameOwnership
<1>7. \A i \in Buf : usr[i] = IF i = nb THEN b ELSE IF i = nf THEN f
                              ELSE IF i = s.front THEN NoBuffer ELSE s.user[i]
  BY <1>2 DEF SameOwnership
<1> HIDE DEF r, nm, usr, nb
<1>8. /\ t.front = nf /\ t.back = nb /\ t.owner = r.owner /\ t.server = r.server
      /\ t.held = r.held /\ t.user = usr /\ t.got = r.got /\ t.name = nm
  BY <1>2 DEF FlipState
<1> HIDE DEF t
<1>9. t.owner = s.owner /\ t.held = s.held /\ t.got \subseteq s.got
  BY <1>2, <1>8 DEF SameOwnership
<1>10. ASSUME t.server = "up" PROVE Agrees(t, {})
  <2>1. Agrees(s, {}) /\ s.name[f] = s.front /\ s.name[b] = s.back
    BY <1>2, <1>8, <1>10 DEF Good
  <2>2. s.user[s.front] = f /\ s.user[s.back] = b
    BY <1>3, <2>1 DEF Agrees
  <2>3. NumBufs >= 2
    <3>1. f # NoBuffer
      BY <1>5, NoBufferType
    <3> QED  BY <1>3, <2>1, <2>2, <3>1 DEF Agrees
  <2>4. f[1] = s.owner /\ b[1] = s.owner
    BY <1>3, <1>5, <2>1, <2>2, NoBufferType DEF Agrees
  <2>5. \A i \in Buf : usr[i] # NoBuffer => (i = nb /\ usr[i] = b) \/ (i = nf /\ usr[i] = f)
    <3>1. \A i \in Buf : s.user[i] # NoBuffer => i \in {s.front, s.back}
      BY <2>1 DEF Agrees, IdxOf
    <3> QED  BY <1>7, <3>1
  <2>6. IdxOf(t, "front") = nf /\ IdxOf(t, "back") = nb
    BY <1>8 DEF IdxOf
  <2>7. \A i \in Buf : t.user[i] # NoBuffer =>
          /\ t.user[i] \in t.held /\ t.user[i][1] = t.owner
          /\ IdxOf(t, t.user[i][2]) = i /\ t.name[t.user[i]] = i
    <3> SUFFICES ASSUME NEW i \in Buf, usr[i] # NoBuffer
                 PROVE  /\ usr[i] \in t.held /\ usr[i][1] = t.owner
                        /\ IdxOf(t, usr[i][2]) = i /\ t.name[usr[i]] = i
      BY <1>8
    <3>1. CASE i = nb /\ usr[i] = b
      BY <1>6, <1>8, <1>9, <2>4, <2>6, <3>1
    <3>2. CASE i = nf /\ usr[i] = f
      BY <1>6, <1>8, <1>9, <2>4, <2>6, <3>2
    <3> QED  BY <2>5, <3>1, <3>2
  <2>8. \A c \in t.held : t.name[c] \in Buf => t.user[t.name[c]] = c
    <3> SUFFICES ASSUME NEW c \in s.held, nm[c] \in Buf PROVE usr[nm[c]] = c
      BY <1>8, <1>9
    <3>1. CASE c = b
      BY <1>4, <1>6, <1>7, <3>1
    <3>2. CASE c = f
      BY <1>3, <1>4, <1>6, <1>7, <2>3, <3>2
    <3>3. CASE c \notin {f, b}
      <4>1. nm[c] = s.name[c] /\ s.user[s.name[c]] = c /\ c # NoBuffer
        BY <1>3, <1>6, <2>1, <3>3, NoBufferType DEF Agrees
      <4>2. s.name[c] \in {s.front, s.back}
        BY <2>1, <3>3, <4>1 DEF Agrees, IdxOf
      <4> QED  BY <2>2, <3>3, <4>1, <4>2
    <3> QED  BY <3>1, <3>2, <3>3
  <2>9. t.front # t.back /\ t.got \subseteq t.held
    BY <1>4, <1>8, <1>9, <2>1, <2>3 DEF Agrees
  <2> QED  BY <2>3, <2>7, <2>8, <2>9 DEF Agrees
<1> QED  BY <1>1, <1>9, <1>10 DEF Good

(* A drawable moves in and its reservation ends, before the exchange. *)
LEMMA PrepareFlipGood ==
  ASSUME NEW s \in FlipState, NEW draw \in Drawables, NEW f \in s.held, NEW b \in s.held,
         Good(s, {}), NumBufs >= 2, f[1] = draw, b[1] = draw, f[2] = "front", b[2] = "back",
         \A c, d \in s.held : c[1] = d[1] /\ c[2] = d[2] => c = d
  PROVE  /\ Good(PrepareFlip(s, draw, f, b), {})
         /\ PrepareFlip(s, draw, f, b).held = s.held
<1> DEFINE a == Require(s, s.owner \in {NoDraw, draw} \/ s.back \notin s.reserved)
           t == TakeOver(a, draw)
           g == GetSysBuf(t, f)
           h == GetSysBuf(g, b)
           m == IF s.owner = draw THEN s ELSE Reserve(h, b)
           q == Require(m, b \in m.got /\ m.front \notin m.reserved /\ m.back \in m.reserved)
           p == [q EXCEPT !.got = @ \ {b}, !.reserved = @ \ {m.back}]
<1>1. f \in DRI2Buffer /\ b \in DRI2Buffer
  BY DEF FlipState
<1>2. a \in FlipState /\ Good(a, {}) /\ a.held = s.held
  <2>1. a \in FlipState /\ SameOwnership(s, a)
    BY RequireType, RequireSame
  <2> HIDE DEF a
  <2> QED  BY <2>1, SameGood DEF SameOwnership
<1> HIDE DEF a
<1>3. t \in FlipState /\ Good(t, {}) /\ t.owner = draw /\ t.held = s.held
  BY <1>2, TakeOverType, TakeOverGood
<1> HIDE DEF t
<1>4. g \in FlipState /\ Good(g, {}) /\ g.held = s.held /\ g.owner = draw
  <2>1. \A c \in t.held \ {} : c[1] = f[1] /\ c[2] = f[2] => c = f
    BY <1>3
  <2>2. f \in t.held /\ f[1] = t.owner
    BY <1>3
  <2> QED  BY <1>1, <1>3, <2>1, <2>2, GetSysBufType, GetSysBufGood
<1> HIDE DEF g
<1>5. h \in FlipState /\ Good(h, {}) /\ h.held = s.held
  <2>1. \A c \in g.held \ {} : c[1] = b[1] /\ c[2] = b[2] => c = b
    BY <1>4
  <2>2. b \in g.held /\ b[1] = g.owner
    BY <1>4
  <2> QED  BY <1>1, <1>4, <2>1, <2>2, GetSysBufType, GetSysBufGood
<1> HIDE DEF h
<1>6. m \in FlipState /\ Good(m, {}) /\ m.held = s.held
  BY <1>1, <1>5, ReserveType, ReserveGood
<1>7. PrepareFlip(s, draw, f, b) = p
  BY DEF PrepareFlip, a, t, g, h
<1> HIDE DEF m
<1>8. q \in FlipState /\ SameOwnership(m, q)
  BY <1>6, RequireType, RequireSame
<1> HIDE DEF q
<1>9. SameOwnership(q, p)
  BY <1>8 DEF SameOwnership, FlipState
<1> HIDE DEF p
<1>10. Good(q, {}) /\ q.held = s.held
  BY <1>6, <1>8, SameGood DEF SameOwnership
<1>11. Good(p, {}) /\ p.held = q.held
  BY <1>9, <1>10, SameGood DEF SameOwnership
<1> QED  BY <1>7, <1>10, <1>11

(* A reservation ends with a copy. *)
LEMMA EndReservationSame ==
  ASSUME NEW s \in FlipState, NEW draw, NEW b
  PROVE  SameOwnership(s, EndReservation(s, draw, b))
<1> DEFINE r == Require(s, s.front \notin s.reserved /\ s.back \in s.reserved)
           a == IF s.owner = draw THEN [r EXCEPT !.reserved = @ \ {s.back}] ELSE s
           q == Require(a, b \in a.got)
           p == [q EXCEPT !.got = @ \ {b}]
<1>1. r \in FlipState /\ SameOwnership(s, r)
  BY RequireType, RequireSame
<1>2. EndReservation(s, draw, b) = p
  BY DEF EndReservation
<1> HIDE DEF r
<1>3. a \in FlipState /\ SameOwnership(s, a)
  <2>1. r.reserved \ {s.back} \in SUBSET Buf
    BY <1>1 DEF FlipState
  <2>2. [r EXCEPT !.reserved = @ \ {s.back}] \in FlipState
    BY <1>1, <2>1, FieldTypes
  <2>3. SameOwnership(r, [r EXCEPT !.reserved = @ \ {s.back}])
    BY <1>1 DEF SameOwnership, FlipState
  <2> QED  BY <1>1, <2>2, <2>3 DEF SameOwnership
<1> HIDE DEF a
<1>4. q \in FlipState /\ SameOwnership(a, q)
  BY <1>3, RequireType, RequireSame
<1> HIDE DEF q
<1>5. SameOwnership(q, p)
  BY <1>4 DEF SameOwnership, FlipState
<1> HIDE DEF p
<1> QED  BY <1>2, <1>3, <1>4, <1>5 DEF SameOwnership

-----------------------------------------------------------------------------
(***************************************************************************)
(* The DRI2 hooks move nothing in the ring: neither the indices, nor the   *)
(* busy flags, nor the counters, nor the pixmaps.  A server that crashed   *)
(* stays down.                                                             *)
(***************************************************************************)
SameRing(s, t) ==
  /\ t.front = s.front /\ t.back = s.back /\ t.busy = s.busy
  /\ t.completes = s.completes /\ t.flips = s.flips /\ t.pixmaps = s.pixmaps
  /\ t.server = "up" => s.server = "up"
  /\ s.server = "segfault" => t.server = "segfault"

(* Two steps that move nothing in the ring are one. *)
LEMMA SameRingTransitive ==
  ASSUME NEW s, NEW t, NEW u, SameRing(s, t), SameRing(t, u)
  PROVE  SameRing(s, u)
BY DEF SameRing

(* An assertion does not, *)
LEMMA RequireRing ==
  ASSUME NEW s \in FlipState, NEW cond
  PROVE  SameRing(s, Require(s, cond)) /\ (Require(s, cond).server = "up" => cond)
BY DEF Require, SameRing, FlipState

(* nor do the other fields, *)
LEMMA OtherFieldsRing ==
  ASSUME NEW s \in FlipState
  PROVE  /\ \A o : SameRing(s, [s EXCEPT !.owner = o])
         /\ \A v : SameRing(s, [s EXCEPT !.reserved = v])
         /\ \A g : SameRing(s, [s EXCEPT !.got = g])
         /\ \A h, g : SameRing(s, [s EXCEPT !.held = h, !.got = g])
         /\ \A u, h, g, n :
              SameRing(s, [s EXCEPT !.user = u, !.held = h, !.got = g, !.name = n])
BY DEF SameRing, FlipState

(* nor do the hooks that these are made of, *)
LEMMA HookPartsRing ==
  ASSUME NEW s \in FlipState, NEW b \in DRI2Buffer, NEW draw \in Drawables
  PROVE  /\ SameRing(s, GetNonSysBuf(s, b)) /\ SameRing(s, GetSysBuf(s, b))
         /\ SameRing(s, Reserve(s, b)) /\ SameRing(s, HandOut(s, b))
         /\ SameRing(s, MigrateFromFs(s)) /\ SameRing(s, TakeOver(s, draw))
<1>1. SameRing(s, s)
  BY DEF SameRing
<1>2. SameRing(s, GetNonSysBuf(s, b)) /\ SameRing(s, GetSysBuf(s, b))
  BY DEF GetNonSysBuf, GetSysBuf, SameRing, FlipState
<1>3. SameRing(s, Reserve(s, b)) /\ SameRing(s, HandOut(s, b))
  BY <1>1, OtherFieldsRing DEF Reserve, HandOut
<1>4. SameRing(s, MigrateFromFs(s))
  <2> DEFINE f == s.user[s.front]
             c == s.user[s.back]
             r == Require(s, f[2] = "front" /\ c[2] = "back" /\ s.front \notin s.reserved)
  <2>1. CASE NoBuffer \in {f, c}
    BY <2>1 DEF MigrateFromFs, SameRing, FlipState
  <2>2. CASE NoBuffer \notin {f, c}
    <3>1. r \in FlipState /\ SameRing(s, r)
      BY RequireType, RequireRing
    <3>2. PICK n, v, u, o :
            MigrateFromFs(s) = [r EXCEPT !.name = n, !.reserved = v, !.user = u, !.owner = o]
      BY <2>2 DEF MigrateFromFs
    <3> HIDE DEF r
    <3>3. SameRing(r, MigrateFromFs(s))
      BY <3>1, <3>2 DEF SameRing, FlipState
    <3> QED  BY <3>1, <3>3, SameRingTransitive
  <2> QED  BY <2>1, <2>2
<1>5. SameRing(s, TakeOver(s, draw))
  <2> DEFINE m == IF s.owner \in {NoDraw, draw} THEN s ELSE MigrateFromFs(s)
  <2>1. m \in FlipState /\ SameRing(s, m)
    BY <1>1, <1>4, MigrateFromFsType
  <2>2. TakeOver(s, draw) = [m EXCEPT !.owner = draw]
    BY DEF TakeOver
  <2> HIDE DEF m
  <2>3. SameRing(m, TakeOver(s, draw))
    BY <2>1, <2>2, OtherFieldsRing
  <2> QED  BY <2>1, <2>3, SameRingTransitive
<1> QED  BY <1>2, <1>3, <1>4, <1>5

(* nor the hooks themselves: create_buf, *)
LEMMA CreateBufRing ==
  ASSUME NEW s \in FlipState, NEW b \in DRI2Buffer, NEW canFlip
  PROVE  SameRing(s, CreateBuf(s, b, canFlip))
<1> DEFINE n == [s EXCEPT !.held = @ \cup {b}, !.got = @ \ {b}]
           t == TakeOver(n, b[1])
           g == GetSysBuf(t, b)
           r == Reserve(g, b)
           p == GetNonSysBuf(n, b)
<1>1. n \in FlipState /\ b[1] \in Drawables /\ SameRing(s, n)
  BY OtherFieldsRing DEF FlipState, DRI2Buffer
<1>2. CreateBuf(s, b, canFlip) = HandOut(IF PageFlipPossible(n, b[1], canFlip) THEN r ELSE p, b)
  BY DEF CreateBuf
<1> HIDE DEF n
<1>3. t \in FlipState /\ SameRing(n, t)
  BY <1>1, TakeOverType, HookPartsRing
<1>4. p \in FlipState /\ SameRing(n, p)
  BY <1>1, GetNonSysBufType, HookPartsRing
<1> HIDE DEF t, p
<1>5. g \in FlipState /\ SameRing(t, g)
  BY <1>1, <1>3, GetSysBufType, HookPartsRing
<1> HIDE DEF g
<1>6. r \in FlipState /\ SameRing(g, r)
  BY <1>1, <1>5, ReserveType, HookPartsRing
<1> HIDE DEF r
<1>7. SameRing(s, r) /\ SameRing(s, p)
  BY <1>1, <1>3, <1>4, <1>5, <1>6, SameRingTransitive
<1>8. SameRing(r, HandOut(r, b)) /\ SameRing(p, HandOut(p, b))
  BY <1>1, <1>4, <1>6, HookPartsRing
<1> QED  BY <1>2, <1>7, <1>8, SameRingTransitive

(* reuse_buf, *)
LEMMA ReuseBufRing ==
  ASSUME NEW s \in FlipState, NEW b \in DRI2Buffer, NEW canFlip
  PROVE  SameRing(s, LeaveIfNotCapable(s, b, canFlip)) /\ SameRing(s, ReuseBuf(s, b, canFlip))
<1> DEFINE m == LeaveIfNotCapable(s, b, canFlip)
           t == TakeOver(m, b[1])
           g == IF IsFs(t, b) THEN t ELSE GetSysBuf(t, b)
           r == Reserve(g, b)
<1>1. b[1] \in Drawables /\ m \in FlipState
  BY LeaveType DEF DRI2Buffer
<1>2. SameRing(s, m)
  <2> DEFINE q == Require(s, IsFs(s, b))
  <2>1. q \in FlipState /\ SameRing(s, q) /\ SameRing(s, s)
    BY RequireType, RequireRing DEF SameRing
  <2>2. m \in {s, MigrateFromFs(q)}
    BY DEF LeaveIfNotCapable
  <2> HIDE DEF q, m
  <2>3. SameRing(q, MigrateFromFs(q))
    BY <1>1, <2>1, HookPartsRing
  <2> QED  BY <2>1, <2>2, <2>3, SameRingTransitive
<1>3. ReuseBuf(s, b, canFlip) = HandOut(IF PageFlipPossible(m, b[1], canFlip) THEN r ELSE m, b)
  BY DEF ReuseBuf
<1> HIDE DEF m
<1>4. t \in FlipState /\ SameRing(m, t)
  BY <1>1, TakeOverType, HookPartsRing
<1> HIDE DEF t
<1>5. g \in FlipState /\ SameRing(t, g)
  BY <1>1, <1>4, GetSysBufType, HookPartsRing DEF SameRing
<1> HIDE DEF g
<1>6. r \in FlipState /\ SameRing(g, r)
  BY <1>1, <1>5, ReserveType, HookPartsRing
<1> HIDE DEF r
<1>7. SameRing(s, r)
  BY <1>2, <1>4, <1>5, <1>6, SameRingTransitive
<1>8. SameRing(r, HandOut(r, b)) /\ SameRing(m, HandOut(m, b))
  BY <1>1, <1>6, HookPartsRing
<1> QED  BY <1>2, <1>3, <1>7, <1>8, SameRingTransitive DEF m

(* destroy_buf, *)
LEMMA DestroyBufRing ==
  ASSUME NEW s \in FlipState, NEW b \in DRI2Buffer
  PROVE  SameRing(s, DestroyBuf(s, b))
<1> DEFINE at == {i \in {s.front, s.back} : s.owner = b[1] /\ s.user[i] = b}
           r  == Require(s, s.front \in at => s.front \notin s.reserved)
<1>1. r \in FlipState /\ SameRing(s, r)
  BY RequireType, RequireRing
<1>2. PICK u, v, o :
        DestroyBuf(s, b) = [r EXCEPT !.user = u, !.reserved = v, !.owner = o,
                                     !.held = @ \ {b}, !.got = @ \ {b}, !.name[b] = Private]
  <2>1. \A u, v : /\ [r EXCEPT !.user = u].reserved = r.reserved
                  /\ [r EXCEPT !.user = u, !.reserved = v].owner = r.owner
    <3> HIDE DEF r
    <3> QED  BY <1>1 DEF FlipState
  <2> QED  BY <2>1 DEF DestroyBuf
<1> HIDE DEF r
<1>3. SameRing(r, DestroyBuf(s, b))
  BY <1>1, <1>2 DEF SameRing, FlipState
<1> QED  BY <1>1, <1>3, SameRingTransitive

(* schedule_swap before the flip is submitted, *)
LEMMA PrepareFlipRing ==
  ASSUME NEW s \in FlipState, NEW draw \in Drawables,
         NEW f \in DRI2Buffer, NEW b \in DRI2Buffer
  PROVE  SameRing(s, PrepareFlip(s, draw, f, b))
<1> DEFINE a == Require(s, s.owner \in {NoDraw, draw} \/ s.back \notin s.reserved)
           t == TakeOver(a, draw)
           g == GetSysBuf(t, f)
           h == GetSysBuf(g, b)
           m == IF s.owner = draw THEN s ELSE Reserve(h, b)
           q == Require(m, b \in m.got /\ m.front \notin m.reserved /\ m.back \in m.reserved)
<1>1. a \in FlipState /\ SameRing(s, a)
  BY RequireType, RequireRing
<1>2. PrepareFlip(s, draw, f, b) = [q EXCEPT !.got = @ \ {b}, !.reserved = @ \ {m.back}]
  BY DEF PrepareFlip
<1> HIDE DEF a
<1>3. t \in FlipState /\ SameRing(a, t)
  BY <1>1, TakeOverType, HookPartsRing
<1> HIDE DEF t
<1>4. g \in FlipState /\ SameRing(t, g)
  BY <1>3, GetSysBufType, HookPartsRing
<1> HIDE DEF g
<1>5. h \in FlipState /\ SameRing(g, h)
  BY <1>4, GetSysBufType, HookPartsRing
<1> HIDE DEF h
<1>6. m \in FlipState /\ SameRing(s, m)
  <2>1. Reserve(h, b) \in FlipState /\ SameRing(h, Reserve(h, b)) /\ SameRing(s, s)
    BY <1>5, ReserveType, HookPartsRing DEF SameRing
  <2> QED  BY <1>1, <1>3, <1>4, <1>5, <2>1, SameRingTransitive
<1> HIDE DEF m
<1>7. q \in FlipState /\ SameRing(m, q)
  BY <1>6, RequireType, RequireRing
<1> HIDE DEF q
<1>8. SameRing(q, PrepareFlip(s, draw, f, b))
  <2>1. PICK x, y : PrepareFlip(s, draw, f, b) = [q EXCEPT !.got = x, !.reserved = y]
    BY <1>2
  <2> QED  BY <1>7, <2>1 DEF SameRing, FlipState
<1> QED  BY <1>6, <1>7, <1>8, SameRingTransitive

(* and a swap by a copy. *)
LEMMA EndReservationRing ==
  ASSUME NEW s \in FlipState, NEW draw, NEW b \in DRI2Buffer
  PROVE  SameRing(s, EndReservation(s, draw, b))
<1> DEFINE q == Require(s, s.front \notin s.reserved /\ s.back \in s.reserved)
           a == IF s.owner = draw THEN [q EXCEPT !.reserved = @ \ {s.back}] ELSE s
           r == Require(a, b \in a.got)
<1>1. q \in FlipState /\ SameRing(s, q) /\ SameRing(s, s)
  BY RequireType, RequireRing DEF SameRing
<1>2. EndReservation(s, draw, b) = [r EXCEPT !.got = @ \ {b}]
  BY DEF EndReservation
<1> HIDE DEF q
<1>3. a \in FlipState /\ SameRing(s, a)
  <2>1. [q EXCEPT !.reserved = @ \ {s.back}] \in FlipState
    BY <1>1 DEF FlipState
  <2>2. SameRing(q, [q EXCEPT !.reserved = @ \ {s.back}])
    BY <1>1, OtherFieldsRing
  <2> QED  BY <1>1, <2>1, <2>2, SameRingTransitive
<1> HIDE DEF a
<1>4. r \in FlipState /\ SameRing(a, r)
  BY <1>3, RequireType, RequireRing
<1> HIDE DEF r
<1>5. SameRing(r, EndReservation(s, draw, b))
  BY <1>2, <1>4, OtherFieldsRing
<1> QED  BY <1>3, <1>4, <1>5, SameRingTransitive

-----------------------------------------------------------------------------
(* The steps of SwapQueue. *)


(* The buffer the DRI2 module keeps for a drawable is a buffer or none. *)
LEMMA BufferOfType ==
  \A s, draw, att : draw \in Drawables /\ att \in Attachment =>
    BufferOf(s, draw, att) \in DRI2Buffer \cup {NoBuffer}
BY DEF BufferOf, DRI2Buffer

(* A buffer that is created or reused leaves a state of its type. *)
LEMMA ProvideType ==
  ASSUME NEW s \in FlipState, NEW draw \in Drawables, NEW att \in Attachment,
         NEW resized
  PROVE  Provide(s, draw, att, resized) \in FlipState
<1>1. <<draw, att, 0>> \in DRI2Buffer /\ <<draw, att, 1>> \in DRI2Buffer
  BY DEF DRI2Buffer
<1> QED
  BY <1>1, BufferOfType, CreateBufType, ReuseBufType DEF Provide

(* So does a buffer that is destroyed, *)
LEMMA DropBufType ==
  ASSUME NEW s \in FlipState, NEW b
  PROVE  DropBuf(s, b) \in FlipState
BY DestroyBufType DEF DropBuf, FlipState

(* all those that a request for buffers drops, *)
LEMMA DropOldType ==
  ASSUME NEW s \in FlipState, NEW draw, NEW keepBack, NEW resized
  PROVE  DropOld(s, draw, keepBack, resized) \in FlipState
BY DropBufType DEF DropOld

(* and the new buffers that take the place of the old. *)
LEMMA SettleType ==
  ASSUME NEW s \in FlipState, NEW draw \in Drawables
  PROVE  Settle(s, draw) \in FlipState
<1> DEFINE Now(b) == IF b # NoBuffer /\ b[1] = draw THEN <<draw, b[2], 0>> ELSE b
           new    == {b \in s.held : b[1] = draw /\ b[3] = 1}
           us     == [i \in Buf |-> Now(s.user[i])]
           hd     == {Now(b) : b \in s.held}
           gt     == {Now(b) : b \in s.got}
           nm     == [b \in DRI2Buffer |->
                        IF b \in new THEN Private
                        ELSE IF <<b[1], b[2], 1>> \in new THEN s.name[<<b[1], b[2], 1>>]
                        ELSE s.name[b]]
<1>1. Settle(s, draw) = [s EXCEPT !.user = us, !.held = hd, !.got = gt, !.name = nm]
  <2>1. \A u, v, w :
          LET r1 == [s EXCEPT !.user = u]
              r2 == [r1 EXCEPT !.held = v]
              r3 == [r2 EXCEPT !.got = w]
          IN  r1.held = s.held /\ r2.got = s.got /\ r3.name = s.name
    BY DEF FlipState
  <2> QED  BY <2>1 DEF Settle
<1>2. \A b \in DRI2Buffer : Now(b) \in DRI2Buffer /\ <<b[1], b[2], 1>> \in DRI2Buffer
  BY DEF DRI2Buffer
<1>3. Now(NoBuffer) = NoBuffer
  OBVIOUS
<1>4. /\ s.user \in [Buf -> DRI2Buffer \cup {NoBuffer}]
      /\ s.held \in SUBSET DRI2Buffer /\ s.got \in SUBSET DRI2Buffer
  BY DEF FlipState
<1> HIDE DEF Now
<1>5. us \in [Buf -> DRI2Buffer \cup {NoBuffer}]
  BY <1>2, <1>3, <1>4
<1>6. hd \in SUBSET DRI2Buffer /\ gt \in SUBSET DRI2Buffer
  BY <1>2, <1>4
<1>7. nm \in [DRI2Buffer -> Buf \cup {Private, Gone}]
  BY <1>2 DEF FlipState
<1> HIDE DEF us, hd, gt, nm
<1> DEFINE r1 == [s EXCEPT !.user = us]
           r2 == [r1 EXCEPT !.held = hd]
           r3 == [r2 EXCEPT !.got = gt]
           r4 == [r3 EXCEPT !.name = nm]
<1>8. r1 \in FlipState  BY <1>5, FieldTypes
<1> HIDE DEF r1
<1>9. r2 \in FlipState  BY <1>6, <1>8, FieldTypes
<1> HIDE DEF r2
<1>10. r3 \in FlipState  BY <1>6, <1>9, FieldTypes
<1> HIDE DEF r3
<1>11. r4 \in FlipState  BY <1>7, <1>10, FieldTypes
<1> QED  BY <1>1, <1>11 DEF r1, r2, r3

(* A search of the queue finds a request or nothing. *)
LEMMA FirstInType ==
  ASSUME NEW q \in Seq(ReqIds), NEW S
  PROVE  FirstIn(q, S) \in ReqIds \cup {0}
BY DEF FirstIn

(* So do the searches of sgx_dri2.c. *)
LEMMA FindTypes ==
  ASSUME NEW rs, NEW q \in Seq(ReqIds), NEW r
  PROVE  /\ FindNextFlip(rs, q, r) \in ReqIds \cup {0}
         /\ FindFirstPendingFlip(rs, q) \in ReqIds \cup {0}
BY FirstInType DEF FindNextFlip, FindFirstPendingFlip

(* A request that is unlinked leaves a queue of requests. *)
LEMMA UnlinkType ==
  ASSUME NEW q \in Seq(ReqIds), NEW id
  PROVE  Unlink(q, id) \in Seq(ReqIds)
<1> DEFINE at == {i \in DOMAIN q : q[i] = id}
           i  == CHOOSE i \in at : TRUE
<1>1. CASE at = {}
  BY <1>1 DEF Unlink
<1>2. CASE at # {}
  <2>1. i \in 1 .. Len(q)
    BY <1>2
  <2> HIDE DEF i
  <2>2. SubSeq(q, 1, i - 1) \in Seq(ReqIds) /\ SubSeq(q, i + 1, Len(q)) \in Seq(ReqIds)
    BY <2>1, SubSeqProperties
  <2>3. SubSeq(q, 1, i - 1) \o SubSeq(q, i + 1, Len(q)) \in Seq(ReqIds)
    BY <2>2, ConcatProperties
  <2> QED  BY <1>2, <2>3 DEF Unlink, i
<1> QED  BY <1>1, <1>2

(* calloc returns the address of a free request. *)
LEMMA NewIdType == Free # {} => NewId \in ReqIds
BY DEF NewId, Free

(* Where there is room some request is free. *)
LEMMA RoomFree == Room => Free # {}
BY FS_EmptySet DEF Room

(* What is pushed on the stack is a call. *)
LEMMA FrameTypes ==
  /\ \A f \in {"sync_handler", "flip_swap_req", "flip_handler", "flip_done"}, id \in ReqIds :
       Call(f, id) \in Frame
  /\ \A region \in SUBSET Areas : Damage(region) \in Frame
BY DEF Call, Damage, Frame

(* Calls are pushed on, and the innermost one returns from, the stack. *)
LEMMA StackTypes ==
  ASSUME NEW st \in Seq(Frame), st # <<>>
  PROVE  /\ Tail(st) \in Seq(Frame)
         /\ Head(st) \in Frame
         /\ \A f \in Frame : <<f>> \o Tail(st) \in Seq(Frame)
         /\ \A f, g \in Frame : <<f>> \o <<g>> \o Tail(st) \in Seq(Frame)
         /\ \A g \in Frame : <<>> \o <<g>> \o Tail(st) \in Seq(Frame)
<1>1. Tail(st) \in Seq(Frame) /\ Head(st) \in Frame
  BY HeadTailProperties
<1>2. \A f \in Frame : <<f>> \in Seq(Frame)
  OBVIOUS
<1>3. <<>> \in Seq(Frame)
  OBVIOUS
<1> QED  BY <1>1, <1>2, <1>3, ConcatProperties

(* The arguments of the handler that runs. *)
LEMMA RunningFrame ==
  ASSUME stack \in Seq(Frame), NEW call, Running(call)
  PROVE  /\ stack # <<>>
         /\ call # "schedule_damage" => Head(stack).id \in ReqIds
         /\ call = "schedule_damage" => Head(stack).region \in SUBSET Areas
<1>1. stack # <<>> /\ Head(stack).call = call
  BY DEF Running
<1>2. Head(stack) \in Frame
  BY <1>1, HeadTailProperties
<1> QED  BY <1>1, <1>2 DEF Frame

(* A request may be replaced by another one. *)
LEMMA WithReqType ==
  ASSUME reqs \in [ReqIds -> SwapRequest], NEW id \in ReqIds, NEW r \in SwapRequest
  PROVE  WithReq(id, r) \in [ReqIds -> SwapRequest]
BY DEF WithReq

(* A request that is not allocated has the type of a request. *)
LEMMA FreeRequestType == FreeRequest \in SwapRequest
BY DEF FreeRequest, SwapRequest

(* A change of these fields keeps a request a request. *)
LEMMA RequestFieldTypes ==
  ASSUME NEW r \in SwapRequest
  PROVE  /\ [r EXCEPT !.rendered = TRUE] \in SwapRequest
         /\ [r EXCEPT !.completed = TRUE] \in SwapRequest
         /\ [r EXCEPT !.dead = TRUE] \in SwapRequest
         /\ \A x \in BOOLEAN : [r EXCEPT !.completed = x] \in SwapRequest
         /\ \A x \in Int : [r EXCEPT !.num = x] \in SwapRequest
         /\ \A x \in Int : [r EXCEPT !.issued = TRUE, !.num = x] \in SwapRequest
         /\ \A x \in Int : [r EXCEPT !.num = x, !.flipped = TRUE] \in SwapRequest
         /\ \A x \in SUBSET Areas : [r EXCEPT !.region = x] \in SwapRequest
BY DEF SwapRequest

(* The driver starts in a state of its type. *)
LEMMA InitType == Init => TypeOK
<1> SUFFICES ASSUME Init PROVE TypeOK
  OBVIOUS
<1>1. 0 \in Buf /\ NoScan \notin Buf
  BY FlipAssumption DEF Buf, NoScan
<1> QED
  BY <1>1, FreshFlipType, FreeRequestType DEF Init, TypeOK

-----------------------------------------------------------------------------
(* Every request, handler and event preserves the type: GetBuffers, *)
LEMMA GetBuffersType ==
  ASSUME TypeOK, NEW draw \in Drawables, NEW resized,
         GetBuffers(draw, resized) \/ GetFrontBuffer(draw, resized)
  PROVE  TypeOK'
<1>1. pf' \in FlipState
  BY ProvideType, DropOldType, SettleType DEF TypeOK, GetBuffers, GetFrontBuffer, Attachment
<1> QED  BY <1>1 DEF TypeOK, GetBuffers, GetFrontBuffer

(* a window that becomes fullscreen, *)
LEMMA SetFullscreenType ==
  ASSUME TypeOK, NEW draw \in Drawables \cup {NoDraw}, SetFullscreen(draw)
  PROVE  TypeOK'
BY DEF TypeOK, SetFullscreen

(* a window that is destroyed, *)
LEMMA DestroyDrawableType ==
  ASSUME TypeOK, NEW draw \in Drawables, DestroyDrawable(draw)
  PROVE  TypeOK'
<1>1. pf' \in FlipState
  BY DropBufType DEF TypeOK, DestroyDrawable
<1> QED  BY <1>1 DEF TypeOK, DestroyDrawable

(* a swap by copy, *)
LEMMA SwapByCopyType ==
  ASSUME TypeOK, NEW draw \in Drawables, SwapByCopy(draw)
  PROVE  TypeOK'
<1>1. BufferOf(pf, draw, "back") \in DRI2Buffer
  BY DEF TypeOK, SwapByCopy, Swappable, FlipState
<1>2. pf' \in FlipState
  BY <1>1, EndReservationType DEF TypeOK, SwapByCopy
<1>3. stack' \in Seq(Frame)
  BY FrameTypes DEF SwapByCopy
<1> QED  BY <1>2, <1>3 DEF TypeOK, SwapByCopy

(* drawing on the screen, *)
LEMMA DrawOnScreenType ==
  ASSUME TypeOK, NEW area \in Areas, DrawOnScreen(area)
  PROVE  TypeOK'
<1>1. stack' \in Seq(Frame)
  BY FrameTypes DEF DrawOnScreen
<1> QED  BY <1>1 DEF TypeOK, DrawOnScreen

(* the exchange of the buffers, *)
LEMMA SubmitType ==
  ASSUME NEW s \in FlipState, NEW f \in DRI2Buffer, NEW b \in DRI2Buffer
  PROVE  Submit(s, f, b) \in FlipState
<1> DEFINE r == Require(s, s.name[f] = s.front /\ s.name[b] = s.back /\ s.back \notin s.busy)
<1>1. r \in FlipState
  BY RequireType
<1> DEFINE r1 == [r EXCEPT !.busy = @ \cup {s.back}]
           r2 == [r1 EXCEPT !.completes = @ + 1]
<1>2. Submit(s, f, b) = ExchangeBufs(r2, f, b)
  BY DEF Submit
<1> HIDE DEF r
<1>3. r1 \in FlipState
  <2>1. r.busy \cup {s.back} \in SUBSET Buf
    BY <1>1 DEF FlipState
  <2> QED  BY <1>1, <2>1, FieldTypes
<1> HIDE DEF r1
<1>4. r2 \in FlipState
  <2>1. r1.completes + 1 \in Int
    BY <1>3 DEF FlipState
  <2> QED  BY <1>3, <2>1, FieldTypes
<1> HIDE DEF r2
<1> QED  BY <1>2, <1>4, ExchangeBufsType

(* a swap by page flip, *)
LEMMA SwapByFlipType ==
  ASSUME TypeOK, NEW draw \in Drawables, SwapByFlip(draw)
  PROVE  TypeOK'
<1> DEFINE f    == BufferOf(pf, draw, "front")
           b    == BufferOf(pf, draw, "back")
           sub  == Submit(PrepareFlip(pf, draw, f, b), f, b)
           now  == CompleteAtOnce(sub)
           done == IF now THEN [sub EXCEPT !.completes = @ - 1] ELSE sub
<1>1. f \in DRI2Buffer /\ b \in DRI2Buffer
  BY DEF TypeOK, SwapByFlip, Swappable, FlipState
<1>2. sub \in FlipState
  BY <1>1, PrepareFlipType, SubmitType DEF TypeOK
<1>3. now \in BOOLEAN
  BY DEF CompleteAtOnce
<1>4. /\ pf' = Require(done, done.completes < 2)
      /\ pending' = [pending EXCEPT ![draw] = IF now THEN @ ELSE @ + 1]
      /\ reqs' = WithReq(NewId, [NewFlip(draw) EXCEPT !.completed = now])
  BY DEF SwapByFlip
<1> HIDE DEF sub, now
<1>5. done \in FlipState
  BY <1>2 DEF FlipState
<1>6. pf' \in FlipState
  BY <1>4, <1>5, RequireType
<1>7. NewId \in ReqIds
  BY RoomFree, NewIdType DEF SwapByFlip
<1>8. NewFlip(draw) \in SwapRequest
  BY DEF NewFlip, SwapRequest, TypeOK, FlipState
<1>9. reqs' \in [ReqIds -> SwapRequest]
  BY <1>3, <1>4, <1>7, <1>8, RequestFieldTypes, WithReqType DEF TypeOK
<1>10. stack' \in Seq(Frame)
  <2>1. Call("sync_handler", NewId) \in Frame
    BY <1>7, FrameTypes
  <2>2. stack' = <<>> \/ stack' = <<Call("sync_handler", NewId)>>
    BY DEF SwapByFlip
  <2>3. <<>> \in Seq(Frame) /\ \A x \in Frame : <<x>> \in Seq(Frame)
    OBVIOUS
  <2> QED  BY <2>1, <2>2, <2>3, Zenon
<1>11. syncEv' \in SUBSET ReqIds /\ queue' \in Seq(ReqIds)
  BY <1>7, AppendProperties DEF SwapByFlip, TypeOK
<1>12. pending' \in [Drawables -> Int]
  BY <1>4 DEF TypeOK
<1> QED
  BY <1>6, <1>9, <1>10, <1>11, <1>12 DEF TypeOK, SwapByFlip

(* the end of a render, *)
LEMMA SyncHandlerType ==
  ASSUME TypeOK, SyncHandler
  PROVE  TypeOK'
<1> DEFINE id == Head(stack).id
           r  == reqs[id]
           rs == WithReq(id, [r EXCEPT !.rendered = TRUE])
<1>1. id \in ReqIds /\ stack # <<>>
  BY RunningFrame DEF SyncHandler, TypeOK
<1>2. pf' \in FlipState
  BY RequireType DEF SyncHandler, TypeOK
<1>3. rs \in [ReqIds -> SwapRequest] /\ WithoutReq(id) \in [ReqIds -> SwapRequest]
  BY <1>1, RequestFieldTypes, WithReqType, FreeRequestType DEF TypeOK, WithoutReq
<1>4. reqs' \in [ReqIds -> SwapRequest]
  BY <1>3 DEF SyncHandler
<1>5. stack' \in Seq(Frame)
  BY <1>1, StackTypes, FrameTypes DEF SyncHandler, TypeOK
<1> QED  BY <1>2, <1>4, <1>5 DEF TypeOK, SyncHandler

(* the assertions and counter of a flip, *)
LEMMA IssueFlipType ==
  ASSUME NEW s \in FlipState, NEW id
  PROVE  IssueFlip(s, id) \in FlipState
<1> DEFINE r == reqs[id]
           counts == r.update # SWAP_INVALID_IDX
           a == Require(s, /\ FindNextFlip(reqs, queue, r) = id
                           /\ r.rendered /\ ~r.flipped /\ ~r.issued
                           /\ counts => s.flips = 0)
<1>1. a \in FlipState
  BY RequireType
<1>2. IssueFlip(s, id) = IF counts THEN [a EXCEPT !.flips = @ + 1] ELSE a
  BY DEF IssueFlip
<1> HIDE DEF a, counts
<1>3. a.flips + 1 \in Int
  BY <1>1 DEF FlipState
<1> QED  BY <1>1, <1>2, <1>3, FieldTypes

(* the flip of a request, *)
LEMMA FlipSwapReqType ==
  ASSUME TypeOK, FlipSwapReq
  PROVE  TypeOK'
<1> DEFINE id     == Head(stack).id
           r      == reqs[id]
<1>1. id \in ReqIds /\ stack # <<>>
  BY RunningFrame DEF FlipSwapReq, TypeOK
<1>2. r \in SwapRequest
  BY <1>1 DEF TypeOK
<1>5. pf' \in FlipState
  BY IssueFlipType DEF TypeOK, FlipSwapReq
<1>6. pan' \in [Overlays -> Buf]
  BY <1>2 DEF FlipSwapReq, FlipCrtcs, TypeOK, SwapRequest
<1>7. stale' \in SUBSET Areas
  BY DEF FlipSwapReq, TypeOK
<1>8. PICK got \in SUBSET Awaited(r) :
        /\ flipEv' = [flipEv EXCEPT ![id] = got]
        /\ reqs' = WithReq(id, [r EXCEPT !.issued = TRUE,
                      !.num = IF got = {} THEN 1 ELSE Cardinality(got)])
        /\ stack' = IF got = {} THEN <<Call("flip_handler", id)>> \o Tail(stack)
                    ELSE Tail(stack)
  BY DEF FlipSwapReq
<1> HIDE DEF id, r
<1>9. got \in SUBSET Overlays
  BY DEF Awaited, TypeOK
<1>10. Cardinality(got) \in Int
  BY <1>9, SwapAssumption, FS_Subset, FS_CardinalityType
<1>11. reqs' \in [ReqIds -> SwapRequest]
  <2> DEFINE num == IF got = {} THEN 1 ELSE Cardinality(got)
  <2>1. num \in Int
    BY <1>10
  <2>2. reqs' = WithReq(id, [r EXCEPT !.issued = TRUE, !.num = num])
    BY <1>8
  <2> HIDE DEF num
  <2>3. [r EXCEPT !.issued = TRUE, !.num = num] \in SwapRequest
    BY <1>2, <2>1, RequestFieldTypes
  <2> QED  BY <1>1, <2>2, <2>3, WithReqType DEF TypeOK
<1>12. stack' \in Seq(Frame)
  BY <1>1, <1>8, StackTypes, FrameTypes DEF TypeOK
<1>13. flipEv' \in [ReqIds -> SUBSET Overlays]
  BY <1>8, <1>9 DEF TypeOK
<1> QED
  BY <1>5, <1>6, <1>7, <1>11, <1>12, <1>13 DEF TypeOK, FlipSwapReq

(* the assertions about a flip, *)
LEMMA FlipCheckedType ==
  ASSUME NEW s \in FlipState, NEW id
  PROVE  FlipChecked(s, id) \in FlipState
BY RequireType DEF FlipChecked

(* the handler of a flip event, *)
LEMMA FlipHandlerType ==
  ASSUME TypeOK, FlipHandler
  PROVE  TypeOK'
<1> DEFINE id   == Head(stack).id
           r    == reqs[id]
           upd  == r.update # SWAP_INVALID_IDX
           a    == FlipChecked(pf, id)
           free == ReleaseFront(a, r)
<1>1. id \in ReqIds /\ stack # <<>>
  <2>1. Running("flip_handler") /\ stack \in Seq(Frame)
    BY DEF FlipHandler, TypeOK
  <2> QED  BY <2>1, RunningFrame
<1>2. r \in SwapRequest
  BY <1>1 DEF TypeOK
<1>3. a \in FlipState
  BY FlipCheckedType DEF TypeOK
<1>4. free \in FlipState
  <2> HIDE DEF a, r
  <2>1. a.busy \ {r.front} \in SUBSET Buf
    BY <1>3 DEF FlipState
  <2> QED  BY <1>3, <2>1, FieldTypes DEF ReleaseFront
<1>5. [free EXCEPT !.flips = @ - 1] \in FlipState
  <2> HIDE DEF free
  <2>1. free.flips - 1 \in Int
    BY <1>4 DEF FlipState
  <2> QED  BY <1>4, <2>1, FieldTypes
<1>6. UNCHANGED <<fs, alive, pending, queue, syncEv, flipEv, on, pan>>
  BY DEF FlipHandler
<1>7. /\ WithoutReq(id) \in [ReqIds -> SwapRequest]
      /\ WithReq(id, [r EXCEPT !.num = @ - 1]) \in [ReqIds -> SwapRequest]
      /\ WithReq(id, [r EXCEPT !.num = 0, !.flipped = TRUE]) \in [ReqIds -> SwapRequest]
  <2>1. r.num - 1 \in Int
    BY <1>2 DEF SwapRequest
  <2> HIDE DEF id, r
  <2> DEFINE less == r.num - 1
  <2> HIDE DEF less
  <2>2. [r EXCEPT !.num = less] \in SwapRequest
    BY <1>2, <2>1, RequestFieldTypes DEF less
  <2>3. [r EXCEPT !.num = 0, !.flipped = TRUE] \in SwapRequest
    <3>1. 0 \in Int
      OBVIOUS
    <3>2. \A x \in Int : [r EXCEPT !.num = x, !.flipped = TRUE] \in SwapRequest
      BY <1>2, RequestFieldTypes
    <3> QED  BY <3>1, <3>2, Zenon
  <2>4. reqs \in [ReqIds -> SwapRequest]
    BY DEF TypeOK
  <2>5. WithoutReq(id) \in [ReqIds -> SwapRequest]
    BY <2>4, FreeRequestType DEF WithoutReq
  <2>6. WithReq(id, [r EXCEPT !.num = @ - 1]) = WithReq(id, [r EXCEPT !.num = less])
    BY DEF less
  <2>7. WithReq(id, [r EXCEPT !.num = less]) \in [ReqIds -> SwapRequest]
    BY <1>1, <2>2, <2>4, WithReqType, Zenon
  <2>8. WithReq(id, [r EXCEPT !.num = 0, !.flipped = TRUE]) \in [ReqIds -> SwapRequest]
    BY <1>1, <2>3, <2>4, WithReqType, Zenon
  <2> QED  BY <2>5, <2>6, <2>7, <2>8
<1>8. /\ Tail(stack) \in Seq(Frame)
      /\ (IF FlipDamages(r) THEN <<Damage(Areas)>> ELSE <<>>)
           \o <<Call("flip_done", id)>> \o Tail(stack) \in Seq(Frame)
  <2>1. Damage(Areas) \in Frame /\ Call("flip_done", id) \in Frame
    BY <1>1, FrameTypes
  <2> HIDE DEF id, r
  <2> QED  BY <1>1, <2>1, StackTypes DEF TypeOK
<1>9. UpdateOutputs \in [Overlays -> Buf \cup {NoScan}]
  BY DEF UpdateOutputs, TypeOK
<1>10. /\ stale \ r.region \in SUBSET Areas
       /\ stale \in SUBSET Areas
       /\ scan \in [Overlays -> Buf \cup {NoScan}]
       /\ pf \in FlipState
  BY DEF TypeOK
<1>11. /\ pf' \in FlipState
       /\ reqs' \in [ReqIds -> SwapRequest]
       /\ stack' \in Seq(Frame)
       /\ scan' \in [Overlays -> Buf \cup {NoScan}]
       /\ stale' \in SUBSET Areas
  <2>1. CASE ~LastEvent(r)
    BY <2>1, <1>7, <1>8, <1>10 DEF FlipHandler
  <2>2. CASE LastEvent(r) /\ r.dead
    BY <2>2, <1>3, <1>7, <1>8, <1>10 DEF FlipHandler
  <2>3. CASE LastEvent(r) /\ ~r.dead
    BY <2>3, <1>4, <1>5, <1>7, <1>8, <1>9, <1>10 DEF FlipHandler
  <2> QED  BY <2>1, <2>2, <2>3
<1> QED  BY <1>6, <1>11 DEF TypeOK

(* the completion of a swap, *)
LEMMA SwapCompleteType ==
  ASSUME TypeOK, NEW draws, SwapComplete(draws)
  PROVE  pending' \in [Drawables -> Int]
BY DEF TypeOK, SwapComplete

(* the end of that handler, *)
LEMMA FlipDoneType ==
  ASSUME TypeOK, FlipDone
  PROVE  TypeOK'
<1> DEFINE id   == Head(stack).id
           r    == reqs[id]
           c    == IF CompletesPending(r) THEN FindFirstPendingFlip(reqs, queue) ELSE 0
           rs   == [i \in ReqIds |->
                      IF i = id THEN FreeRequest
                      ELSE IF i = c THEN [reqs[i] EXCEPT !.completed = TRUE] ELSE reqs[i]]
           q    == Unlink(queue, id)
           next == FindNextFlip(rs, q, r)
           a    == Require(pf, /\ id \in {queue[i] : i \in DOMAIN queue}
                               /\ c # 0 => reqs[c].back = pf.front /\ ~reqs[c].dead)
<1>1. stack # <<>>
  BY RunningFrame DEF FlipDone, TypeOK
<1>2. q \in Seq(ReqIds)
  BY UnlinkType DEF TypeOK
<1>3. next \in ReqIds \cup {0}
  BY <1>2, FindTypes
<1>4. rs \in [ReqIds -> SwapRequest]
  <2> HIDE DEF id, c
  <2> QED  BY FreeRequestType, RequestFieldTypes DEF TypeOK
<1>5. a \in FlipState /\ pf \in FlipState
  BY RequireType DEF TypeOK
<1>6. [a EXCEPT !.completes = @ - 1] \in FlipState
  <2> HIDE DEF a
  <2>1. a.completes - 1 \in Int
    BY <1>5 DEF FlipState
  <2> QED  BY <1>5, <2>1, FieldTypes
<1>7. pf' \in FlipState
  BY <1>5, <1>6 DEF FlipDone
<1>8. pending' \in [Drawables -> Int]
  BY SwapCompleteType DEF FlipDone
<1>9. queue' = q /\ reqs' = rs
  BY DEF FlipDone
<1>10. stack' = IF next = 0 THEN Tail(stack) ELSE <<Call("flip_swap_req", next)>> \o Tail(stack)
  BY DEF FlipDone
<1> HIDE DEF next
<1>11. stack' \in Seq(Frame)
  BY <1>1, <1>3, <1>10, StackTypes, FrameTypes DEF TypeOK
<1>12. UNCHANGED <<fs, alive, syncEv, flipEv, on, pan, scan, stale>>
  BY DEF FlipDone
<1> HIDE DEF q, rs
<1> QED
  BY <1>2, <1>4, <1>7, <1>8, <1>9, <1>11, <1>12 DEF TypeOK

(* an update of the manual-update displays, *)
LEMMA ScheduleDamageType ==
  ASSUME TypeOK, ScheduleDamage
  PROVE  TypeOK'
<1> DEFINE region == Head(stack).region
           id     == MergeInto(region)
           new    == NewId
           rs     == WithReq(new, NewUpdate(region))
           q      == Append(queue, new)
<1>1. region \in SUBSET Areas /\ stack # <<>>
  BY RunningFrame DEF ScheduleDamage, TypeOK
<1>2. id \in ReqIds \cup {0}
  BY FirstInType DEF MergeInto, FindByUpdate, TypeOK
<1>3. NewUpdate(region) \in SwapRequest
  BY <1>1 DEF NewUpdate, SwapRequest, TypeOK, FlipState
<1>4. UNCHANGED <<pf, fs, alive, pending, syncEv, flipEv, on, pan, scan, stale>>
  BY DEF ScheduleDamage
<1>5. Tail(stack) \in Seq(Frame)
  BY <1>1, StackTypes DEF TypeOK
<1>6. /\ reqs' \in [ReqIds -> SwapRequest]
      /\ queue' \in Seq(ReqIds)
      /\ stack' \in Seq(Frame)
  <2>1. CASE id # 0
    <3>1. /\ reqs' = WithReq(id, [reqs[id] EXCEPT !.region = @ \cup region])
          /\ queue' = queue
          /\ stack' = Tail(stack)
      BY <2>1 DEF ScheduleDamage
    <3> HIDE DEF id, region
    <3>2. reqs[id] \in SwapRequest /\ id \in ReqIds
      BY <1>2, <2>1 DEF TypeOK
    <3>3. reqs[id].region \cup region \in SUBSET Areas
      BY <1>1, <3>2 DEF SwapRequest
    <3>4. [reqs[id] EXCEPT !.region = @ \cup region] \in SwapRequest
      BY <3>2, <3>3, RequestFieldTypes
    <3> QED  BY <1>5, <3>1, <3>2, <3>4, WithReqType DEF TypeOK
  <2>2. CASE id = 0
    <3>1. /\ Free # {}
          /\ reqs' = rs
          /\ queue' = q
          /\ stack' = IF FindNextFlip(rs, q, rs[new]) = new
                        THEN <<Call("flip_swap_req", new)>> \o Tail(stack)
                        ELSE Tail(stack)
      BY <2>2 DEF ScheduleDamage
    <3>2. new \in ReqIds
      BY <3>1, NewIdType
    <3> HIDE DEF new, region
    <3>3. rs \in [ReqIds -> SwapRequest]
      BY <1>3, <3>2, WithReqType DEF TypeOK
    <3>4. q \in Seq(ReqIds)
      BY <3>2, AppendProperties DEF TypeOK
    <3> HIDE DEF rs, q
    <3>5. stack' \in Seq(Frame)
      BY <1>1, <1>5, <3>1, <3>2, StackTypes, FrameTypes DEF TypeOK
    <3> QED  BY <3>1, <3>3, <3>4, <3>5
  <2> QED  BY <2>1, <2>2
<1> QED  BY <1>4, <1>6 DEF TypeOK

(* a render event, *)
LEMMA RenderDoneType ==
  ASSUME TypeOK, NEW id \in ReqIds, RenderDone(id)
  PROVE  TypeOK'
<1>1. stack' \in Seq(Frame)
  <2>1. Call("sync_handler", id) \in Frame
    BY FrameTypes
  <2> QED  BY <2>1 DEF RenderDone
<1> QED  BY <1>1 DEF TypeOK, RenderDone

(* a flip event, *)
LEMMA FlipEventType ==
  ASSUME TypeOK, NEW o \in Overlays, NEW id \in ReqIds, FlipEvent(o, id)
  PROVE  TypeOK'
<1>1. stack' \in Seq(Frame)
  <2>1. Call("flip_handler", id) \in Frame
    BY FrameTypes
  <2> QED  BY <2>1 DEF FlipEvent
<1>2. flipEv' \in [ReqIds -> SUBSET Overlays]
  BY DEF TypeOK, FlipEvent
<1> QED  BY <1>1, <1>2 DEF TypeOK, FlipEvent

(* the display hardware and DPMS, *)
LEMMA DisplayType ==
  ASSUME TypeOK, NEW o \in Overlays, VBlank(o) \/ TransferDone(o) \/ CrtcDpms(o)
  PROVE  TypeOK'
<1>1. scan' \in [Overlays -> Buf \cup {NoScan}] /\ on' \in SUBSET Overlays
  BY DEF TypeOK, VBlank, TransferDone, CrtcDpms
<1> QED  BY <1>1 DEF TypeOK, VBlank, TransferDone, CrtcDpms

(* the flip buffers that are created again, *)
LEMMA RecreateFlipType ==
  ASSUME NEW s \in FlipState
  PROVE  UpdateFlipPixmaps(RecreateFlip(s)) \in FlipState
<1> DEFINE nm == [b \in DRI2Buffer |-> IF s.name[b] = Private THEN Private ELSE Gone]
           px == KeepPixmaps /\ s.pixmaps
           r1 == [FreshFlip EXCEPT !.held = s.held]
           r2 == [r1 EXCEPT !.got = s.got]
           r3 == [r2 EXCEPT !.name = nm]
           r4 == [r3 EXCEPT !.pixmaps = px]
           r5 == [r4 EXCEPT !.server = s.server]
<1>1. s.held \in SUBSET DRI2Buffer /\ s.got \in SUBSET DRI2Buffer
  BY DEF FlipState
<1>2. nm \in [DRI2Buffer -> Buf \cup {Private, Gone}]
  OBVIOUS
<1>3. px \in BOOLEAN
  OBVIOUS
<1>4. RecreateFlip(s) = r5
  BY DEF RecreateFlip
<1> HIDE DEF nm, px
<1>5. r1 \in FlipState  BY <1>1, FreshFlipType, FieldTypes
<1> HIDE DEF r1
<1>6. r2 \in FlipState  BY <1>1, <1>5, FieldTypes
<1> HIDE DEF r2
<1>7. r3 \in FlipState  BY <1>2, <1>6, FieldTypes
<1> HIDE DEF r3
<1>8. r4 \in FlipState  BY <1>3, <1>7, FieldTypes
<1> HIDE DEF r4
<1>9. r5 \in FlipState  BY <1>8 DEF FlipState
<1> HIDE DEF r5
<1> QED  BY <1>4, <1>9 DEF UpdateFlipPixmaps, FlipState, Status

(* and a screen that is resized. *)
LEMMA ResizeScreenType ==
  ASSUME TypeOK, ResizeScreen
  PROVE  TypeOK'
<1>1. pf' \in FlipState
  BY RequireType, RecreateFlipType DEF TypeOK, ResizeScreen, KillChecked
<1>2. pending' \in [Drawables -> Int]
  BY SwapCompleteType DEF ResizeScreen
<1>3. reqs' \in [ReqIds -> SwapRequest]
  BY FreeRequestType, RequestFieldTypes DEF TypeOK, ResizeScreen, KillSwapReqs
<1>4. queue' \in Seq(ReqIds)
  BY DEF ResizeScreen
<1>5. 0 \in Buf
  BY FlipAssumption DEF Buf
<1>6. /\ pan' \in [Overlays -> Buf]
      /\ scan' \in [Overlays -> Buf \cup {NoScan}]
      /\ stale' \in SUBSET Areas
  BY <1>5 DEF ResizeScreen
<1> QED
  BY <1>1, <1>2, <1>3, <1>4, <1>6 DEF TypeOK, ResizeScreen

(***************************************************************************)
(* Type correctness: every request, event and stack frame keeps its form,  *)
(* the buffer indexes stay in the ring and the CRTCs are programmed with   *)
(* buffers only, whatever the order of the handlers of sgx_dri2.c.         *)
(***************************************************************************)
THEOREM TypeCorrect == Spec => []TypeOK
<1>1. TypeOK /\ [Next]_vars => TypeOK'
  <2> SUFFICES ASSUME TypeOK, [Next]_vars PROVE TypeOK'
    OBVIOUS
  <2>1. CASE ServerCall
    BY <2>1, SyncHandlerType, FlipSwapReqType, FlipHandlerType, FlipDoneType,
       ScheduleDamageType DEF ServerCall
  <2>2. CASE Client
    BY <2>2, GetBuffersType, SwapByCopyType, SwapByFlipType, DestroyDrawableType,
       SetFullscreenType, DrawOnScreenType DEF Client
  <2>3. CASE Kernel
    BY <2>3, RenderDoneType, DisplayType, FlipEventType DEF Kernel
  <2>4. CASE \E o \in Overlays : CrtcDpms(o)
    BY <2>4, DisplayType
  <2>5. CASE ResizeScreen
    BY <2>5, ResizeScreenType
  <2>6. CASE UNCHANGED vars
    BY <2>6 DEF TypeOK, vars
  <2> QED  BY <2>1, <2>2, <2>3, <2>4, <2>5, <2>6 DEF Next
<1> QED  BY <1>1, InitType, PTL DEF Spec

-----------------------------------------------------------------------------
(* No buffer waits for the one of an older generation to be destroyed. *)
Settled(s) == \A b \in s.held : b[3] = 0

(* The buffers that a request for buffers of another size replaces. *)
Replaced(draw, resized) == {b \in pf.held : resized /\ b[1] = draw}

(* The buffer that a request for buffers returns for an attachment. *)
Newest(draw, att, resized) ==
  IF resized /\ <<draw, att, 0>> \in pf.held THEN <<draw, att, 1>> ELSE <<draw, att, 0>>

(* DRI2GetBuffers, for one attachment that no earlier step has provided. *)
LEMMA ProvideGood ==
  ASSUME pf \in FlipState, Settled(pf), NEW s \in FlipState, NEW draw \in Drawables,
         NEW att \in Attachment, NEW resized \in BOOLEAN,
         Good(s, Replaced(draw, resized)),
         \A c \in DRI2Buffer : c[1] = draw /\ c[2] = att => (c \in s.held <=> c \in pf.held)
  PROVE  /\ Good(Provide(s, draw, att, resized), Replaced(draw, resized))
         /\ Provide(s, draw, att, resized).held = s.held \cup {Newest(draw, att, resized)}
<1> DEFINE b0 == <<draw, att, 0>>
           b1 == <<draw, att, 1>>
           X  == Replaced(draw, resized)
<1>1. b0 \in DRI2Buffer /\ b1 \in DRI2Buffer /\ NoBuffer \notin DRI2Buffer
  BY NoBufferType DEF DRI2Buffer
<1>2. s.held \in SUBSET DRI2Buffer /\ pf.held \in SUBSET DRI2Buffer
  BY DEF FlipState
<1>3. \A c \in s.held : c[1] = draw /\ c[2] = att => c = b0 /\ c \in pf.held
  <2> SUFFICES ASSUME NEW c \in s.held, c[1] = draw, c[2] = att
               PROVE  c = b0 /\ c \in pf.held
    OBVIOUS
  <2>1. c \in pf.held /\ c[3] = 0
    BY <1>2 DEF Settled
  <2> QED  BY <1>2, <2>1 DEF DRI2Buffer
<1>4. b1 \notin s.held
  BY <1>3
<1>5. CASE b0 \notin pf.held
  <2>1. BufferOf(pf, draw, att) = NoBuffer
    BY <1>5 DEF BufferOf
  <2>2. b0 \notin s.held /\ \A c \in s.held \ X : ~(c[1] = b0[1] /\ c[2] = b0[2])
    BY <1>3, <1>5
  <2>3. /\ Provide(s, draw, att, resized) = CreateBuf(s, b0, fs)
        /\ Newest(draw, att, resized) = b0
    BY <1>5, <2>1 DEF Provide, Newest
  <2> QED  BY <1>1, <2>2, <2>3, CreateBufGood
<1>6. CASE b0 \in pf.held /\ resized
  <2>1. BufferOf(pf, draw, att) # NoBuffer
    BY <1>1, <1>6 DEF BufferOf
  <2>2. \A c \in s.held \ X : ~(c[1] = b1[1] /\ c[2] = b1[2])
    BY <1>3, <1>6 DEF Replaced
  <2>3. /\ Provide(s, draw, att, resized) = CreateBuf(s, b1, fs)
        /\ Newest(draw, att, resized) = b1
    BY <1>6, <2>1 DEF Provide, Newest
  <2> QED  BY <1>1, <1>4, <2>2, <2>3, CreateBufGood
<1>7. CASE b0 \in pf.held /\ ~resized
  <2>1. BufferOf(pf, draw, att) = b0 /\ b0 # NoBuffer
    BY <1>1, <1>7 DEF BufferOf
  <2>2. b0 \in s.held /\ \A c \in s.held \ X : c[1] = b0[1] /\ c[2] = b0[2] => c = b0
    BY <1>1, <1>3, <1>7
  <2>3. /\ Provide(s, draw, att, resized) = ReuseBuf(s, b0, fs)
        /\ Newest(draw, att, resized) = b0
    BY <1>7, <2>1 DEF Provide, Newest
  <2>4. s.held \cup {b0} = s.held
    BY <2>2
  <2> QED  BY <1>1, <2>2, <2>3, <2>4, ReuseBufGood
<1> QED  BY <1>5, <1>6, <1>7

(* A buffer that is destroyed, if it exists. *)
LEMMA DropBufGood ==
  ASSUME NEW s \in FlipState, NEW old, NEW b, Good(s, old)
  PROVE  /\ DropBuf(s, b) \in FlipState
         /\ Good(DropBuf(s, b), old) /\ DropBuf(s, b).held = s.held \ {b}
BY DestroyBufGood, DropBufType DEF DropBuf

(* Buffers that do not exist any more are not being replaced. *)
LEMMA NothingOld ==
  ASSUME NEW s, NEW old, Good(s, old), s.held \cap old = {}
  PROVE  Good(s, {})
<1>1. s.held \ old = s.held \ {}
  OBVIOUS
<1> QED  BY <1>1 DEF Good, Agrees

(***************************************************************************)
(* The new buffers take the place of the old, which are gone.              *)
(***************************************************************************)
LEMMA SettleGood ==
  ASSUME NEW s \in FlipState, NEW draw \in Drawables, Good(s, {}),
         \A c \in s.held : c[1] # draw => c[3] = 0,
         \A att \in Attachment : ~({<<draw, att, 0>>, <<draw, att, 1>>} \subseteq s.held)
  PROVE  Good(Settle(s, draw), {}) /\ Settled(Settle(s, draw))
<1> DEFINE Now(b) == IF b # NoBuffer /\ b[1] = draw THEN <<draw, b[2], 0>> ELSE b
           new    == {b \in s.held : b[1] = draw /\ b[3] = 1}
           us     == [i \in Buf |-> Now(s.user[i])]
           hd     == {Now(b) : b \in s.held}
           gt     == {Now(b) : b \in s.got}
           nm     == [b \in DRI2Buffer |->
                        IF b \in new THEN Private
                        ELSE IF <<b[1], b[2], 1>> \in new THEN s.name[<<b[1], b[2], 1>>]
                        ELSE s.name[b]]
           t      == [s EXCEPT !.user = us, !.held = hd, !.got = gt, !.name = nm]
<1>1. Settle(s, draw) = t
  BY DEF Settle
<1>2. s.held \in SUBSET DRI2Buffer /\ NoBuffer \notin DRI2Buffer
      /\ s.user \in [Buf -> DRI2Buffer \cup {NoBuffer}]
      /\ s.name \in [DRI2Buffer -> Buf \cup {Private, Gone}]
  BY NoBufferType DEF FlipState
<1>3. \A c \in s.held :
        /\ Now(c) \in DRI2Buffer /\ Now(c)[1] = c[1] /\ Now(c)[2] = c[2] /\ Now(c)[3] = 0
        /\ nm[Now(c)] = s.name[c]
  <2> SUFFICES ASSUME NEW c \in s.held
               PROVE  /\ Now(c) \in DRI2Buffer /\ Now(c)[1] = c[1]
                      /\ Now(c)[2] = c[2] /\ Now(c)[3] = 0
                      /\ nm[Now(c)] = s.name[c]
    OBVIOUS
  <2>1. PICK d \in Drawables, a \in Attachment, g \in {0, 1} : c = <<d, a, g>>
    BY <1>2 DEF DRI2Buffer
  <2>2. c # NoBuffer /\ c \in DRI2Buffer
    BY <1>2
  <2>3. CASE d # draw
    <3>1. Now(c) = c /\ g = 0
      BY <2>1, <2>3
    <3>2. c \notin new /\ <<c[1], c[2], 1>> \notin new
      BY <2>1, <2>3
    <3> QED  BY <2>1, <2>2, <3>1, <3>2
  <2>4. CASE d = draw /\ g = 1
    <3>1. Now(c) = <<draw, a, 0>> /\ c = <<draw, a, 1>>
      BY <2>1, <2>2, <2>4
    <3>2. c \in new /\ <<draw, a, 0>> \notin new /\ <<draw, a, 0>> \in DRI2Buffer
      BY <2>4, <3>1 DEF DRI2Buffer
    <3>3. nm[<<draw, a, 0>>] = s.name[<<draw, a, 1>>]
      BY <3>1, <3>2
    <3> QED  BY <2>1, <2>4, <3>1, <3>2, <3>3
  <2>5. CASE d = draw /\ g = 0
    <3>1. Now(c) = c
      BY <2>1, <2>2, <2>5
    <3>2. <<draw, a, 1>> \notin s.held
      BY <2>1, <2>5
    <3>3. c \notin new /\ <<c[1], c[2], 1>> \notin new
      BY <2>1, <2>5, <3>2
    <3> QED  BY <2>1, <2>2, <2>5, <3>1, <3>3
  <2> QED  BY <2>1, <2>3, <2>4, <2>5
<1>4. \A i \in Buf : us[i] = Now(s.user[i]) /\ (us[i] # NoBuffer => s.user[i] # NoBuffer)
  OBVIOUS
<1>5. (\A c \in s.held : Now(c) \in hd) /\ (\A d \in hd : \E c \in s.held : d = Now(c))
  OBVIOUS
<1>6. s.got \subseteq s.held => gt \subseteq hd
  OBVIOUS
<1> HIDE DEF us, hd, gt, nm, Now
<1>7. /\ t.front = s.front /\ t.back = s.back /\ t.owner = s.owner /\ t.server = s.server
      /\ t.user = us /\ t.held = hd /\ t.got = gt /\ t.name = nm
  BY DEF FlipState
<1> HIDE DEF t
<1>8. Settled(t)
  BY <1>3, <1>5, <1>7 DEF Settled
<1>9. ASSUME s.server = "up" PROVE Agrees(t, {})
  <2>1. Agrees(s, {})
    BY <1>9 DEF Good
  <2>2. \A i \in Buf : t.user[i] # NoBuffer =>
          /\ t.user[i] \in t.held /\ t.user[i][1] = t.owner
          /\ IdxOf(t, t.user[i][2]) = i /\ t.name[t.user[i]] = i
    <3> SUFFICES ASSUME NEW i \in Buf, us[i] # NoBuffer
                 PROVE  /\ us[i] \in hd /\ us[i][1] = s.owner
                        /\ IdxOf(s, us[i][2]) = i /\ nm[us[i]] = i
      BY <1>7 DEF IdxOf
    <3>1. /\ s.user[i] \in s.held /\ s.user[i][1] = s.owner
          /\ IdxOf(s, s.user[i][2]) = i /\ s.name[s.user[i]] = i
      BY <1>4, <2>1 DEF Agrees
    <3> QED  BY <1>3, <1>4, <1>5, <3>1
  <2>3. \A d \in t.held : t.name[d] \in Buf => t.user[t.name[d]] = d
    <3> SUFFICES ASSUME NEW d \in hd, nm[d] \in Buf PROVE us[nm[d]] = d
      BY <1>7
    <3>1. PICK c \in s.held : d = Now(c)
      BY <1>5
    <3>2. nm[d] = s.name[c]
      BY <1>3, <3>1
    <3>3. s.user[s.name[c]] = c
      BY <2>1, <3>2 DEF Agrees
    <3> QED  BY <1>4, <3>1, <3>2, <3>3
  <2>4. IF NumBufs >= 2 THEN t.front # t.back ELSE \A i \in Buf : t.user[i] = NoBuffer
    <3>1. CASE NumBufs >= 2
      BY <1>7, <2>1, <3>1 DEF Agrees
    <3>2. CASE ~(NumBufs >= 2)
      BY <1>4, <1>7, <2>1, <3>2 DEF Agrees
    <3> QED  BY <3>1, <3>2
  <2>5. t.got \subseteq t.held
    BY <1>6, <1>7, <2>1 DEF Agrees
  <2> QED  BY <2>2, <2>3, <2>4, <2>5 DEF Agrees
<1> QED  BY <1>1, <1>7, <1>8, <1>9 DEF Good

-----------------------------------------------------------------------------
(* What holds of the flip buffers between any two steps of the server. *)
Owned(s) == Good(s, {}) /\ Settled(s)

(* It rests on the fields that SameOwnership compares. *)
LEMMA SameOwned ==
  ASSUME NEW s, NEW t, SameOwnership(s, t), Owned(s)
  PROVE  Owned(t)
<1>1. Good(t, {})
  BY SameGood DEF Owned
<1> QED  BY <1>1 DEF Owned, Settled, SameOwnership

(* Two steps that change no ownership are one. *)
LEMMA SameTransitive ==
  ASSUME NEW s, NEW t, NEW u, SameOwnership(s, t), SameOwnership(t, u)
  PROVE  SameOwnership(s, u)
BY DEF SameOwnership

(* What is left of a drawable's buffers before the new ones take their place. *)
Dropped(s, draw, drop) ==
  /\ s \in FlipState /\ Good(s, {}) /\ s.held \cap drop = {}
  /\ \A c \in s.held : c[1] # draw => c[3] = 0
  /\ \A att \in Attachment : ~({<<draw, att, 0>>, <<draw, att, 1>>} \subseteq s.held)

(* The buffers of two attachments are provided and the replaced ones dropped. *)
LEMMA GetBuffersSteps ==
  ASSUME TypeOK, Owned(pf), NEW draw \in Drawables, NEW resized \in BOOLEAN
  PROVE  LET X == Replaced(draw, resized)
             s == Provide(pf, draw, "back", resized)
             u == Provide(s, draw, "front", resized)
             w == DropOld(u, draw, TRUE, resized)
         IN  /\ s \in FlipState /\ Good(s, X) /\ u \in FlipState /\ Good(u, X)
             /\ s.held = pf.held \cup {Newest(draw, "back", resized)}
             /\ u.held = pf.held \cup {Newest(draw, a, resized) : a \in {"back", "front"}}
             /\ Dropped(w, draw, X)
<1> DEFINE X  == Replaced(draw, resized)
           nb == Newest(draw, "back", resized)
           nf == Newest(draw, "front", resized)
           s  == Provide(pf, draw, "back", resized)
           u  == Provide(s, draw, "front", resized)
           w  == DropOld(u, draw, TRUE, resized)
           ob == BufferOf(pf, draw, "back")
           of == BufferOf(pf, draw, "front")
<1>1. pf \in FlipState /\ Settled(pf) /\ Good(pf, {}) /\ pf.held \in SUBSET DRI2Buffer
  BY DEF TypeOK, Owned, FlipState
<1>2. Good(pf, X)
  BY <1>1 DEF Good, Agrees
<1>3. s \in FlipState /\ Good(s, X) /\ s.held = pf.held \cup {nb}
  BY <1>1, <1>2, ProvideType, ProvideGood DEF Attachment
<1>4. nb \in {<<draw, "back", 0>>, <<draw, "back", 1>>}
      /\ nf \in {<<draw, "front", 0>>, <<draw, "front", 1>>}
  BY DEF Newest
<1>5. \A c \in DRI2Buffer : c[1] = draw /\ c[2] = "front" => (c \in s.held <=> c \in pf.held)
  BY <1>3, <1>4
<1> HIDE DEF s, nb, nf
<1>6. u \in FlipState /\ Good(u, X) /\ u.held = pf.held \cup {nb, nf}
  BY <1>1, <1>3, <1>5, ProvideType, ProvideGood DEF Attachment, nf
<1> HIDE DEF u
<1>7. /\ w \in FlipState /\ Good(w, X)
      /\ w.held = IF resized THEN u.held \ {ob, of} ELSE u.held
  <2>1. CASE ~resized
    BY <1>6, <2>1 DEF DropOld
  <2>2. CASE resized
    <3> DEFINE v == DropBuf(u, ob)
    <3>1. v \in FlipState /\ Good(v, X) /\ v.held = u.held \ {ob}
      BY <1>6, DropBufGood
    <3>2. w = DropBuf(v, of)
      BY <2>2 DEF DropOld
    <3> HIDE DEF v, ob, of, X
    <3>3. /\ DropBuf(v, of) \in FlipState /\ Good(DropBuf(v, of), X)
          /\ DropBuf(v, of).held = v.held \ {of}
      BY <3>1, DropBufGood
    <3> HIDE DEF w
    <3> QED  BY <2>2, <3>1, <3>2, <3>3
  <2> QED  BY <2>1, <2>2
<1> HIDE DEF w, ob, of
<1>8. \A c \in pf.held : c[1] = draw => c \in {<<draw, "back", 0>>, <<draw, "front", 0>>}
  BY <1>1 DEF Settled, DRI2Buffer, Attachment
<1>9. /\ <<draw, "back", 0>> \in pf.held => ob = <<draw, "back", 0>>
      /\ <<draw, "front", 0>> \in pf.held => of = <<draw, "front", 0>>
  BY DEF BufferOf, ob, of
<1>10. nb \notin X /\ nf \notin X
  BY <1>8 DEF nb, nf, Newest, Replaced
<1>11. w.held \cap X = {}
  BY <1>6, <1>7, <1>8, <1>9, <1>10 DEF Replaced
<1>12. Good(w, {})
  BY <1>7, <1>11, NothingOld
<1>13. \A c \in w.held : c[1] # draw => c[3] = 0
  BY <1>1, <1>4, <1>6, <1>7 DEF Settled
<1>14. \A att \in Attachment : ~({<<draw, att, 0>>, <<draw, att, 1>>} \subseteq w.held)
  <2> SUFFICES ASSUME NEW att \in Attachment, <<draw, att, 0>> \in w.held,
                      <<draw, att, 1>> \in w.held
               PROVE  FALSE
    OBVIOUS
  <2>1. <<draw, att, 1>> \notin pf.held
    BY <1>1 DEF Settled
  <2>2. <<draw, att, 1>> \in {nb, nf} /\ att \in {"back", "front"}
    BY <1>6, <1>7, <2>1 DEF Attachment
  <2>3. resized /\ <<draw, att, 0>> \in pf.held
    BY <1>4, <2>2 DEF nb, nf, Newest
  <2>4. <<draw, att, 0>> \in X
    BY <2>3 DEF Replaced
  <2> QED  BY <1>11, <2>4
<1>15. u.held = pf.held \cup {Newest(draw, a, resized) : a \in {"back", "front"}}
  BY <1>6 DEF nb, nf
<1> QED  BY <1>3, <1>6, <1>7, <1>11, <1>12, <1>13, <1>14, <1>15 DEF Dropped, w, u, s, nb

(* The front buffer is provided and the back buffer dropped. *)
LEMMA GetFrontBufferSteps ==
  ASSUME TypeOK, Owned(pf), NEW draw \in Drawables, NEW resized \in BOOLEAN
  PROVE  LET X == Replaced(draw, resized)
             u == Provide(pf, draw, "front", resized)
             w == DropOld(u, draw, FALSE, resized)
         IN  /\ u \in FlipState /\ Good(u, X)
             /\ u.held = pf.held \cup {Newest(draw, "front", resized)}
             /\ Dropped(w, draw, X \cup {<<draw, "back", 0>>})
<1> DEFINE X  == Replaced(draw, resized)
           nf == Newest(draw, "front", resized)
           u  == Provide(pf, draw, "front", resized)
           w  == DropOld(u, draw, FALSE, resized)
           ob == BufferOf(pf, draw, "back")
           of == BufferOf(pf, draw, "front")
           v  == DropBuf(u, ob)
<1>1. pf \in FlipState /\ Settled(pf) /\ Good(pf, {}) /\ pf.held \in SUBSET DRI2Buffer
  BY DEF TypeOK, Owned, FlipState
<1>2. Good(pf, X)
  BY <1>1 DEF Good, Agrees
<1>3. u \in FlipState /\ Good(u, X) /\ u.held = pf.held \cup {nf}
  BY <1>1, <1>2, ProvideType, ProvideGood DEF Attachment
<1>4. nf \in {<<draw, "front", 0>>, <<draw, "front", 1>>}
  BY DEF Newest
<1> HIDE DEF u, nf
<1>5. v \in FlipState /\ Good(v, X) /\ v.held = u.held \ {ob}
  BY <1>3, DropBufGood
<1>6. w = IF resized THEN DropBuf(v, of) ELSE v
  BY DEF DropOld
<1> HIDE DEF v, ob, of
<1>7. /\ w \in FlipState /\ Good(w, X)
      /\ w.held = IF resized THEN u.held \ {ob, of} ELSE u.held \ {ob}
  <2>1. /\ DropBuf(v, of) \in FlipState /\ Good(DropBuf(v, of), X)
        /\ DropBuf(v, of).held = v.held \ {of}
    BY <1>5, DropBufGood
  <2> HIDE DEF w
  <2> QED  BY <1>5, <1>6, <2>1
<1> HIDE DEF w
<1>8. \A c \in pf.held : c[1] = draw => c \in {<<draw, "back", 0>>, <<draw, "front", 0>>}
  BY <1>1 DEF Settled, DRI2Buffer, Attachment
<1>9. /\ <<draw, "back", 0>> \in pf.held => ob = <<draw, "back", 0>>
      /\ <<draw, "front", 0>> \in pf.held => of = <<draw, "front", 0>>
  BY DEF BufferOf, ob, of
<1>10. nf \notin X
  BY <1>8 DEF nf, Newest, Replaced
<1>11. w.held \cap X = {}
  BY <1>3, <1>7, <1>8, <1>9, <1>10 DEF Replaced
<1>12. Good(w, {})
  BY <1>7, <1>11, NothingOld
<1>13. \A c \in w.held : c[1] # draw => c[3] = 0
  BY <1>1, <1>3, <1>4, <1>7 DEF Settled
<1>14. \A att \in Attachment : ~({<<draw, att, 0>>, <<draw, att, 1>>} \subseteq w.held)
  <2> SUFFICES ASSUME NEW att \in Attachment, <<draw, att, 0>> \in w.held,
                      <<draw, att, 1>> \in w.held
               PROVE  FALSE
    OBVIOUS
  <2>1. <<draw, att, 1>> \notin pf.held
    BY <1>1 DEF Settled
  <2>2. <<draw, att, 1>> = nf
    BY <1>3, <1>7, <2>1
  <2>3. resized /\ <<draw, att, 0>> \in pf.held
    BY <2>2 DEF nf, Newest
  <2>4. <<draw, att, 0>> \in X
    BY <2>3 DEF Replaced
  <2> QED  BY <1>11, <2>4
<1>15. <<draw, "back", 0>> \notin w.held
  BY <1>3, <1>4, <1>7, <1>9
<1> QED  BY <1>3, <1>7, <1>11, <1>12, <1>13, <1>14, <1>15 DEF Dropped, w, u, nf

(* So both requests for buffers keep the ownership in order. *)
LEMMA GetBuffersOwned ==
  ASSUME TypeOK, Owned(pf), NEW draw \in Drawables, NEW resized \in BOOLEAN,
         GetBuffers(draw, resized) \/ GetFrontBuffer(draw, resized)
  PROVE  Owned(pf')
<1>1. PICK w, drop : Dropped(w, draw, drop) /\ pf' = Settle(w, draw)
  BY GetBuffersSteps, GetFrontBufferSteps DEF GetBuffers, GetFrontBuffer
<1> QED  BY <1>1, SettleGood DEF Dropped, Owned

(* A destroyed drawable leaves nothing of it in the flip chain. *)
LEMMA DestroyDrawableOwned ==
  ASSUME TypeOK, Owned(pf), NEW draw \in Drawables, DestroyDrawable(draw)
  PROVE  Owned(pf')
<1> DEFINE ob == BufferOf(pf, draw, "back")
           of == BufferOf(pf, draw, "front")
           s  == DropBuf(pf, ob)
           t  == DropBuf(s, of)
<1>1. s \in FlipState /\ Good(s, {}) /\ s.held = pf.held \ {ob}
  BY DropBufGood DEF TypeOK, Owned
<1>2. pf' = t
  BY DEF DestroyDrawable
<1> HIDE DEF s
<1>3. Good(t, {}) /\ t.held = s.held \ {of}
  BY <1>1, DropBufGood
<1> QED  BY <1>1, <1>2, <1>3 DEF Owned, Settled

(* A copy ends a reservation, which does not concern ownership. *)
LEMMA SwapByCopyOwned ==
  ASSUME TypeOK, Owned(pf), NEW draw \in Drawables, SwapByCopy(draw)
  PROVE  Owned(pf')
BY EndReservationSame, SameOwned DEF TypeOK, SwapByCopy

(* A flip moves the owner's buffers on in the ring. *)
LEMMA SwapByFlipOwned ==
  ASSUME TypeOK, Owned(pf), NEW draw \in Drawables, SwapByFlip(draw)
  PROVE  Owned(pf') /\ pf'.held = pf.held
<1> DEFINE f    == BufferOf(pf, draw, "front")
           b    == BufferOf(pf, draw, "back")
           p    == PrepareFlip(pf, draw, f, b)
           r    == Require(p, p.name[f] = p.front /\ p.name[b] = p.back
                                /\ p.back \notin p.busy)
           q    == [r EXCEPT !.busy = @ \cup {p.back}, !.completes = @ + 1]
           sub  == ExchangeBufs(q, f, b)
           now  == CompleteAtOnce(sub)
           done == IF now THEN [sub EXCEPT !.completes = @ - 1] ELSE sub
<1>1. pf \in FlipState /\ pf.held \in SUBSET DRI2Buffer /\ Good(pf, {}) /\ Settled(pf)
  BY DEF TypeOK, Owned, FlipState
<1>2. NumBufs >= 2
  BY DEF SwapByFlip, PageFlipPossible
<1>3. f \in pf.held /\ b \in pf.held
  BY DEF SwapByFlip, Swappable
<1>4. f = <<draw, "front", 0>> /\ b = <<draw, "back", 0>>
  BY <1>1, <1>3, NoBufferType DEF BufferOf
<1>5. \A c, d \in pf.held : c[1] = d[1] /\ c[2] = d[2] => c = d
  <2> SUFFICES ASSUME NEW c \in pf.held, NEW d \in pf.held, c[1] = d[1], c[2] = d[2]
               PROVE  c = d
    OBVIOUS
  <2>1. c[3] = 0 /\ d[3] = 0
    BY <1>1 DEF Settled
  <2> QED  BY <1>1, <2>1 DEF DRI2Buffer
<1>6. f[1] = draw /\ f[2] = "front" /\ b[1] = draw /\ b[2] = "back"
  BY <1>4
<1> HIDE DEF f, b
<1>7. p \in FlipState /\ Good(p, {}) /\ p.held = pf.held
  BY <1>1, <1>2, <1>3, <1>5, <1>6, PrepareFlipType, PrepareFlipGood
<1>8. pf' = Require(done, done.completes < 2)
  BY DEF SwapByFlip, Submit, f, b
<1> HIDE DEF p
<1>9. r \in FlipState /\ SameOwnership(p, r)
  BY <1>7, RequireType, RequireSame
<1> HIDE DEF r
<1>10. q \in FlipState /\ SameOwnership(r, q)
  <2> DEFINE r1 == [r EXCEPT !.busy = r.busy \cup {p.back}]
             n  == r.completes + 1
             r2 == [r1 EXCEPT !.completes = n]
  <2>1. r1 \in FlipState
    <3>1. r.busy \cup {p.back} \in SUBSET Buf
      BY <1>7, <1>9 DEF FlipState
    <3> QED  BY <1>9, <3>1, FieldTypes
  <2>2. n \in Int
    BY <1>9 DEF FlipState
  <2>3. q = r2
    BY <1>9 DEF FlipState
  <2>4. SameOwnership(r, r2)
    BY <1>9 DEF SameOwnership, FlipState
  <2> HIDE DEF r1, n
  <2> QED  BY <2>1, <2>2, <2>3, <2>4, FieldTypes
<1> HIDE DEF q
<1>11. Good(q, {}) /\ q.held = pf.held
  <2>1. Good(r, {})
    BY <1>7, <1>9, SameGood
  <2> QED  BY <1>7, <1>9, <1>10, <2>1, SameGood DEF SameOwnership
<1>12. sub \in FlipState /\ Good(sub, {}) /\ sub.held = pf.held
  BY <1>1, <1>3, <1>6, <1>10, <1>11, ExchangeBufsType, ExchangeBufsGood
<1> HIDE DEF sub, now
<1>13. SameOwnership(sub, done)
  BY <1>12 DEF SameOwnership, FlipState
<1>14. done \in FlipState
  <2> DEFINE n == sub.completes - 1
  <2>1. n \in Int
    BY <1>12 DEF FlipState
  <2>2. done = IF now THEN [sub EXCEPT !.completes = n] ELSE sub
    OBVIOUS
  <2> HIDE DEF n, done
  <2> QED  BY <1>12, <2>1, <2>2, FieldTypes
<1> HIDE DEF done
<1>15. SameOwnership(done, pf')
  BY <1>8, <1>14, RequireSame
<1>16. Owned(sub)
  BY <1>1, <1>12 DEF Owned, Settled
<1>17. SameOwnership(sub, pf')
  BY <1>13, <1>15, SameTransitive
<1> QED  BY <1>12, <1>16, <1>17, SameOwned DEF SameOwnership

(* A rendered request, *)
LEMMA SyncHandlerSame ==
  ASSUME TypeOK, SyncHandler
  PROVE  SameOwnership(pf, pf')
BY RequireSame DEF TypeOK, SyncHandler

(* a flip that is issued, *)
LEMMA FlipSwapReqSame ==
  ASSUME TypeOK, FlipSwapReq
  PROVE  SameOwnership(pf, pf')
<1> DEFINE id == Head(stack).id
           r  == reqs[id]
           a  == Require(pf, /\ FindNextFlip(reqs, queue, r) = id
                             /\ r.rendered /\ ~r.flipped /\ ~r.issued
                             /\ r.update # SWAP_INVALID_IDX => pf.flips = 0)
           n  == [a EXCEPT !.flips = @ + 1]
<1>1. pf' = IF r.update # SWAP_INVALID_IDX THEN n ELSE a
  BY DEF FlipSwapReq, IssueFlip
<1>2. a \in FlipState /\ SameOwnership(pf, a)
  BY RequireType, RequireSame DEF TypeOK
<1> HIDE DEF a, r
<1>3. SameOwnership(a, n)
  BY <1>2 DEF SameOwnership, FlipState
<1> HIDE DEF n
<1> QED  BY <1>1, <1>2, <1>3, SameTransitive

(* the buffer that a flip releases, *)
LEMMA FlipHandlerSame ==
  ASSUME TypeOK, FlipHandler
  PROVE  SameOwnership(pf, pf')
<1> DEFINE id   == Head(stack).id
           r    == reqs[id]
           a    == FlipChecked(pf, id)
           rel  == ReleaseFront(a, r)
           n    == [rel EXCEPT !.flips = @ - 1]
<1>1. pf' \in {pf, a, rel, n}
  BY DEF FlipHandler
<1>2. a \in FlipState /\ SameOwnership(pf, a)
  BY RequireType, RequireSame DEF TypeOK, FlipChecked
<1> HIDE DEF a, r
<1>3. rel \in FlipState /\ SameOwnership(a, rel)
  <2> DEFINE x == a.busy \ {r.front}
  <2>1. rel = IF r.front = SWAP_INVALID_IDX THEN a ELSE [a EXCEPT !.busy = x]
    BY DEF ReleaseFront
  <2>2. x \in SUBSET Buf
    BY <1>2 DEF FlipState
  <2> HIDE DEF x, rel
  <2>3. [a EXCEPT !.busy = x] \in FlipState
    BY <1>2, <2>2, FieldTypes
  <2>4. SameOwnership(a, a) /\ SameOwnership(a, [a EXCEPT !.busy = x])
    BY <1>2 DEF SameOwnership, FlipState
  <2> QED  BY <1>2, <2>1, <2>3, <2>4
<1> HIDE DEF rel
<1>4. SameOwnership(rel, n)
  BY <1>3 DEF SameOwnership, FlipState
<1> HIDE DEF n
<1>5. SameOwnership(pf, pf)
  BY DEF SameOwnership
<1>6. SameOwnership(pf, rel)
  BY <1>2, <1>3, SameTransitive
<1>7. SameOwnership(pf, n)
  BY <1>4, <1>6, SameTransitive
<1> QED  BY <1>1, <1>2, <1>5, <1>6, <1>7

(* and the swap that it completes do not concern ownership. *)
LEMMA FlipDoneSame ==
  ASSUME TypeOK, FlipDone
  PROVE  SameOwnership(pf, pf')
<1> DEFINE id == Head(stack).id
           r  == reqs[id]
           c  == IF CompletesPending(r) THEN FindFirstPendingFlip(reqs, queue) ELSE 0
           a  == Require(pf, /\ id \in {queue[i] : i \in DOMAIN queue}
                             /\ c # 0 => reqs[c].back = pf.front /\ ~reqs[c].dead)
           n  == [a EXCEPT !.completes = @ - 1]
<1>1. pf' = IF c = 0 THEN a ELSE n
  BY DEF FlipDone
<1>2. a \in FlipState /\ SameOwnership(pf, a)
  BY RequireType, RequireSame DEF TypeOK
<1> HIDE DEF a, c
<1>3. SameOwnership(a, n)
  BY <1>2 DEF SameOwnership, FlipState
<1> HIDE DEF n
<1> QED  BY <1>1, <1>2, <1>3, SameTransitive

(* After a resize no DRI2 buffer is in the flip chain. *)
LEMMA ResizeScreenOwned ==
  ASSUME TypeOK, Owned(pf), ResizeScreen
  PROVE  Owned(pf')
<1> DEFINE k  == KillChecked(pf)
           nm == [b \in DRI2Buffer |-> IF k.name[b] = Private THEN Private ELSE Gone]
           px == KeepPixmaps /\ k.pixmaps
           r  == RecreateFlip(k)
<1>1. pf.server = "up"
  BY DEF ResizeScreen, Idle, Up
<1>2. pf \in FlipState /\ Agrees(pf, {}) /\ Settled(pf)
  BY <1>1 DEF Owned, Good, TypeOK
<1>3. k \in FlipState /\ k.held = pf.held /\ k.got \subseteq pf.got
  BY <1>2, RequireType, RequireSame DEF KillChecked, SameOwnership
<1>4. r = [FreshFlip EXCEPT !.held = k.held, !.got = k.got, !.name = nm, !.pixmaps = px,
                            !.server = k.server]
  BY DEF RecreateFlip
<1> HIDE DEF nm, px, k
<1>5. /\ r.front = 0 /\ r.back = NextBuf(0) /\ r.user = [i \in Buf |-> NoBuffer]
      /\ r.held = k.held /\ r.got = k.got /\ r.name = nm
  BY <1>4 DEF FreshFlip
<1>6. /\ pf'.front = r.front /\ pf'.back = r.back /\ pf'.user = r.user
      /\ pf'.held = r.held /\ pf'.got = r.got /\ pf'.name = r.name
  <2>1. pf' = UpdateFlipPixmaps(r)
    BY DEF ResizeScreen, k
  <2> QED  BY <1>4, <2>1 DEF UpdateFlipPixmaps, FreshFlip
<1> HIDE DEF r
<1>7. \A b \in pf.held : nm[b] \notin Buf
  BY <1>2, FlipAssumption DEF nm, FlipState, Buf
<1>8. NumBufs >= 2 => 0 # NextBuf(0)
  BY NextBufType, FlipAssumption DEF Buf
<1>9. Agrees(pf', {})
  <2>1. pf'.got \subseteq pf'.held
    BY <1>2, <1>3, <1>5, <1>6 DEF Agrees
  <2> QED  BY <1>3, <1>5, <1>6, <1>7, <1>8, <2>1 DEF Agrees
<1> QED  BY <1>2, <1>3, <1>5, <1>6, <1>9 DEF Owned, Good, Settled

-----------------------------------------------------------------------------
(* At the start no DRI2 buffer exists. *)
LEMMA InitOwned == Init => Owned(pf)
<1> SUFFICES ASSUME Init PROVE Owned(pf)
  OBVIOUS
<1>1. NumBufs >= 2 => 0 # NextBuf(0)
  BY NextBufType, FlipAssumption DEF Buf
<1> QED  BY <1>1 DEF Init, FreshFlip, Owned, Good, Agrees, Settled

(* Every step keeps the ownership of the flip buffers in order. *)
LEMMA NextOwned == TypeOK /\ Owned(pf) /\ [Next]_vars => Owned(pf)'
<1> SUFFICES ASSUME TypeOK, Owned(pf), [Next]_vars PROVE Owned(pf')
  OBVIOUS
<1>1. ASSUME pf' = pf PROVE Owned(pf')
  BY <1>1
<1>2. CASE ServerCall
  <2>1. CASE SyncHandler
    BY <2>1, SyncHandlerSame, SameOwned
  <2>2. CASE FlipSwapReq
    BY <2>2, FlipSwapReqSame, SameOwned
  <2>3. CASE FlipHandler
    BY <2>3, FlipHandlerSame, SameOwned
  <2>4. CASE FlipDone
    BY <2>4, FlipDoneSame, SameOwned
  <2>5. CASE ScheduleDamage
    BY <1>1, <2>5 DEF ScheduleDamage
  <2> QED  BY <1>2, <2>1, <2>2, <2>3, <2>4, <2>5 DEF ServerCall
<1>3. CASE Client
  <2>1. ASSUME NEW d \in Drawables, NEW resized \in BOOLEAN, GetBuffers(d, resized)
        PROVE  Owned(pf')
    BY <2>1, GetBuffersOwned
  <2>2. ASSUME NEW d \in Drawables, NEW resized \in BOOLEAN, GetFrontBuffer(d, resized)
        PROVE  Owned(pf')
    BY <2>2, GetBuffersOwned
  <2>3. ASSUME NEW d \in Drawables, SwapByCopy(d) PROVE Owned(pf')
    BY <2>3, SwapByCopyOwned
  <2>4. ASSUME NEW d \in Drawables, SwapByFlip(d) PROVE Owned(pf')
    BY <2>4, SwapByFlipOwned
  <2>5. ASSUME NEW d \in Drawables, DestroyDrawable(d) PROVE Owned(pf')
    BY <2>5, DestroyDrawableOwned
  <2>6. ASSUME NEW d \in Drawables \cup {NoDraw}, SetFullscreen(d) PROVE Owned(pf')
    BY <1>1, <2>6 DEF SetFullscreen
  <2>7. ASSUME NEW a \in Areas, DrawOnScreen(a) PROVE Owned(pf')
    BY <1>1, <2>7 DEF DrawOnScreen
  <2> QED  BY <1>3, <2>1, <2>2, <2>3, <2>4, <2>5, <2>6, <2>7 DEF Client
<1>4. CASE Kernel
  BY <1>1, <1>4 DEF Kernel, RenderDone, VBlank, TransferDone, FlipEvent
<1>5. CASE \E o \in Overlays : CrtcDpms(o)
  BY <1>1, <1>5 DEF CrtcDpms
<1>6. CASE ResizeScreen
  BY <1>6, ResizeScreenOwned
<1>7. CASE UNCHANGED vars
  BY <1>1, <1>7 DEF vars
<1> QED  BY <1>2, <1>3, <1>4, <1>5, <1>6, <1>7 DEF Next

(***************************************************************************)
(* Between requests the flip buffers, their owner and the names that the   *)
(* clients were told agree, as long as the server runs.                    *)
(***************************************************************************)
THEOREM OwnershipStaysInOrder == Spec => []OwnershipAgrees
<1>1. Spec => []Owned(pf)
  BY InitOwned, NextOwned, TypeCorrect, PTL DEF Spec
<1>2. Owned(pf) => OwnershipAgrees
  BY DEF Owned, Good, Settled, OwnershipAgrees, Up
<1> QED  BY <1>1, <1>2, PTL

(***************************************************************************)
(* Two clients never render to the same flip buffer: what names a flip     *)
(* buffer is what is shown there, and that is one DRI2 buffer.             *)
(***************************************************************************)
THEOREM BuffersStayPrivate == Spec => []OneClientPerBuffer
<1>1. TypeOK /\ OwnershipAgrees => OneClientPerBuffer
  <2> SUFFICES ASSUME TypeOK, OwnershipAgrees, Up, NEW a \in pf.got, NEW b \in pf.got,
                      pf.name[a] = pf.name[b], pf.name[a] \notin {Private, Gone}
               PROVE  a = b
    BY DEF OneClientPerBuffer
  <2>1. a \in pf.held /\ b \in pf.held /\ pf.held \in SUBSET DRI2Buffer
    BY DEF OwnershipAgrees, Agrees, TypeOK, FlipState
  <2>2. pf.name[a] \in Buf
    BY <2>1 DEF TypeOK, FlipState
  <2> QED  BY <2>1, <2>2 DEF OwnershipAgrees, Agrees
<1> QED  BY <1>1, TypeCorrect, OwnershipStaysInOrder, PTL
=============================================================================
