-------------------------- MODULE SwapAssertProofs --------------------------
(***************************************************************************)
(* No assertion of sgx_dri2.c fails, the reserved flags are exact, and,    *)
(* at the end, no NULL pointer is followed.                                *)
(* The assertions join the three parts of the state: who owns the flip     *)
(* chain (SwapQueueProofs), where the requests are in their lives and how  *)
(* they are linked through the ring of buffers (SwapRequestProofs).  What  *)
(* is missing is the claim of the owner: it has all of its buffers in the  *)
(* chain, and the back buffer is reserved as long as the client renders to *)
(* it.                                                                     *)
(***************************************************************************)
EXTENDS SwapRequestProofs

(* The reserved flag is set of the back buffer that a client was handed. *)
ReservedExact(s) ==
  /\ \A b \in s.got : b[2] = "back"
  /\ s.reserved = IF s.user[s.back] \in s.got THEN {s.back} ELSE {}

(* A drawable is the owner only as long as a buffer of it is shown. *)
OwnerShown(s) == s.owner # NoDraw => \E i \in Buf : s.user[i] # NoBuffer

(* All buffers of the owner are in the chain, but for those that are dropped. *)
OwnerHolds(s, old) ==
  \A b \in s.held \ old : b[1] = s.owner => s.user[IdxOf(s, b[2])] = b

(* Only buffers that are dropped are left in the chain. *)
OwnerLeaves(s, old) == \A i \in Buf : s.user[i] \in old \cup {NoBuffer}

(* No assertion has failed yet, and if the server runs the owner's claim holds. *)
Claimed(s, old) ==
  /\ s.server # "aborted"
  /\ s.server = "up" =>
       OwnerShown(s) /\ ReservedExact(s) /\ (OwnerHolds(s, old) \/ OwnerLeaves(s, old))

-----------------------------------------------------------------------------
(* An assertion that holds does nothing. *)
LEMMA RequireHolds ==
  ASSUME NEW s, NEW cond, s.server = "up" => cond
  PROVE  Require(s, cond) = s
BY DEF Require

(* Two buffers at least are needed to show one. *)
LEMMA ShownApart ==
  ASSUME NEW s \in FlipState, NEW old, Agrees(s, old), NEW i \in Buf, s.user[i] # NoBuffer
  PROVE  /\ NumBufs >= 2 /\ s.front # s.back /\ i \in {s.front, s.back}
         /\ s.user[i] \in DRI2Buffer /\ s.user[i] \in s.held /\ s.user[i][1] = s.owner
         /\ s.user[i][2] = IF i = s.front THEN "front" ELSE "back"
         /\ s.name[s.user[i]] = i
<1>1. NumBufs >= 2 /\ s.front # s.back
  BY DEF Agrees
<1>2. /\ s.user[i] \in s.held /\ s.user[i][1] = s.owner
      /\ IdxOf(s, s.user[i][2]) = i /\ s.name[s.user[i]] = i
  BY DEF Agrees
<1>3. s.user[i] \in DRI2Buffer
  BY DEF FlipState
<1>4. s.user[i][2] \in {"front", "back"}
  BY <1>3 DEF DRI2Buffer, Attachment
<1> QED  BY <1>1, <1>2, <1>3, <1>4 DEF IdxOf

(* Nobody is in the chain. *)
Vacant(s) ==
  s.owner = NoDraw /\ s.reserved = {} /\ \A i \in Buf : s.user[i] = NoBuffer

(***************************************************************************)
(* pvr2d_dri2_migrate_from_fs: its assertions hold of any owner, and the   *)
(* reservation of the owner ends.                                          *)
(***************************************************************************)
LEMMA MigrateClaim ==
  ASSUME NEW s \in FlipState, NEW old, s.server = "up", Agrees(s, old), ReservedExact(s)
  PROVE  LET t == MigrateFromFs(s)
         IN  /\ t.server # "aborted"
             /\ t.server = "up" => Vacant(t) /\ t.got = s.got
<1> DEFINE f == s.user[s.front]
           b == s.user[s.back]
           t == MigrateFromFs(s)
           cond == f[2] = "front" /\ b[2] = "back" /\ s.front \notin s.reserved
<1>1. CASE NoBuffer \in {f, b}
  BY <1>1 DEF MigrateFromFs, FlipState
<1>2. CASE NoBuffer \notin {f, b}
  <2>1. s.front \in Buf /\ s.back \in Buf
    BY DEF FlipState
  <2>2. cond
    BY <1>2, <2>1, ShownApart DEF ReservedExact
  <2> HIDE DEF cond
  <2>3. PICK n, u : t = [s EXCEPT !.name = n, !.reserved = @ \ {s.back}, !.user = u,
                                  !.owner = NoDraw]
    <3>1. Require(s, cond) = s
      BY <2>2, RequireHolds
    <3>2. \A r : r = s => r.name = s.name /\ r.user = s.user
      OBVIOUS
    <3> QED  BY <1>2, <3>1 DEF MigrateFromFs, cond
  <2> HIDE DEF t
  <2>4. t.server = "up" /\ t.owner = NoDraw /\ t.reserved = {} /\ t.got = s.got
    BY <2>3 DEF FlipState, ReservedExact
  <2>5. t \in FlipState /\ Agrees(t, old)
    BY <2>4, MigrateFromFsType, MigrateGood DEF Good, t
  <2> QED  BY <2>4, <2>5, NoOwner DEF Vacant, t
<1> QED  BY <1>1, <1>2

(* pvr2d_dri2_takeover: another owner is gone, the same one keeps its claim. *)
LEMMA TakeOverClaim ==
  ASSUME NEW s \in FlipState, NEW old, s.server = "up", Agrees(s, old), ReservedExact(s),
         NEW draw \in Drawables
  PROVE  LET t == TakeOver(s, draw)
         IN  /\ t.server # "aborted"
             /\ t.server = "up" =>
                  /\ t.owner = draw /\ t.got = s.got /\ ReservedExact(t)
                  /\ \A i \in Buf : t.user[i] = IF s.owner = draw THEN s.user[i] ELSE NoBuffer
<1> DEFINE m == IF s.owner \in {NoDraw, draw} THEN s ELSE MigrateFromFs(s)
           t == TakeOver(s, draw)
<1>1. m \in FlipState
  BY MigrateFromFsType
<1>2. t = [m EXCEPT !.owner = draw]
  BY DEF TakeOver
<1>3. /\ m.server # "aborted"
      /\ m.server = "up" =>
           /\ m.got = s.got /\ ReservedExact(m) /\ m.back \in Buf
           /\ \A i \in Buf : m.user[i] = IF s.owner = draw THEN s.user[i] ELSE NoBuffer
  <2>1. CASE s.owner = draw
    BY <2>1 DEF FlipState
  <2>2. CASE s.owner = NoDraw
    <3>1. \A i \in Buf : s.user[i] = NoBuffer
      BY <2>2, NoOwner
    <3> QED  BY <2>2, <3>1, FlipAssumption DEF FlipState
  <2>3. CASE s.owner \notin {NoDraw, draw}
    <3>1. /\ m.server # "aborted"
          /\ m.server = "up" => Vacant(m) /\ m.got = s.got
      BY <2>3, MigrateClaim
    <3>2. m.back \in Buf /\ s.got \in SUBSET DRI2Buffer
      BY <1>1 DEF FlipState
    <3> HIDE DEF m
    <3> QED  BY <2>3, <3>1, <3>2, NoBufferType DEF Vacant, ReservedExact
  <2> QED  BY <2>1, <2>2, <2>3
<1> HIDE DEF m, t
<1>4. /\ t.server = m.server /\ t.owner = draw /\ t.got = m.got /\ t.back = m.back
      /\ t.user = m.user /\ t.reserved = m.reserved
  BY <1>1, <1>2 DEF FlipState
<1> QED  BY <1>3, <1>4 DEF ReservedExact, t

(* What is shown once b entered the chain, and only the owner stays there. *)
Entered(s, t, b) ==
  /\ t.owner = b[1]
  /\ \A i \in Buf : t.user[i] = IF i = IdxOf(s, b[2]) THEN b
                                ELSE IF s.owner = b[1] THEN s.user[i] ELSE NoBuffer

(* The buffer got no place in the chain, and nothing changed there. *)
KeptOut(s, t) ==
  t.owner = s.owner /\ t.reserved = s.reserved /\ \A i \in Buf : t.user[i] = s.user[i]

(***************************************************************************)
(* The end of both hooks that provide a buffer: the owner's buffer is put  *)
(* into the chain, unless it is there, is reserved and is handed out.      *)
(***************************************************************************)
LEMMA EnterClaim ==
  ASSUME NEW s \in FlipState, s.front # s.back, ReservedExact(s),
         NEW b \in DRI2Buffer, s.owner = b[1], NEW g, g = GetSysBuf(s, b) \/ (g = s /\ IsFs(s, b))
  PROVE  LET t == HandOut(Reserve(g, b), b)
         IN  t.server = s.server /\ ReservedExact(t) /\ Entered(s, t, b)
<1> DEFINE i == IdxOf(s, b[2])
           u == [s.user EXCEPT ![i] = b]
           r == Reserve(g, b)
           t == HandOut(r, b)
<1>1. i \in Buf /\ s.front \in Buf /\ s.back \in Buf /\ s.user \in [Buf -> DRI2Buffer \cup {NoBuffer}]
  BY IdxOfType DEF FlipState
<1>2. /\ g.server = s.server /\ g.owner = s.owner /\ g.got = s.got /\ g.back = s.back
      /\ g.reserved = s.reserved /\ g.user = u /\ g \in FlipState
  <2>1. CASE g = s /\ IsFs(s, b)
    BY <1>1, <2>1 DEF IsFs
  <2>2. CASE g = GetSysBuf(s, b)
    <3> HIDE DEF i
    <3>1. PICK n : g = [s EXCEPT !.name = n, !.user = u]
      BY <2>2 DEF GetSysBuf, i
    <3> HIDE DEF u
    <3> QED  BY <2>2, <3>1, GetSysBufType DEF FlipState
  <2> QED  BY <2>1, <2>2
<1> HIDE DEF u
<1>3. /\ r.server = g.server /\ r.owner = g.owner /\ r.got = g.got /\ r.back = g.back
      /\ r.user = g.user /\ r \in FlipState
      /\ r.reserved = IF b[2] = "back" THEN g.reserved \cup {g.back} ELSE g.reserved
  BY <1>2, ReserveType DEF Reserve, FlipState
<1> HIDE DEF r
<1>4. /\ t.server = r.server /\ t.owner = r.owner /\ t.back = r.back
      /\ t.user = r.user /\ t.reserved = r.reserved
      /\ t.got = IF b[2] = "back" THEN r.got \cup {b} ELSE r.got
  BY <1>3 DEF HandOut, FlipState
<1> HIDE DEF t
<1>5. t.user = u /\ \A j \in Buf : u[j] = IF j = i THEN b ELSE s.user[j]
  BY <1>1, <1>2, <1>3, <1>4 DEF u
<1>6. b[2] \in {"front", "back"}
  BY DEF DRI2Buffer, Attachment
<1>7. ReservedExact(t)
  <2>1. CASE b[2] = "back"
    <3>1. u[s.back] = b
      BY <1>1, <1>5, <2>1 DEF IdxOf
    <3> QED  BY <1>2, <1>3, <1>4, <1>5, <2>1, <3>1 DEF ReservedExact
  <2>2. CASE b[2] = "front"
    <3>1. u[s.back] = s.user[s.back]
      BY <1>1, <1>5, <2>2 DEF IdxOf
    <3> QED  BY <1>2, <1>3, <1>4, <1>5, <2>2, <3>1 DEF ReservedExact
  <2> QED  BY <1>6, <2>1, <2>2
<1>8. Entered(s, t, b)
  BY <1>2, <1>3, <1>4, <1>5 DEF Entered
<1> QED  BY <1>2, <1>3, <1>4, <1>7, <1>8 DEF t, r

(* A buffer that is not in the chain is handed out as it is. *)
LEMMA KeepOutClaim ==
  ASSUME NEW s \in FlipState, ReservedExact(s), NEW b \in DRI2Buffer, s.user[s.back] # b
  PROVE  LET t == HandOut(s, b)
         IN  t.server = s.server /\ ReservedExact(t) /\ KeptOut(s, t)
<1> DEFINE t == HandOut(s, b)
<1>1. /\ t.server = s.server /\ t.owner = s.owner /\ t.back = s.back
      /\ t.user = s.user /\ t.reserved = s.reserved
      /\ t.got = IF b[2] = "back" THEN s.got \cup {b} ELSE s.got
  BY DEF HandOut, FlipState
<1> HIDE DEF t
<1> QED  BY <1>1 DEF ReservedExact, KeptOut, t

(***************************************************************************)
(* pvr2d_dri2_create_buf: no assertion fails, and the buffer enters the    *)
(* chain or changes nothing there.                                         *)
(***************************************************************************)
LEMMA CreateBufClaim ==
  ASSUME NEW s \in FlipState, NEW old, s.server = "up", Agrees(s, old), ReservedExact(s),
         NEW b \in DRI2Buffer, b \notin s.held, NEW full
  PROVE  LET t == CreateBuf(s, b, full)
         IN  /\ t.server # "aborted"
             /\ t.server = "up" =>
                  /\ ReservedExact(t)
                  /\ IF PageFlipPossible(s, b[1], full) THEN Entered(s, t, b) ELSE KeptOut(s, t)
<1> DEFINE n == [s EXCEPT !.held = @ \cup {b}, !.got = @ \ {b}]
           t == TakeOver(n, b[1])
           g == GetSysBuf(t, b)
           p == GetNonSysBuf(n, b)
           alone == old \cup {b}
<1>1. s.got \ {b} = s.got /\ \A i \in Buf : s.user[i] # b
  BY NoBufferType DEF Agrees
<1>2. s.front \in Buf /\ s.back \in Buf /\ b[1] \in Drawables
  BY DEF FlipState, DRI2Buffer
<1>3. /\ n \in FlipState /\ n.front = s.front /\ n.back = s.back /\ n.owner = s.owner
      /\ n.server = s.server /\ n.user = s.user /\ n.reserved = s.reserved /\ n.got = s.got
      /\ n.busy = s.busy /\ n.held = s.held \cup {b} /\ n.name = s.name
  <2>1. s.held \cup {b} \in SUBSET DRI2Buffer
    BY DEF FlipState
  <2> QED  BY <1>1, <2>1 DEF FlipState
<1>4. CreateBuf(s, b, full) = HandOut(IF PageFlipPossible(n, b[1], full) THEN Reserve(g, b) ELSE p, b)
  BY DEF CreateBuf
<1> HIDE DEF n
<1>5. Agrees(n, alone) /\ ReservedExact(n)
  BY <1>3 DEF Agrees, ReservedExact, IdxOf
<1>6. PageFlipPossible(n, b[1], full) <=> PageFlipPossible(s, b[1], full)
  BY <1>3 DEF PageFlipPossible
<1>7. CASE PageFlipPossible(n, b[1], full)
  <2>1. /\ t \in FlipState /\ t.server # "aborted" /\ t.front = s.front /\ t.back = s.back
        /\ t.server = "up" =>
             /\ t.owner = b[1] /\ ReservedExact(t)
             /\ \A i \in Buf : t.user[i] = IF s.owner = b[1] THEN s.user[i] ELSE NoBuffer
    <3>1. t.server # "aborted" /\ (t.server = "up" =>
             /\ t.owner = b[1] /\ ReservedExact(t)
             /\ \A i \in Buf : t.user[i] = IF n.owner = b[1] THEN n.user[i] ELSE NoBuffer)
      BY <1>2, <1>3, <1>5, TakeOverClaim
    <3>2. t \in FlipState /\ SameRing(n, t)
      BY <1>2, <1>3, TakeOverType, HookPartsRing
    <3> HIDE DEF t
    <3> QED  BY <1>3, <3>1, <3>2 DEF SameRing
  <2> HIDE DEF t
  <2> DEFINE h == HandOut(Reserve(g, b), b)
  <2>2. CASE t.server = "up"
    <3>1. s.front # s.back
      BY <1>7 DEF PageFlipPossible, Agrees
    <3>2. h.server = t.server /\ ReservedExact(h) /\ Entered(t, h, b)
      BY <2>1, <2>2, <3>1, EnterClaim
    <3> HIDE DEF h
    <3>3. Entered(s, h, b)
      BY <2>1, <2>2, <3>2 DEF Entered, IdxOf
    <3> QED  BY <1>4, <1>6, <1>7, <2>2, <3>2, <3>3 DEF h
  <2>3. CASE t.server # "up"
    <3>1. t.server = "segfault"
      BY <2>1, <2>3 DEF FlipState, Status
    <3>2. g \in FlipState /\ SameRing(t, g)
      BY <1>2, <2>1, GetSysBufType, HookPartsRing
    <3> HIDE DEF g
    <3>3. Reserve(g, b) \in FlipState /\ SameRing(g, Reserve(g, b))
      BY <1>2, <3>2, ReserveType, HookPartsRing
    <3>4. SameRing(Reserve(g, b), h)
      BY <1>2, <3>3, HookPartsRing
    <3> HIDE DEF h
    <3>5. h.server = "segfault"
      BY <3>1, <3>2, <3>3, <3>4 DEF SameRing
    <3> QED  BY <1>4, <1>7, <3>5 DEF h, g
  <2> QED  BY <2>2, <2>3
<1>8. CASE ~PageFlipPossible(n, b[1], full)
  <2>1. /\ p \in FlipState /\ p.server = s.server /\ p.owner = s.owner /\ p.back = s.back
        /\ p.user = s.user /\ p.reserved = s.reserved /\ p.got = s.got
    BY <1>3, GetNonSysBufType DEF GetNonSysBuf, FlipState
  <2> HIDE DEF p
  <2>2. ReservedExact(p) /\ p.user[p.back] # b
    BY <1>1, <1>2, <2>1 DEF ReservedExact
  <2> DEFINE h == HandOut(p, b)
  <2>3. h.server = p.server /\ ReservedExact(h) /\ KeptOut(p, h)
    BY <2>1, <2>2, KeepOutClaim
  <2> HIDE DEF h
  <2>4. KeptOut(s, h)
    BY <2>1, <2>3 DEF KeptOut
  <2> QED  BY <1>4, <1>6, <1>8, <2>1, <2>3, <2>4 DEF h
<1> QED  BY <1>7, <1>8

(***************************************************************************)
(* pvr2d_dri2_reuse_buf, while an owner never waits for its next back      *)
(* buffer: the owner's buffer is in the chain whenever the owner leaves,   *)
(* as the assertion says.                                                  *)
(***************************************************************************)
LEMMA ReuseBufClaim ==
  ASSUME NEW s \in FlipState, NEW old, s.server = "up", Agrees(s, old), ReservedExact(s),
         NEW b \in DRI2Buffer, NEW full,
         s.owner = b[1] => s.back \notin s.busy,
         s.owner = b[1] /\ ~PageFlipPossible(s, b[1], full) => IsFs(s, b)
  PROVE  LET t == ReuseBuf(s, b, full)
         IN  /\ t.server # "aborted"
             /\ t.server = "up" =>
                  /\ ReservedExact(t)
                  /\ IF PageFlipPossible(s, b[1], full) THEN Entered(s, t, b)
                     ELSE IF s.owner = b[1] THEN Vacant(t)
                     ELSE KeptOut(s, t)
<1> DEFINE m == LeaveIfNotCapable(s, b, full)
           t == TakeOver(m, b[1])
           g == IF IsFs(t, b) THEN t ELSE GetSysBuf(t, b)
<1>1. ReuseBuf(s, b, full) = HandOut(IF PageFlipPossible(m, b[1], full) THEN Reserve(g, b) ELSE m, b)
  BY DEF ReuseBuf
<1>2. b[1] \in Drawables /\ b # NoBuffer /\ s.back \in Buf
  BY NoBufferType DEF DRI2Buffer, FlipState
<1>3. CASE PageFlipPossible(s, b[1], full)
  <2>1. m = s
    BY <1>3, FlipAssumption DEF LeaveIfNotCapable, PageFlipPossible
  <2>2. t \in FlipState /\ t.server # "aborted" /\ t.front = s.front /\ t.back = s.back
    BY <1>2, <2>1, TakeOverClaim, TakeOverType, HookPartsRing DEF SameRing
  <2>3. t.server = "up" =>
          /\ t.owner = b[1] /\ ReservedExact(t)
          /\ \A i \in Buf : t.user[i] = IF s.owner = b[1] THEN s.user[i] ELSE NoBuffer
    BY <1>2, <2>1, TakeOverClaim
  <2> HIDE DEF t, m
  <2> DEFINE h == HandOut(Reserve(g, b), b)
  <2>4. ReuseBuf(s, b, full) = h
    BY <1>1, <1>3, <2>1
  <2>5. CASE t.server = "up"
    <3>1. s.front # s.back
      BY <1>3 DEF PageFlipPossible, Agrees
    <3>2. h.server = t.server /\ ReservedExact(h) /\ Entered(t, h, b)
      BY <2>2, <2>3, <2>5, <3>1, EnterClaim
    <3> HIDE DEF h
    <3>3. Entered(s, h, b)
      BY <2>2, <2>3, <2>5, <3>2 DEF Entered, IdxOf
    <3> QED  BY <1>3, <2>4, <2>5, <3>2, <3>3
  <2>6. CASE t.server # "up"
    <3>1. t.server = "segfault"
      BY <2>2, <2>6 DEF FlipState, Status
    <3>2. g \in FlipState /\ SameRing(t, g)
      BY <1>2, <2>2, GetSysBufType, HookPartsRing DEF SameRing
    <3> HIDE DEF g
    <3>3. Reserve(g, b) \in FlipState /\ SameRing(g, Reserve(g, b))
      BY <1>2, <3>2, ReserveType, HookPartsRing
    <3>4. SameRing(Reserve(g, b), h)
      BY <1>2, <3>3, HookPartsRing
    <3> HIDE DEF h
    <3>5. h.server = "segfault"
      BY <3>1, <3>2, <3>3, <3>4 DEF SameRing
    <3> QED  BY <2>4, <3>5
  <2> QED  BY <2>5, <2>6
<1>4. CASE ~PageFlipPossible(s, b[1], full) /\ s.owner = b[1]
  <2>1. full # b[1] \/ NumBufs < 2
    BY <1>4, FlipAssumption DEF PageFlipPossible
  <2>2. m = MigrateFromFs(s)
    BY <1>4, <2>1, RequireHolds DEF LeaveIfNotCapable
  <2>3. m \in FlipState /\ m.server # "aborted" /\ (m.server = "up" => Vacant(m))
    BY <2>2, MigrateClaim, MigrateFromFsType
  <2>4. ~PageFlipPossible(m, b[1], full)
    BY <2>1, FlipAssumption DEF PageFlipPossible
  <2> HIDE DEF m
  <2> DEFINE h == HandOut(m, b)
  <2>5. ReuseBuf(s, b, full) = h
    BY <1>1, <2>4
  <2>6. /\ h.server = m.server /\ h.owner = m.owner /\ h.back = m.back
        /\ h.user = m.user /\ h.reserved = m.reserved
        /\ h.got = IF b[2] = "back" THEN m.got \cup {b} ELSE m.got
    BY <2>3 DEF HandOut, FlipState
  <2> HIDE DEF h
  <2>7. ASSUME h.server = "up" PROVE Vacant(h) /\ ReservedExact(h)
    <3>1. Vacant(m) /\ m.back \in Buf /\ m.got \in SUBSET DRI2Buffer
      BY <2>3, <2>6, <2>7 DEF FlipState
    <3>2. m.got = s.got
      BY <2>2, <2>6, <2>7, MigrateClaim
    <3> QED  BY <1>2, <2>6, <3>1, <3>2, NoBufferType DEF Vacant, ReservedExact
  <2> QED  BY <1>4, <2>3, <2>5, <2>6, <2>7
<1>5. CASE ~PageFlipPossible(s, b[1], full) /\ s.owner # b[1]
  <2>1. m = s
    BY <1>5 DEF LeaveIfNotCapable
  <2>2. s.user[s.back] # b
    BY <1>2, <1>5, ShownApart
  <2> DEFINE h == HandOut(s, b)
  <2>3. ReuseBuf(s, b, full) = h
    BY <1>1, <1>5, <2>1
  <2>4. h.server = s.server /\ ReservedExact(h) /\ KeptOut(s, h)
    BY <2>2, KeepOutClaim
  <2> HIDE DEF h
  <2> QED  BY <1>5, <2>3, <2>4
<1> QED  BY <1>3, <1>4, <1>5

(***************************************************************************)
(* pvr2d_dri2_destroy_buf: the front buffer is not reserved, and a claim   *)
(* that was exact but for buffers to be dropped stays so.                  *)
(***************************************************************************)
LEMMA DestroyBufClaim ==
  ASSUME NEW s \in FlipState, NEW old, NEW drop, NEW b \in s.held,
         s.server = "up", Agrees(s, old), Claimed(s, drop)
  PROVE  DestroyBuf(s, b).server = "up" /\ Claimed(DestroyBuf(s, b), drop)
<1> DEFINE at  == {i \in {s.front, s.back} : s.owner = b[1] /\ s.user[i] = b}
           usr == [i \in Buf |-> IF i \in at THEN NoBuffer ELSE s.user[i]]
           rsv == IF s.back \in at THEN s.reserved \ {s.back} ELSE s.reserved
           own == IF at # {} /\ usr[s.front] = NoBuffer /\ usr[s.back] = NoBuffer
                    THEN NoDraw ELSE s.owner
           t   == DestroyBuf(s, b)
<1>1. s.front \in Buf /\ s.back \in Buf /\ b \in DRI2Buffer /\ b # NoBuffer
      /\ s.got \in SUBSET DRI2Buffer
  BY NoBufferType DEF FlipState
<1>2. ReservedExact(s) /\ OwnerShown(s)
  BY DEF Claimed
<1>3. s.front \in at => s.front \notin s.reserved
  BY <1>1, <1>2, ShownApart DEF ReservedExact
<1>4. PICK n : t = [s EXCEPT !.user = usr, !.reserved = rsv, !.owner = own,
                             !.held = @ \ {b}, !.got = @ \ {b}, !.name = n]
  <2>1. Require(s, s.front \in at => s.front \notin s.reserved) = s
    BY <1>3, RequireHolds
  <2> QED  BY <2>1 DEF DestroyBuf
<1>5. \A i \in Buf : usr[i] = IF i \in at THEN NoBuffer ELSE s.user[i]
  OBVIOUS
<1>6. \A i \in Buf : s.user[i] = b => i \in at
  BY <1>1, ShownApart
<1>7. rsv = IF usr[s.back] \in s.got \ {b} THEN {s.back} ELSE {}
  <2>1. CASE s.back \in at
    BY <1>1, <1>2, <1>5, <2>1, NoBufferType DEF ReservedExact
  <2>2. CASE s.back \notin at
    BY <1>1, <1>2, <1>5, <1>6, <2>2 DEF ReservedExact
  <2> QED  BY <2>1, <2>2
<1>8. own \in {s.owner, NoDraw}
  OBVIOUS
<1>9. own # NoDraw => \E i \in Buf : usr[i] # NoBuffer
  <2>1. CASE at = {}
    BY <1>2, <1>5, <2>1 DEF OwnerShown
  <2>2. CASE at # {}
    BY <1>1, <2>2
  <2> QED  BY <2>1, <2>2
<1> HIDE DEF usr, rsv, own, t
<1>10. /\ t.server = "up" /\ t.user = usr /\ t.reserved = rsv /\ t.owner = own
       /\ t.held = s.held \ {b} /\ t.got = s.got \ {b} /\ t.front = s.front /\ t.back = s.back
  BY <1>4 DEF FlipState
<1>11. ReservedExact(t) /\ OwnerShown(t)
  BY <1>2, <1>7, <1>9, <1>10 DEF ReservedExact, OwnerShown
<1>12. CASE OwnerHolds(s, drop)
  <2> SUFFICES ASSUME NEW c \in t.held \ drop, c[1] = t.owner
               PROVE  t.user[IdxOf(t, c[2])] = c
    BY <1>10, <1>11, <1>12 DEF Claimed, OwnerHolds, t
  <2>1. c \in s.held \ drop /\ c # b /\ c \in DRI2Buffer
    BY <1>10 DEF FlipState
  <2>2. c[1] = s.owner
    BY <1>8, <1>10, <2>1, FlipAssumption DEF DRI2Buffer
  <2>3. s.user[IdxOf(s, c[2])] = c
    BY <1>12, <2>1, <2>2 DEF OwnerHolds
  <2> QED  BY <1>1, <1>5, <1>10, <2>1, <2>3 DEF IdxOf
<1>13. CASE OwnerLeaves(s, drop)
  <2>1. OwnerLeaves(t, drop)
    BY <1>5, <1>10, <1>13 DEF OwnerLeaves
  <2> QED  BY <1>10, <1>11, <2>1 DEF Claimed, t
<1> QED  BY <1>12, <1>13 DEF Claimed

-----------------------------------------------------------------------------
(* What does not exist is not destroyed. *)
LEMMA DropBufClaim ==
  ASSUME NEW s \in FlipState, NEW old, NEW drop, NEW b, Good(s, old), Claimed(s, drop)
  PROVE  /\ Claimed(DropBuf(s, b), drop) /\ DropBuf(s, b).owner \in {s.owner, NoDraw}
         /\ DropBuf(s, b).reserved \subseteq s.reserved
<1>1. CASE b \notin s.held
  BY <1>1 DEF DropBuf
<1>2. CASE b \in s.held
  <2> DEFINE t == DestroyBuf(s, b)
  <2>1. DropBuf(s, b) = t /\ b \in DRI2Buffer
    BY <1>2 DEF DropBuf, FlipState
  <2>2. SameRing(s, t)
    BY <2>1, DestroyBufRing
  <2>3. t.owner \in {s.owner, NoDraw} /\ t.reserved \subseteq s.reserved
    <3> DEFINE cond == s.front \in {i \in {s.front, s.back} : s.owner = b[1] /\ s.user[i] = b}
                         => s.front \notin s.reserved
               r == Require(s, cond)
    <3>1. r \in FlipState /\ r.owner = s.owner /\ r.reserved = s.reserved
      BY RequireType, RequireSame DEF SameOwnership
    <3> HIDE DEF cond
    <3>2. PICK u, v, o : t = [r EXCEPT !.user = u,
                               !.reserved = IF v THEN @ \ {s.back} ELSE @,
                               !.owner = IF o THEN NoDraw ELSE @,
                               !.held = @ \ {b}, !.got = @ \ {b}, !.name[b] = Private]
      BY DEF DestroyBuf, cond
    <3> HIDE DEF r, t
    <3>3. /\ t.reserved = IF v THEN r.reserved \ {s.back} ELSE r.reserved
          /\ t.owner = IF o THEN NoDraw ELSE r.owner
      BY <3>1, <3>2 DEF FlipState
    <3> QED  BY <3>1, <3>2, <3>3
  <2>4. CASE s.server = "up"
    BY <1>2, <2>1, <2>3, <2>4, DestroyBufClaim DEF Good
  <2>5. CASE s.server # "up"
    <3>1. s.server = "segfault"
      BY <2>5 DEF Claimed, FlipState, Status
    <3> QED  BY <2>1, <2>2, <2>3, <3>1 DEF SameRing, Claimed
  <2> QED  BY <2>4, <2>5
<1> QED  BY <1>1, <1>2

(* Once they are dropped nothing is left of the buffers in the claim. *)
LEMMA NothingDropped ==
  ASSUME NEW s \in FlipState, NEW drop, Good(s, {}), Claimed(s, drop), s.held \cap drop = {}
  PROVE  Claimed(s, {}) /\ (s.server = "up" => OwnerHolds(s, {}))
<1> SUFFICES ASSUME s.server = "up" PROVE OwnerHolds(s, {})
  BY DEF Claimed
<1>1. Agrees(s, {}) /\ OwnerShown(s)
  BY DEF Good, Claimed
<1>2. CASE OwnerHolds(s, drop)
  BY <1>2 DEF OwnerHolds
<1>3. CASE OwnerLeaves(s, drop)
  <2>1. \A i \in Buf : s.user[i] = NoBuffer
    BY <1>1, <1>3 DEF OwnerLeaves, Agrees
  <2>2. s.owner = NoDraw
    BY <1>1, <2>1 DEF OwnerShown
  <2> QED  BY <2>2, FlipAssumption DEF OwnerHolds, FlipState, DRI2Buffer
<1> QED  BY <1>2, <1>3 DEF Claimed

(***************************************************************************)
(* The claim between requests: every buffer of the owner is in the chain.  *)
(***************************************************************************)
Claim(s) ==
  /\ s.server # "aborted"
  /\ s.server = "up" => OwnerShown(s) /\ ReservedExact(s) /\ OwnerHolds(s, {})

(* New buffers take the place of the old ones, in the chain as well. *)
LEMMA SettleClaim ==
  ASSUME NEW s \in FlipState, NEW draw \in Drawables, Good(s, {}), Claim(s),
         \A c \in s.held : c[1] # draw => c[3] = 0,
         \A att \in Attachment : ~({<<draw, att, 0>>, <<draw, att, 1>>} \subseteq s.held)
  PROVE  /\ Claim(Settle(s, draw)) /\ Settle(s, draw).owner = s.owner
         /\ Settle(s, draw).reserved = s.reserved
<1> DEFINE Now(b) == IF b # NoBuffer /\ b[1] = draw THEN <<draw, b[2], 0>> ELSE b
           us == [i \in Buf |-> Now(s.user[i])]
           hd == {Now(b) : b \in s.held}
           gt == {Now(b) : b \in s.got}
           t  == Settle(s, draw)
<1>1. PICK n : t = [s EXCEPT !.user = us, !.held = hd, !.got = gt, !.name = n]
  BY DEF Settle
<1>2. /\ s.held \in SUBSET DRI2Buffer /\ s.got \in SUBSET DRI2Buffer /\ NoBuffer \notin DRI2Buffer
      /\ s.user \in [Buf -> DRI2Buffer \cup {NoBuffer}] /\ s.back \in Buf /\ s.front \in Buf
  BY NoBufferType DEF FlipState
<1>3. ASSUME NEW c \in DRI2Buffer
      PROVE  /\ Now(c)[1] = c[1] /\ Now(c)[2] = c[2] /\ Now(c) # NoBuffer
    <2>1. Now(c) \in DRI2Buffer /\ Now(c)[1] = c[1] /\ Now(c)[2] = c[2]
      BY <1>2 DEF DRI2Buffer
    <2> QED  BY <1>2, <2>1
<1>4. \A c, d \in s.held : Now(c) = Now(d) => c = d
  <2> SUFFICES ASSUME NEW c \in s.held, NEW d \in s.held, Now(c) = Now(d) PROVE c = d
    OBVIOUS
  <2>1. c \in DRI2Buffer /\ d \in DRI2Buffer
    BY <1>2
  <2>2. PICK x \in Drawables, a \in Attachment, g \in {0, 1} : c = <<x, a, g>>
    BY <2>1 DEF DRI2Buffer
  <2>3. PICK y \in Drawables, e \in Attachment, h \in {0, 1} : d = <<y, e, h>>
    BY <2>1 DEF DRI2Buffer
  <2>4. c[1] = d[1] /\ c[2] = d[2]
    BY <1>3, <2>1
  <2>5. x = y /\ a = e
    BY <2>2, <2>3, <2>4
  <2>6. CASE x = draw
    BY <2>2, <2>3, <2>5, <2>6
  <2>7. CASE x # draw
    <3>1. g = 0 /\ h = 0
      BY <2>2, <2>3, <2>5, <2>7
    <3> QED  BY <2>2, <2>3, <2>5, <3>1
  <2> QED  BY <2>6, <2>7
<1>5. Now(NoBuffer) = NoBuffer
  OBVIOUS
<1>6. /\ \A i \in Buf : us[i] = Now(s.user[i])
      /\ \A x : x \in hd <=> \E c \in s.held : x = Now(c)
      /\ \A x : x \in gt <=> \E c \in s.got : x = Now(c)
  OBVIOUS
<1> HIDE DEF Now, us, hd, gt, t
<1>7. /\ t.server = s.server /\ t.owner = s.owner /\ t.user = us /\ t.held = hd /\ t.got = gt
      /\ t.front = s.front /\ t.back = s.back /\ t.reserved = s.reserved
  BY <1>1 DEF FlipState
<1>8. ASSUME s.server = "up" PROVE OwnerShown(t) /\ ReservedExact(t) /\ OwnerHolds(t, {})
  <2>1. Agrees(s, {}) /\ OwnerShown(s) /\ ReservedExact(s) /\ OwnerHolds(s, {})
    BY <1>8 DEF Good, Claim
  <2>2. OwnerShown(t)
    BY <1>2, <1>3, <1>6, <1>7, <2>1 DEF OwnerShown
  <2>3. us[s.back] \in gt <=> s.user[s.back] \in s.got
    <3>1. s.got \subseteq s.held
      BY <2>1 DEF Agrees
    <3>2. s.user[s.back] # NoBuffer => s.user[s.back] \in s.held
      BY <1>2, <2>1 DEF Agrees
    <3>3. us[s.back] = Now(s.user[s.back])
      BY <1>2, <1>6
    <3>4. CASE s.user[s.back] = NoBuffer
      <4>1. us[s.back] = NoBuffer /\ NoBuffer \notin s.got
        BY <1>2, <1>5, <3>3, <3>4
      <4>2. NoBuffer \notin gt
        BY <1>2, <1>3, <1>6
      <4> QED  BY <3>4, <4>1, <4>2
    <3>5. CASE s.user[s.back] # NoBuffer
      BY <1>4, <1>6, <3>1, <3>2, <3>3, <3>5
    <3> QED  BY <3>4, <3>5
  <2>4. \A x \in gt : x[2] = "back"
    BY <1>2, <1>3, <1>6, <2>1 DEF ReservedExact
  <2>5. ReservedExact(t)
    BY <1>7, <2>1, <2>3, <2>4 DEF ReservedExact
  <2>6. OwnerHolds(t, {})
    <3> SUFFICES ASSUME NEW x \in hd, x[1] = s.owner PROVE us[IdxOf(s, x[2])] = x
      BY <1>7 DEF OwnerHolds, IdxOf
    <3>1. PICK c \in s.held : x = Now(c)
      BY <1>6
    <3>2. c[1] = s.owner /\ c[2] = x[2]
      BY <1>2, <1>3, <3>1
    <3>3. s.user[IdxOf(s, x[2])] = c
      BY <2>1, <3>2 DEF OwnerHolds
    <3> QED  BY <1>2, <1>6, <3>1, <3>3 DEF IdxOf
  <2> QED  BY <2>2, <2>5, <2>6
<1> QED  BY <1>7, <1>8 DEF Claim, t

-----------------------------------------------------------------------------
(* DRI2GetBuffers, for one attachment. *)
LEMMA ProvideClaim ==
  ASSUME pf \in FlipState, Settled(pf), NEW s \in FlipState, NEW draw \in Drawables,
         NEW att \in Attachment, NEW resized \in BOOLEAN,
         \A c \in DRI2Buffer : c[1] = draw /\ c[2] = att => (c \in s.held <=> c \in pf.held),
         s.server = "up", Agrees(s, Replaced(draw, resized)), ReservedExact(s),
         s.owner = draw => s.back \notin s.busy,
         (s.owner = draw /\ ~PageFlipPossible(s, draw, fs) /\ <<draw, att, 0>> \in pf.held
            /\ ~resized) => IsFs(s, <<draw, att, 0>>)
  PROVE  LET t == Provide(s, draw, att, resized)
         IN  /\ t.server # "aborted"
             /\ t.server = "up" =>
                  /\ ReservedExact(t)
                  /\ IF PageFlipPossible(s, draw, fs) THEN Entered(s, t, Newest(draw, att, resized))
                     ELSE \/ s.owner = draw /\ Vacant(t)
                          \/ /\ KeptOut(s, t)
                             /\ s.owner = draw => resized \/ <<draw, att, 0>> \notin pf.held
<1> DEFINE b0 == <<draw, att, 0>>
           b1 == <<draw, att, 1>>
           X  == Replaced(draw, resized)
<1>1. /\ b0 \in DRI2Buffer /\ b1 \in DRI2Buffer /\ NoBuffer \notin DRI2Buffer
      /\ b0[1] = draw /\ b0[2] = att /\ b1[1] = draw /\ b1[2] = att /\ b1[3] = 1
  BY NoBufferType DEF DRI2Buffer
<1>2. b1 \notin s.held /\ (b0 \in s.held <=> b0 \in pf.held)
  BY <1>1 DEF Settled
<1> HIDE DEF b0, b1, X
<1>3. CASE b0 \notin pf.held
  <2>1. Provide(s, draw, att, resized) = CreateBuf(s, b0, fs) /\ Newest(draw, att, resized) = b0
    BY <1>3 DEF Provide, Newest, BufferOf, b0
  <2>2. LET t == CreateBuf(s, b0, fs)
        IN  /\ t.server # "aborted"
            /\ t.server = "up" =>
                 /\ ReservedExact(t)
                 /\ IF PageFlipPossible(s, b0[1], fs) THEN Entered(s, t, b0) ELSE KeptOut(s, t)
    BY <1>1, <1>2, <1>3, CreateBufClaim
  <2> QED  BY <1>1, <1>3, <2>1, <2>2 DEF b0
<1>4. CASE b0 \in pf.held /\ resized
  <2>1. Provide(s, draw, att, resized) = CreateBuf(s, b1, fs) /\ Newest(draw, att, resized) = b1
    BY <1>1, <1>4 DEF Provide, Newest, BufferOf, b0, b1
  <2>2. LET t == CreateBuf(s, b1, fs)
        IN  /\ t.server # "aborted"
            /\ t.server = "up" =>
                 /\ ReservedExact(t)
                 /\ IF PageFlipPossible(s, b1[1], fs) THEN Entered(s, t, b1) ELSE KeptOut(s, t)
    BY <1>1, <1>2, CreateBufClaim
  <2> QED  BY <1>1, <1>4, <2>1, <2>2
<1>5. CASE b0 \in pf.held /\ ~resized
  <2>1. Provide(s, draw, att, resized) = ReuseBuf(s, b0, fs) /\ Newest(draw, att, resized) = b0
    BY <1>1, <1>5 DEF Provide, Newest, BufferOf, b0
  <2>2. s.owner = draw /\ ~PageFlipPossible(s, draw, fs) => IsFs(s, b0)
    BY <1>5 DEF b0
  <2>3. LET t == ReuseBuf(s, b0, fs)
        IN  /\ t.server # "aborted"
            /\ t.server = "up" =>
                 /\ ReservedExact(t)
                 /\ IF PageFlipPossible(s, b0[1], fs) THEN Entered(s, t, b0)
                    ELSE IF s.owner = b0[1] THEN Vacant(t)
                    ELSE KeptOut(s, t)
    BY <1>1, <2>2, ReuseBufClaim
  <2> QED  BY <1>1, <2>1, <2>3
<1> QED  BY <1>3, <1>4, <1>5

(***************************************************************************)
(* What a request for buffers made of the chain of pf once it provided the *)
(* attachments in A: draw moved in with them, or it moved out because it   *)
(* is not fullscreen any more, or the chain is as it was.                  *)
(***************************************************************************)
MovedIn(s, draw, A, resized) ==
  /\ PageFlipPossible(pf, draw, fs) /\ A # {}
  /\ s.owner = draw
  /\ \A att \in A : s.user[IdxOf(pf, att)] = Newest(draw, att, resized)

MovedOut(s, draw) ==
  /\ ~PageFlipPossible(pf, draw, fs) /\ (fs # draw \/ NumBufs < 2)
  /\ Vacant(s)

Untouched(s, draw, A, resized) ==
  /\ PageFlipPossible(pf, draw, fs) => A = {}
  /\ KeptOut(pf, s)
  /\ pf.owner = draw => \A att \in A : resized \/ <<draw, att, 0>> \notin pf.held

Provided(s, draw, A, resized) ==
  /\ s.server # "aborted"
  /\ s.server = "up" =>
       /\ ReservedExact(s)
       /\ \/ MovedIn(s, draw, A, resized)
          \/ MovedOut(s, draw)
          \/ Untouched(s, draw, A, resized)

(* It does so one attachment after the other. *)
LEMMA ProvidedNext ==
  ASSUME pf \in FlipState, Settled(pf), Claim(pf), pf.server = "up",
         NEW s \in FlipState, NEW draw \in Drawables, NEW A \in SUBSET Attachment,
         NEW att \in Attachment, att \notin A, NEW resized \in BOOLEAN,
         pf.owner = draw => NumBufs >= 2 /\ pf.back \notin pf.busy,
         \A c \in DRI2Buffer : c[1] = draw /\ c[2] = att => (c \in s.held <=> c \in pf.held),
         Good(s, Replaced(draw, resized)), SameRing(pf, s),
         Provided(s, draw, A, resized)
  PROVE  Provided(Provide(s, draw, att, resized), draw, A \cup {att}, resized)
<1> DEFINE b0 == <<draw, att, 0>>
           t  == Provide(s, draw, att, resized)
<1>1. t \in FlipState /\ SameRing(s, t) /\ b0[2] = att
  BY ProvideType, ModuleRing
<1>2. CASE s.server # "up"
  <2>1. s.server = "segfault"
    BY <1>2 DEF Provided, FlipState, Status
  <2> QED  BY <1>1, <2>1 DEF SameRing, Provided
<1>3. CASE s.server = "up"
  <2>1. Agrees(s, Replaced(draw, resized)) /\ ReservedExact(s)
    BY <1>3 DEF Good, Provided
  <2>2. s.back = pf.back /\ s.front = pf.front /\ s.busy = pf.busy
    BY DEF SameRing
  <2>3. MovedIn(s, draw, A, resized) => PageFlipPossible(s, draw, fs)
    BY <2>2 DEF MovedIn, PageFlipPossible
  <2>4. MovedOut(s, draw) => ~PageFlipPossible(s, draw, fs) /\ s.owner # draw
    BY FlipAssumption DEF MovedOut, Vacant, PageFlipPossible
  <2>5. Untouched(s, draw, A, resized) =>
          (PageFlipPossible(s, draw, fs) <=> PageFlipPossible(pf, draw, fs))
    BY <2>2 DEF Untouched, KeptOut, PageFlipPossible
  <2>6. \/ MovedIn(s, draw, A, resized) \/ MovedOut(s, draw) \/ Untouched(s, draw, A, resized)
    BY <1>3 DEF Provided
  <2>7. s.owner = draw => s.back \notin s.busy
    BY <2>2, <2>4, <2>6 DEF MovedIn, Untouched, KeptOut, PageFlipPossible
  <2>8. (s.owner = draw /\ ~PageFlipPossible(s, draw, fs) /\ b0 \in pf.held /\ ~resized)
          => IsFs(s, b0)
    <3> HIDE DEF b0
    <3> SUFFICES ASSUME s.owner = draw, ~PageFlipPossible(s, draw, fs), b0 \in pf.held
                 PROVE  s.user[IdxOf(s, b0[2])] = b0
      BY DEF IsFs
    <3>1. KeptOut(pf, s)
      BY <2>3, <2>4, <2>6 DEF Untouched
    <3>2. pf.user[IdxOf(pf, att)] = b0
      <4>1. OwnerHolds(pf, {}) /\ b0[1] = pf.owner
        BY <3>1 DEF Claim, KeptOut, b0
      <4>2. pf.user[IdxOf(pf, b0[2])] = b0
        BY <4>1 DEF OwnerHolds
      <4> QED  BY <1>1, <4>2
    <3>3. IdxOf(s, att) = IdxOf(pf, att) /\ IdxOf(pf, att) \in Buf
      BY <2>2, IdxOfType DEF IdxOf
    <3>4. s.user[IdxOf(s, att)] = b0
      BY <3>1, <3>2, <3>3 DEF KeptOut
    <3> QED  BY <1>1, <3>4
  <2> HIDE DEF b0
  <2>9. /\ t.server # "aborted"
        /\ t.server = "up" =>
             /\ ReservedExact(t)
             /\ IF PageFlipPossible(s, draw, fs) THEN Entered(s, t, Newest(draw, att, resized))
                ELSE \/ s.owner = draw /\ Vacant(t)
                     \/ /\ KeptOut(s, t)
                        /\ s.owner = draw => resized \/ b0 \notin pf.held
    BY <1>3, <2>1, <2>7, <2>8, ProvideClaim DEF b0
  <2> HIDE DEF t
  <2> SUFFICES ASSUME t.server = "up"
               PROVE  \/ MovedIn(t, draw, A \cup {att}, resized)
                      \/ MovedOut(t, draw)
                      \/ Untouched(t, draw, A \cup {att}, resized)
    BY <2>9 DEF Provided, t
  <2>10. CASE PageFlipPossible(s, draw, fs)
    <3>1. Entered(s, t, Newest(draw, att, resized))
      BY <2>9, <2>10
    <3>2. PageFlipPossible(pf, draw, fs) /\ pf.front # pf.back
      <4>1. PageFlipPossible(pf, draw, fs)
        BY <2>4, <2>5, <2>6, <2>10 DEF MovedIn
      <4> QED  BY <2>1, <2>2, <4>1 DEF PageFlipPossible, Agrees
    <3>3. Newest(draw, att, resized)[1] = draw /\ Newest(draw, att, resized)[2] = att
      BY DEF Newest
    <3>4. t.owner = draw /\ t.user[IdxOf(pf, att)] = Newest(draw, att, resized)
      BY <2>2, <3>1, <3>3, IdxOfType DEF Entered, IdxOf
    <3>5. ASSUME NEW a \in A PROVE t.user[IdxOf(pf, a)] = Newest(draw, a, resized)
      <4>1. s.user[IdxOf(pf, a)] = Newest(draw, a, resized) /\ s.owner = draw
        BY <2>4, <2>6, <2>10, <3>2, <3>5 DEF MovedIn, Untouched
      <4>2. IdxOf(pf, a) # IdxOf(s, att) /\ IdxOf(pf, a) \in Buf
        BY <2>2, <3>2, IdxOfType DEF IdxOf, Attachment
      <4> QED  BY <3>1, <3>3, <4>1, <4>2 DEF Entered
    <3> QED  BY <3>2, <3>4, <3>5 DEF MovedIn
  <2>11. CASE ~PageFlipPossible(s, draw, fs) /\ s.owner = draw /\ Vacant(t)
    <3>1. pf.owner = draw /\ ~PageFlipPossible(pf, draw, fs)
      BY <2>3, <2>4, <2>5, <2>6, <2>11 DEF Untouched, KeptOut
    <3>2. fs # draw
      BY <3>1 DEF PageFlipPossible
    <3> QED  BY <2>11, <3>1, <3>2 DEF MovedOut
  <2>12. CASE /\ ~PageFlipPossible(s, draw, fs) /\ KeptOut(s, t)
              /\ s.owner = draw => resized \/ b0 \notin pf.held
    <3>1. CASE MovedOut(s, draw)
      BY <2>12, <3>1 DEF MovedOut, KeptOut, Vacant
    <3>2. CASE Untouched(s, draw, A, resized)
      BY <2>5, <2>12, <3>2 DEF Untouched, KeptOut, b0
    <3> QED  BY <2>3, <2>6, <2>12, <3>1, <3>2
  <2> QED  BY <2>9, <2>10, <2>11, <2>12
<1> QED  BY <1>2, <1>3

(* At first nothing was provided. *)
LEMMA ProvidedNothing ==
  ASSUME Claim(pf), NEW draw, NEW resized
  PROVE  Provided(pf, draw, {}, resized)
BY DEF Claim, Provided, Untouched, KeptOut

(***************************************************************************)
(* The claim is exact but for the buffers in drop: the replaced ones, and  *)
(* those of the attachments that were not asked for.                       *)
(***************************************************************************)
LEMMA ProvidedClaim ==
  ASSUME pf \in FlipState, Settled(pf), Claim(pf), pf.server = "up", Agrees(pf, {}),
         NEW s \in FlipState, NEW draw \in Drawables, NEW A \in SUBSET Attachment,
         NEW resized \in BOOLEAN, NEW drop, SameRing(pf, s), Provided(s, draw, A, resized),
         s.held = pf.held \cup {Newest(draw, att, resized) : att \in A},
         \A c \in pf.held : c[1] = draw /\ (resized \/ c[2] \notin A) => c \in drop
  PROVE  /\ Claimed(s, drop)
         /\ (s.server = "up" => \/ s.owner \in {pf.owner, NoDraw} /\ s.reserved \subseteq pf.reserved
                                \/ PageFlipPossible(pf, draw, fs))
<1> SUFFICES ASSUME s.server = "up"
             PROVE  /\ OwnerShown(s) /\ (OwnerHolds(s, drop) \/ OwnerLeaves(s, drop))
                    /\ \/ s.owner \in {pf.owner, NoDraw} /\ s.reserved \subseteq pf.reserved
                       \/ PageFlipPossible(pf, draw, fs)
  BY DEF Claimed, Provided
<1>1. /\ pf.held \in SUBSET DRI2Buffer /\ s.held \in SUBSET DRI2Buffer
      /\ \A c \in pf.held : c = <<c[1], c[2], 0>> /\ c[2] \in Attachment
  <2>1. pf.held \in SUBSET DRI2Buffer /\ s.held \in SUBSET DRI2Buffer
    BY DEF FlipState
  <2>2. \A c \in pf.held : c = <<c[1], c[2], c[3]>> /\ c[2] \in Attachment /\ c[3] = 0
    BY <2>1 DEF DRI2Buffer, Settled
  <2> QED  BY <2>1, <2>2
<1>2. OwnerShown(pf) /\ OwnerHolds(pf, {})
  BY DEF Claim
<1>3. \A a : IdxOf(s, a) = IdxOf(pf, a) /\ IdxOf(pf, a) \in Buf
  BY IdxOfType DEF SameRing, IdxOf
<1>4. \A a \in Attachment : /\ Newest(draw, a, resized)[1] = draw
                            /\ Newest(draw, a, resized)[2] = a
                            /\ Newest(draw, a, resized) \in DRI2Buffer
  BY DEF Newest, DRI2Buffer
<1>5. CASE MovedIn(s, draw, A, resized)
  <2>1. s.owner = draw /\ PageFlipPossible(pf, draw, fs)
    BY <1>5 DEF MovedIn
  <2>2. OwnerShown(s)
    <3>1. PICK a \in A : s.user[IdxOf(pf, a)] = Newest(draw, a, resized)
      BY <1>5 DEF MovedIn
    <3> QED  BY <1>3, <1>4, <3>1, NoBufferType DEF OwnerShown
  <2>3. OwnerHolds(s, drop)
    <3> SUFFICES ASSUME NEW c \in s.held \ drop, c[1] = draw PROVE s.user[IdxOf(pf, c[2])] = c
      BY <1>3, <2>1 DEF OwnerHolds
    <3>1. PICK a \in A : c = Newest(draw, a, resized)
      <4>1. CASE c \in pf.held
        <5>1. ~resized /\ c[2] \in A /\ c = <<draw, c[2], 0>>
          BY <1>1, <4>1
        <5>2. c = Newest(draw, c[2], resized)
          BY <5>1 DEF Newest
        <5> QED  BY <5>1, <5>2
      <4> QED  BY <4>1
    <3>2. c[2] = a
      BY <1>4, <3>1
    <3> QED  BY <1>5, <3>1, <3>2 DEF MovedIn
  <2> QED  BY <2>1, <2>2, <2>3
<1>6. CASE MovedOut(s, draw)
  <2>1. s.owner = NoDraw /\ s.reserved = {}
    BY <1>6 DEF MovedOut, Vacant
  <2> QED  BY <1>1, <2>1, FlipAssumption DEF OwnerShown, OwnerHolds, DRI2Buffer
<1>7. CASE Untouched(s, draw, A, resized)
  <2>1. /\ s.owner = pf.owner /\ s.reserved = pf.reserved
        /\ \A i \in Buf : s.user[i] = pf.user[i]
        /\ pf.owner = draw => \A a \in A : resized \/ <<draw, a, 0>> \notin pf.held
    BY <1>7 DEF Untouched, KeptOut
  <2>2. OwnerShown(s)
    BY <1>2, <2>1 DEF OwnerShown
  <2>3. CASE pf.owner = draw
    <3> SUFFICES ASSUME NEW i \in Buf, pf.user[i] # NoBuffer PROVE pf.user[i] \in drop
      BY <2>1, <2>2 DEF OwnerLeaves
    <3>1. pf.user[i] \in pf.held /\ pf.user[i][1] = draw
      BY <2>3 DEF Agrees
    <3>2. pf.user[i] = <<draw, pf.user[i][2], 0>>
      BY <1>1, <3>1
    <3>3. pf.user[i][2] \in A => resized
      BY <2>1, <2>3, <3>1, <3>2
    <3> QED  BY <3>1, <3>3
  <2>4. CASE pf.owner # draw
    <3>1. \A c \in s.held : c[1] = pf.owner => c \in pf.held
      BY <1>4, <2>4
    <3>2. OwnerHolds(s, drop)
      BY <1>2, <1>3, <2>1, <3>1 DEF OwnerHolds
    <3> QED  BY <2>1, <2>2, <3>2
  <2> QED  BY <2>1, <2>3, <2>4
<1> QED  BY <1>5, <1>6, <1>7 DEF Provided

-----------------------------------------------------------------------------
(* No other drawable is the owner while the swap of one is uncompleted. *)
OwnerUnwaited ==
  Up => \A u \in Uncompleted : pf.owner \in {NoDraw, reqs[u].draw}

(* No client renders into the chain while the swap of one is uncompleted. *)
NoneRenders == Up /\ Uncompleted # {} => pf.reserved = {}

(* Is a client waiting for this request? *)
Waited(r) == r.used /\ ~r.dead /\ ~r.completed

(* A step after which no other request is waited for. *)
NoNewWaits ==
  \A x \in ReqIds : Waited(reqs'[x]) => Waited(reqs[x]) /\ reqs'[x].draw = reqs[x].draw

(* If it gives the chain to nobody else, the owner is none that others wait for. *)
LEMMA UnwaitedKept ==
  ASSUME OwnerUnwaited, Up' => Up, pf'.owner \in {NoDraw, pf.owner}, NoNewWaits
  PROVE  OwnerUnwaited'
<1> SUFFICES ASSUME Up', NEW u \in ReqIds, Waited(reqs'[u])
             PROVE  pf'.owner \in {NoDraw, reqs'[u].draw}
  BY DEF OwnerUnwaited, Uncompleted, Used, Waited
<1>1. Waited(reqs[u]) /\ reqs'[u].draw = reqs[u].draw
  BY DEF NoNewWaits
<1>2. pf.owner \in {NoDraw, reqs[u].draw}
  BY <1>1 DEF OwnerUnwaited, Uncompleted, Used, Waited
<1> QED  BY <1>1, <1>2

(* Nor is a buffer reserved, unless one becomes so while somebody waits. *)
LEMMA RendersKept ==
  ASSUME NoneRenders, Up' => Up, pf'.reserved \subseteq pf.reserved, NoNewWaits
  PROVE  NoneRenders'
<1>1. Uncompleted' \subseteq Uncompleted
  BY DEF NoNewWaits, Uncompleted, Used, Waited
<1> QED  BY <1>1 DEF NoneRenders

(* One request is replaced by one that is waited for no more than before. *)
LEMMA WithReqWaits ==
  ASSUME TypeOK, NEW id \in ReqIds, NEW r, reqs' = WithReq(id, r),
         Waited(r) => Waited(reqs[id]) /\ r.draw = reqs[id].draw
  PROVE  NoNewWaits
BY WithReqValues DEF NoNewWaits

(* What the handlers write to a request makes nobody wait for it. *)
LEMMA WaitedFields ==
  ASSUME NEW r \in SwapRequest
  PROVE  /\ LET q == [r EXCEPT !.rendered = TRUE]
            IN  Waited(q) => Waited(r) /\ q.draw = r.draw
         /\ \A x : LET q == [r EXCEPT !.region = x]
            IN  Waited(q) => Waited(r) /\ q.draw = r.draw
         /\ \A x : LET q == [r EXCEPT !.num = x]
            IN  Waited(q) => Waited(r) /\ q.draw = r.draw
         /\ \A x : LET q == [r EXCEPT !.num = x, !.flipped = TRUE]
            IN  Waited(q) => Waited(r) /\ q.draw = r.draw
         /\ \A x : LET q == [r EXCEPT !.issued = TRUE, !.num = x]
            IN  Waited(q) => Waited(r) /\ q.draw = r.draw
         /\ LET q == [r EXCEPT !.completed = TRUE]
            IN  Waited(q) => Waited(r) /\ q.draw = r.draw
         /\ ~Waited(FreeRequest) /\ \A region : ~Waited(NewUpdate(region))
BY DEF SwapRequest, Waited, FreeRequest, NewUpdate

(* Both states show the same of the chain, and its buffers are as much in use. *)
SameClaim(s, t) ==
  /\ t.server = s.server /\ t.front = s.front /\ t.back = s.back
  /\ t.owner = s.owner /\ t.user = s.user /\ t.held = s.held
  /\ t.got = s.got /\ t.reserved = s.reserved

(* The claim rests on these fields. *)
LEMMA ClaimKept ==
  ASSUME NEW s, NEW t, SameClaim(s, t), Claim(s)
  PROVE  Claim(t)
BY DEF SameClaim, Claim, OwnerShown, ReservedExact, OwnerHolds, IdxOf

(* The others do not count. *)
LEMMA OtherFieldsClaim ==
  ASSUME NEW s \in FlipState
  PROVE  /\ SameClaim(s, s)
         /\ \A x : SameClaim(s, [s EXCEPT !.flips = x]) /\ SameClaim(s, [s EXCEPT !.busy = x])
         /\ \A x : SameClaim(s, [s EXCEPT !.completes = x])
         /\ \A x, y : SameClaim(s, [s EXCEPT !.busy = x, !.completes = y])
         /\ \A x, y : SameClaim(s, [s EXCEPT !.busy = x, !.flips = y])
BY DEF SameClaim, FlipState

(***************************************************************************)
(* What holds between any two steps: the claim of the owner, on top of     *)
(* what the other modules prove.                                           *)
(***************************************************************************)
Claims == Claim(pf) /\ OwnerUnwaited /\ NoneRenders
Joined == TypeOK /\ LifeCycle /\ Ring /\ Owned(pf) /\ Claims

(* A step that leaves the owner's claim as it is. *)
LEMMA ClaimsKept ==
  ASSUME Joined, SameClaim(pf, pf'), NoNewWaits
  PROVE  Claims'
<1>1. Claim(pf')
  BY ClaimKept DEF Joined, Claims
<1>2. OwnerUnwaited' /\ NoneRenders'
  BY UnwaitedKept, RendersKept DEF Joined, Claims, SameClaim, Up
<1> QED  BY <1>1, <1>2 DEF Claims

-----------------------------------------------------------------------------
(***************************************************************************)
(* The handlers of events.  sync_handler: the request was not rendered.    *)
(***************************************************************************)
LEMMA SyncHandlerClaims ==
  ASSUME Joined, SyncHandler
  PROVE  Claims'
<1> DEFINE id == Head(stack).id
<1>1. Running("sync_handler")
  BY DEF SyncHandler
<1>2. id \in ReqIds /\ SyncReady(id) /\ TypeOK
  BY <1>1, RunningCall DEF Joined, Claims, CallReady
<1>3. pf' = pf
  BY <1>2, RequireHolds DEF SyncHandler, SyncReady
<1>4. NoNewWaits
  <2>1. reqs[id] \in SwapRequest
    BY <1>2 DEF TypeOK
  <2>2. \/ reqs' = WithReq(id, FreeRequest)
        \/ reqs' = WithReq(id, [reqs[id] EXCEPT !.rendered = TRUE])
    BY DEF SyncHandler, WithReq, WithoutReq
  <2> QED  BY <1>2, <2>1, <2>2, WithReqWaits, WaitedFields
<1>5. SameClaim(pf, pf')
  BY <1>3 DEF SameClaim
<1> QED  BY <1>4, <1>5, ClaimsKept

(* flip_swap_req: the request is next, and no other one is on its way. *)
LEMMA FlipSwapReqClaims ==
  ASSUME Joined, FlipSwapReq
  PROVE  Claims'
<1> DEFINE id == Head(stack).id
           r  == reqs[id]
           counts == r.update # SWAP_INVALID_IDX
           cond == /\ FindNextFlip(reqs, queue, r) = id
                   /\ r.rendered /\ ~r.flipped /\ ~r.issued
                   /\ counts => pf.flips = 0
<1>1. Running("flip_swap_req")
  BY DEF FlipSwapReq
<1>2. id \in ReqIds /\ FlipReady(id) /\ TypeOK /\ LifeCycle /\ Ring /\ Up
  BY <1>1, RunningCall DEF Joined, Claims, CallReady, Running
<1> HIDE DEF id
<1>3. r \in SwapRequest /\ queue \in Seq(ReqIds) /\ NoRepeat(queue) /\ id \in Elems(queue)
  BY <1>2 DEF TypeOK, LifeCycle, QueueIsLive, FlipReady
<1>4. FindNextFlip(reqs, queue, r) = id
  <2> DEFINE S == {i \in ReqIds : SameClass(r, reqs[i])}
  <2>1. id \in Elems(queue) \cap S
    BY <1>2, <1>3 DEF SameClass
  <2>2. \A y \in S : ~Before(queue, y, id)
    BY <1>2, <1>3, BeforeOrder DEF FlipReady, SameClass
  <2> HIDE DEF S
  <2>3. FirstIn(queue, S) = id
    BY <1>3, <2>1, <2>2, FirstInFinds
  <2> QED  BY <1>2, <2>3 DEF FindNextFlip, S, FlipReady, ReqIds
<1>5. counts => pf.flips = 0
  <2> SUFFICES ASSUME counts, NEW x \in Elems(queue), OnItsWay(x) PROVE FALSE
    BY <1>2 DEF Ring, FlipsExact
  <2>1. SameClass(reqs[x], r) /\ SameClass(r, reqs[x])
    BY DEF OnItsWay, SameClass
  <2>2. ~Before(queue, x, id) /\ ~r.issued
    BY <1>2, <2>1 DEF FlipReady
  <2>3. ~Before(queue, id, x)
    BY <1>2, <1>3, <2>1, IssuedLeads DEF OnItsWay
  <2>4. x = id
    BY <1>3, <2>2, <2>3, BeforeOrder
  <2> QED  BY <2>2, <2>4 DEF OnItsWay
<1>6. pf' = IF counts THEN [pf EXCEPT !.flips = @ + 1] ELSE pf
  <2>1. cond
    BY <1>2, <1>4, <1>5 DEF FlipReady
  <2> HIDE DEF cond
  <2>2. Require(pf, cond) = pf
    BY <2>1, RequireHolds
  <2> QED  BY <2>2 DEF FlipSwapReq, IssueFlip, cond, id
<1>7. SameClaim(pf, pf')
  BY <1>2, <1>6, OtherFieldsClaim DEF TypeOK
<1>8. NoNewWaits
  <2>1. PICK n : reqs' = WithReq(id, [r EXCEPT !.issued = TRUE, !.num = n])
    BY DEF FlipSwapReq, id
  <2> QED  BY <1>2, <1>3, <2>1, WithReqWaits, WaitedFields
<1> QED  BY <1>7, <1>8, ClaimsKept

(***************************************************************************)
(* pvr2d_dri2_flip_handler: a live request is still the next of its class, *)
(* it is the one that flips_pending counts, and both of its buffers are    *)
(* busy.                                                                   *)
(***************************************************************************)
LEMMA FlipCheckHolds ==
  ASSUME Joined, Running("flip_handler")
  PROVE  FlipChecked(pf, Head(stack).id) = pf
<1> DEFINE id == Head(stack).id
           r  == reqs[id]
           live == /\ FindNextFlip(reqs, queue, r) = id
                   /\ {r.front, r.back} \subseteq pf.busy \cup {SWAP_INVALID_IDX}
                   /\ r.update # SWAP_INVALID_IDX => pf.flips = 1
           cond == r.rendered /\ ~r.flipped /\ r.issued /\ (~r.dead => live)
<1>1. /\ id \in ReqIds /\ Flipping(id) /\ TypeOK /\ LifeCycle /\ Ring /\ Up
      /\ Len(stack) = 2 => r.update # SWAP_INVALID_IDX
      /\ stack # <<>>
  BY RunningCall DEF Joined, Claims, CallReady, Running
<1> HIDE DEF id
<1>2. ASSUME ~r.dead PROVE live
  <2>1. id \in Elems(queue) /\ queue \in Seq(ReqIds) /\ NoRepeat(queue) /\ r \in SwapRequest
    BY <1>1, <1>2 DEF TypeOK, LifeCycle, QueueIsLive, Flipping
  <2>2. FindNextFlip(reqs, queue, r) = id
    <3> DEFINE S == {i \in ReqIds : SameClass(r, reqs[i])}
    <3>1. id \in Elems(queue) \cap S
      BY <1>1, <2>1 DEF SameClass
    <3>2. \A y \in S : ~Before(queue, y, id)
      BY <1>1, <2>1, IssuedLeads, BeforeOrder DEF Flipping, SameClass
    <3> HIDE DEF S
    <3>3. FirstIn(queue, S) = id
      BY <2>1, <3>1, <3>2, FirstInFinds
    <3> QED  BY <1>1, <3>3 DEF FindNextFlip, S, Flipping, ReqIds
  <2>3. r.update # SWAP_INVALID_IDX => pf.flips = 1
    BY <1>1, <2>1 DEF Ring, FlipsExact, OnItsWay, Flipping
  <2>4. {r.front, r.back} \subseteq pf.busy \cup {SWAP_INVALID_IDX}
    <3>1. CASE id \notin QFlips
      BY <1>1, <2>1, <3>1 DEF Ring, FormsHold, Form, QFlips
    <3>2. CASE id \in QFlips
      <4>1. r.front \in pf.busy
        BY <1>1, <3>2 DEF Ring, BusyExact, Flipping
      <4>2. CASE r.back = pf.front
        BY <1>1, <4>1, <4>2 DEF Ring, BusyExact
      <4>3. CASE r.back # pf.front
        <5>1. PICK x \in QFlips : reqs[x].back = pf.front /\ ~Before(queue, x, id)
          BY <1>1, <3>2 DEF Ring, Linked
        <5>2. Before(queue, id, x)
          BY <2>1, <4>3, <5>1, BeforeOrder DEF QFlips
        <5>3. PICK z \in QFlips : Follows(id, z)
          BY <1>1, <3>2, <5>2 DEF Ring, Linked
        <5>4. z # id /\ z \in ReqIds /\ reqs[z].used
          BY <1>1, <2>1, <5>3, BeforeOrder DEF Follows, QFlips, LifeCycle, QueueIsLive
        <5>5. ~reqs[z].flipped
          <6>1. CASE ~OnStack(z)
            BY <1>1, <5>4, <6>1 DEF LifeCycle, OthersRest, Resting
          <6>2. CASE OnStack(z)
            <7>1. Len(stack) \in {1, 2} /\ stack[1].id = id
              BY <1>1, StackApart DEF LifeCycle, id
            <7>2. stack[2].id = z /\ Len(stack) = 2
              BY <5>4, <6>2, <7>1 DEF OnStack
            <7>3. reqs[z].update = SWAP_INVALID_IDX /\ r.update # SWAP_INVALID_IDX
              BY <1>1, <7>2 DEF LifeCycle, StackInOrder
            <7>4. /\ reqs[z].update = IF VSync THEN reqs[z].back ELSE SWAP_INVALID_IDX
                  /\ r.update = IF VSync THEN r.back ELSE SWAP_INVALID_IDX
                  /\ reqs[z].back \in Buf
              BY <1>1, <3>2, NextBufType DEF Ring, FormsHold, Form, QFlips
            <7> QED  BY <7>3, <7>4 DEF Buf, SWAP_INVALID_IDX
          <6> QED  BY <6>1, <6>2
        <5>6. r.back = reqs[z].front /\ reqs[z].front \in pf.busy
          BY <1>1, <5>3, <5>5 DEF Follows, Ring, BusyExact
        <5> QED  BY <4>1, <5>6
      <4> QED  BY <4>2, <4>3
    <3> QED  BY <3>1, <3>2
  <2> QED  BY <2>2, <2>3, <2>4
<1>3. cond
  BY <1>1, <1>2 DEF Flipping
<1> HIDE DEF cond
<1>4. Require(pf, cond) = pf
  BY <1>3, RequireHolds
<1> QED  BY <1>4 DEF FlipChecked, cond, id

(* So it only releases the front buffer. *)
LEMMA FlipHandlerClaims ==
  ASSUME Joined, FlipHandler
  PROVE  Claims'
<1> DEFINE id == Head(stack).id
           r  == reqs[id]
           fr == ReleaseFront(pf, r)
<1>1. Running("flip_handler")
  BY DEF FlipHandler
<1>2. id \in ReqIds /\ TypeOK /\ r \in SwapRequest /\ pf \in FlipState
  BY <1>1, RunningCall DEF Joined, Claims, TypeOK
<1>3. FlipChecked(pf, id) = pf
  BY <1>1, FlipCheckHolds
<1>4. pf' \in {pf, fr, [fr EXCEPT !.flips = @ - 1]}
  BY <1>3 DEF FlipHandler
<1>5. /\ \/ reqs' = WithReq(id, [r EXCEPT !.num = @ - 1])
         \/ reqs' = WithReq(id, FreeRequest)
         \/ reqs' = WithReq(id, [r EXCEPT !.num = 0, !.flipped = TRUE])
  BY DEF FlipHandler, WithReq, WithoutReq
<1> HIDE DEF id
<1>6. NoNewWaits
  BY <1>2, <1>5, WithReqWaits, WaitedFields
<1>7. fr = pf \/ \E x \in SUBSET Buf : fr = [pf EXCEPT !.busy = x]
  <2>1. pf.busy \ {r.front} \in SUBSET Buf
    BY <1>2 DEF FlipState
  <2> QED  BY <2>1 DEF ReleaseFront
<1> HIDE DEF fr
<1>8. fr \in FlipState /\ SameClaim(pf, fr)
  BY <1>2, <1>7, FieldTypes, OtherFieldsClaim
<1>9. SameClaim(fr, [fr EXCEPT !.flips = @ - 1])
  BY <1>8, OtherFieldsClaim
<1>10. SameClaim(pf, pf')
  BY <1>2, <1>4, <1>8, <1>9 DEF SameClaim
<1> QED  BY <1>6, <1>10, ClaimsKept

(* The rest of it: the request is queued, and the last frame is completed. *)
LEMMA FlipDoneClaims ==
  ASSUME Joined, FlipDone
  PROVE  Claims'
<1> DEFINE id == Head(stack).id
           r  == reqs[id]
           c  == IF CompletesPending(r) THEN FindFirstPendingFlip(reqs, queue) ELSE 0
           cond == /\ id \in {queue[i] : i \in DOMAIN queue}
                   /\ c # 0 => reqs[c].back = pf.front /\ ~reqs[c].dead
<1>1. Running("flip_done")
  BY DEF FlipDone
<1>2. id \in ReqIds /\ Flipped(id) /\ TypeOK /\ LifeCycle /\ Ring /\ Up
  BY <1>1, RunningCall DEF Joined, Claims, CallReady, Running
<1> HIDE DEF id
<1>3. id \in Elems(queue) /\ queue \in Seq(ReqIds) /\ NoRepeat(queue) /\ reqs \in [ReqIds -> SwapRequest]
  BY <1>2 DEF TypeOK, LifeCycle, QueueIsLive, Flipped
<1>4. ASSUME c # 0 PROVE c \in Elems(queue) /\ reqs[c].back = pf.front /\ ~reqs[c].dead
  <2> DEFINE S == {i \in ReqIds : reqs[i].type = "flip" /\ ~reqs[i].completed}
  <2>1. c = FirstIn(queue, S)
    BY <1>4 DEF FindFirstPendingFlip
  <2> HIDE DEF c, S
  <2>2. c \in Elems(queue) /\ c \in S
    BY <1>3, <1>4, <2>1, FirstInFound
  <2>3. c \in Uncompleted
    BY <1>2, <2>2, Waiters DEF S
  <2> QED  BY <1>2, <2>2, <2>3 DEF Ring, Waiting, LifeCycle, QueueIsLive
<1>5. pf' = IF c = 0 THEN pf ELSE [pf EXCEPT !.completes = @ - 1]
  <2>1. cond
    BY <1>3, <1>4 DEF Elems
  <2> HIDE DEF cond
  <2>2. Require(pf, cond) = pf
    BY <2>1, RequireHolds
  <2> QED  BY <2>2 DEF FlipDone, cond, c, id
<1> HIDE DEF c
<1>6. SameClaim(pf, pf')
  BY <1>2, <1>5, OtherFieldsClaim DEF TypeOK
<1>7. NoNewWaits
  <2> SUFFICES ASSUME NEW x \in ReqIds, Waited(reqs'[x])
               PROVE  Waited(reqs[x]) /\ reqs'[x].draw = reqs[x].draw
    BY DEF NoNewWaits
  <2>1. reqs'[x] = IF x = id THEN FreeRequest
                   ELSE IF x = c THEN [reqs[x] EXCEPT !.completed = TRUE] ELSE reqs[x]
    BY DEF FlipDone, id, c
  <2> QED  BY <1>3, <2>1, WaitedFields
<1> QED  BY <1>6, <1>7, ClaimsKept

(* Damage makes nobody wait. *)
LEMMA ScheduleDamageClaims ==
  ASSUME Joined, ScheduleDamage
  PROVE  Claims'
<1>1. TypeOK /\ pf' = pf
  BY DEF Joined, Claims, ScheduleDamage
<1>2. NoNewWaits
  <2>1. \A x \in ReqIds : reqs[x] \in SwapRequest
    BY <1>1 DEF TypeOK
  <2>2. PICK region :
          \/ /\ MergeInto(region) # 0
             /\ reqs' = WithReq(MergeInto(region), [reqs[MergeInto(region)] EXCEPT !.region = @ \cup region])
          \/ Free # {} /\ reqs' = WithReq(NewId, NewUpdate(region))
    BY DEF ScheduleDamage
  <2>3. MergeInto(region) # 0 => MergeInto(region) \in ReqIds
    BY <1>1, FirstInFound DEF MergeInto, FindByUpdate, Joined, Claims, LifeCycle, QueueIsLive, TypeOK
  <2>4. Free # {} => NewId \in ReqIds
    BY NewIdFree DEF Joined, Claims
  <2> QED  BY <1>1, <2>1, <2>2, <2>3, <2>4, WithReqWaits, WaitedFields
<1>3. SameClaim(pf, pf')
  BY <1>1 DEF SameClaim
<1> QED  BY <1>2, <1>3, ClaimsKept

-----------------------------------------------------------------------------
(***************************************************************************)
(* The requests of clients.  Nobody waits while the next back buffer is    *)
(* free ...                                                                *)
(***************************************************************************)
LEMMA NobodyWaits ==
  ASSUME Joined, Idle, NumBufs >= 2, pf.back \notin pf.busy
  PROVE  Uncompleted = {}
<1>1. pf.busy = Occupied /\ Up
  BY NoneFlipped DEF Joined, Claims, Idle
<1> QED  BY <1>1 DEF Joined, Claims, Ring, Waiting

(* ... and it is, if the owner makes a request. *)
LEMMA OwnerMayRender ==
  ASSUME Joined, Idle, NEW draw \in alive, ~Throttled(draw), pf.owner = draw
  PROVE  NumBufs >= 2 /\ pf.back \notin pf.busy
<1>1. TypeOK /\ Up /\ LifeCycle /\ Ring /\ pf.busy = Occupied /\ pf.owner # NoDraw
  BY NoneFlipped, FlipAssumption DEF Joined, Claims, Idle, TypeOK
<1>2. NumBufs >= 2
  <2>1. Agrees(pf, {}) /\ OwnerShown(pf)
    BY <1>1 DEF Joined, Claims, Owned, Good, Claim, Up
  <2> QED  BY <1>1, <2>1 DEF OwnerShown, Agrees
<1>3. Uncompleted = {}
  <2> SUFFICES ASSUME NEW u \in Uncompleted PROVE FALSE
    OBVIOUS
  <2>1. reqs[u].draw = draw
    BY <1>1 DEF Joined, Claims, OwnerUnwaited
  <2>2. pending[draw] = 1
    BY <1>1, <2>1 DEF Ring, Waiting
  <2> QED  BY <2>2 DEF Throttled
<1> QED  BY <1>1, <1>2, <1>3 DEF Ring, Waiting

(* What was not asked for, or is replaced, is dropped. *)
LEMMA DropOldClaim ==
  ASSUME NEW s \in FlipState, NEW old, NEW drop, Good(s, old), Claimed(s, drop),
         NEW draw, NEW keepBack, NEW resized
  PROVE  LET t == DropOld(s, draw, keepBack, resized)
         IN  /\ Claimed(t, drop) /\ t.owner \in {s.owner, NoDraw}
             /\ t.reserved \subseteq s.reserved
<1> DEFINE b == BufferOf(pf, draw, "back")
           f == BufferOf(pf, draw, "front")
           v == IF resized \/ ~keepBack THEN DropBuf(s, b) ELSE s
           t == DropOld(s, draw, keepBack, resized)
<1>1. t = IF resized THEN DropBuf(v, f) ELSE v
  BY DEF DropOld
<1> HIDE DEF b, f
<1>2. v \in FlipState /\ Good(v, old) /\ Claimed(v, drop) /\ v.owner \in {s.owner, NoDraw}
      /\ v.reserved \subseteq s.reserved
  BY DropBufClaim, DropBufGood
<1> HIDE DEF v
<1>3. Claimed(DropBuf(v, f), drop) /\ DropBuf(v, f).owner \in {v.owner, NoDraw}
      /\ DropBuf(v, f).reserved \subseteq v.reserved
  BY <1>2, DropBufClaim
<1> HIDE DEF t
<1> QED  BY <1>1, <1>2, <1>3 DEF t

(* A request for buffers lets draw move into the chain only if nobody waits. *)
LEMMA MovedInUnwaited ==
  ASSUME Joined, Idle, NEW draw, Up' => Up, reqs' = reqs,
         \/ pf'.owner \in {pf.owner, NoDraw} /\ pf'.reserved \subseteq pf.reserved
         \/ PageFlipPossible(pf, draw, fs)
  PROVE  OwnerUnwaited' /\ NoneRenders'
<1>1. Uncompleted' = Uncompleted
  BY DEF Uncompleted, Used
<1>2. CASE PageFlipPossible(pf, draw, fs)
  <2>1. Uncompleted = {}
    BY <1>2, NobodyWaits DEF PageFlipPossible
  <2> QED  BY <1>1, <2>1 DEF OwnerUnwaited, NoneRenders
<1>3. CASE pf'.owner \in {pf.owner, NoDraw} /\ pf'.reserved \subseteq pf.reserved
  BY <1>1, <1>3 DEF Joined, Claims, OwnerUnwaited, NoneRenders
<1> QED  BY <1>2, <1>3

(* DRI2GetBuffers: both attachments are provided. *)
LEMMA GetBuffersClaims ==
  ASSUME Joined, NEW draw \in Drawables, NEW resized \in BOOLEAN, GetBuffers(draw, resized)
  PROVE  Claims'
<1> DEFINE X == Replaced(draw, resized)
           s == Provide(pf, draw, "back", resized)
           u == Provide(s, draw, "front", resized)
           w == DropOld(u, draw, TRUE, resized)
<1>1. TypeOK /\ Owned(pf) /\ Claim(pf) /\ Idle /\ Up /\ draw \in alive /\ ~Throttled(draw)
  BY DEF Joined, Claims, GetBuffers, Idle
<1>2. /\ pf \in FlipState /\ Settled(pf) /\ pf.server = "up" /\ Agrees(pf, {})
      /\ "back" \in Attachment /\ "front" \in Attachment /\ Good(pf, X)
  BY <1>1 DEF TypeOK, Owned, Up, Good, Agrees, Attachment
<1>3. pf.owner = draw => NumBufs >= 2 /\ pf.back \notin pf.busy
  BY <1>1, OwnerMayRender
<1>4. /\ s \in FlipState /\ Good(s, X) /\ u \in FlipState /\ Good(u, X)
      /\ s.held = pf.held \cup {Newest(draw, "back", resized)}
      /\ u.held = pf.held \cup {Newest(draw, a, resized) : a \in {"back", "front"}}
      /\ Dropped(w, draw, X)
  BY <1>1, GetBuffersSteps
<1>5. pf' = Settle(w, draw) /\ reqs' = reqs
  BY DEF GetBuffers
<1>6. SameRing(pf, s)
  BY <1>2, ModuleRing
<1>7. Provided(s, draw, {} \cup {"back"}, resized)
  <2>1. Provided(pf, draw, {}, resized) /\ SameRing(pf, pf)
    BY <1>1, ProvidedNothing DEF SameRing
  <2>2. {} \in SUBSET Attachment /\ "back" \notin {}
    OBVIOUS
  <2> HIDE DEF X
  <2> QED  BY <1>1, <1>2, <1>3, <2>1, <2>2, ProvidedNext DEF X
<1> HIDE DEF s, X
<1>8. SameRing(pf, u)
  BY <1>2, <1>4, <1>6, ModuleRing, SameRingTransitive
<1>9. Provided(u, draw, {"back"} \cup {"front"}, resized)
  <2>1. {"back"} \in SUBSET Attachment /\ "front" \notin {"back"} /\ {} \cup {"back"} = {"back"}
    BY <1>2
  <2>2. \A c \in DRI2Buffer : c[1] = draw /\ c[2] = "front" => (c \in s.held <=> c \in pf.held)
    BY <1>4 DEF Newest
  <2> QED  BY <1>1, <1>2, <1>3, <1>4, <1>6, <1>7, <2>1, <2>2, ProvidedNext DEF X
<1> HIDE DEF u
<1>10. /\ Claimed(u, X)
       /\ u.server = "up" =>
           \/ u.owner \in {pf.owner, NoDraw} /\ u.reserved \subseteq pf.reserved
           \/ PageFlipPossible(pf, draw, fs)
  <2> DEFINE A == {"back", "front"}
  <2>1. A \in SUBSET Attachment /\ {"back"} \cup {"front"} = A
    BY <1>2
  <2>2. \A c \in pf.held : c[1] = draw /\ (resized \/ c[2] \notin A) => c \in X
    BY <1>2 DEF X, Replaced, FlipState, DRI2Buffer, Attachment
  <2>3. Provided(u, draw, A, resized)
    BY <1>9, <2>1
  <2>4. u.held = pf.held \cup {Newest(draw, a, resized) : a \in A}
    BY <1>4
  <2>5. pf \in FlipState /\ u \in FlipState /\ Settled(pf) /\ Claim(pf) /\ pf.server = "up"
    BY <1>1, <1>2, <1>4
  <2>6. Agrees(pf, {}) /\ SameRing(pf, u) /\ A \in SUBSET Attachment
    BY <1>2, <1>8, <2>1
  <2> HIDE DEF A
  <2> QED  BY <2>2, <2>3, <2>4, <2>5, <2>6, ProvidedClaim
<1>11. Claimed(w, X) /\ w.owner \in {u.owner, NoDraw} /\ w.reserved \subseteq u.reserved
       /\ SameRing(u, w)
  BY <1>2, <1>4, <1>10, DropOldClaim, ModuleRing
<1> HIDE DEF w
<1>12. Claim(w)
  BY <1>4, <1>11, NothingDropped DEF Dropped, Claim, Claimed
<1>13. Claim(pf') /\ pf'.owner = w.owner /\ pf'.reserved = w.reserved
  BY <1>4, <1>5, <1>12, SettleClaim DEF Dropped
<1>14. SameRing(w, pf')
  BY <1>2, <1>4, <1>5, ModuleRing DEF Dropped
<1>15. OwnerUnwaited' /\ NoneRenders'
  <2>1. CASE Up'
    <3>1. u.server = "up"
      BY <1>11, <1>14, <2>1 DEF SameRing, Up
    <3> QED  BY <1>1, <1>5, <1>10, <1>11, <1>13, <3>1, MovedInUnwaited
  <2>2. CASE ~Up'
    BY <2>2 DEF OwnerUnwaited, NoneRenders
  <2> QED  BY <2>1, <2>2
<1> QED  BY <1>13, <1>15 DEF Claims

(* DRI2GetBuffers for the front buffer alone: the back buffer is destroyed. *)
LEMMA GetFrontBufferClaims ==
  ASSUME Joined, NEW draw \in Drawables, NEW resized \in BOOLEAN, GetFrontBuffer(draw, resized)
  PROVE  Claims'
<1> DEFINE X == Replaced(draw, resized)
           D == X \cup {<<draw, "back", 0>>}
           u == Provide(pf, draw, "front", resized)
           w == DropOld(u, draw, FALSE, resized)
<1>1. TypeOK /\ Owned(pf) /\ Claim(pf) /\ Idle /\ Up /\ draw \in alive /\ ~Throttled(draw)
  BY DEF Joined, Claims, GetFrontBuffer, Idle
<1>2. /\ pf \in FlipState /\ Settled(pf) /\ pf.server = "up" /\ Agrees(pf, {})
      /\ "front" \in Attachment /\ Good(pf, X)
  BY <1>1 DEF TypeOK, Owned, Up, Good, Agrees, Attachment
<1>3. pf.owner = draw => NumBufs >= 2 /\ pf.back \notin pf.busy
  BY <1>1, OwnerMayRender
<1>4. /\ u \in FlipState /\ Good(u, X) /\ Dropped(w, draw, D)
      /\ u.held = pf.held \cup {Newest(draw, "front", resized)}
  BY <1>1, GetFrontBufferSteps
<1>5. pf' = Settle(w, draw) /\ reqs' = reqs
  BY DEF GetFrontBuffer
<1>6. SameRing(pf, u)
  BY <1>2, ModuleRing
<1>7. Provided(u, draw, {} \cup {"front"}, resized)
  <2>1. Provided(pf, draw, {}, resized) /\ SameRing(pf, pf)
    BY <1>1, ProvidedNothing DEF SameRing
  <2>2. {} \in SUBSET Attachment /\ "front" \notin {}
    OBVIOUS
  <2> HIDE DEF X
  <2> QED  BY <1>1, <1>2, <1>3, <2>1, <2>2, ProvidedNext DEF X
<1>8. \A c \in pf.held : c[1] = draw /\ (resized \/ c[2] \notin {"front"}) => c \in D
  <2> SUFFICES ASSUME NEW c \in pf.held, c[1] = draw, resized \/ c[2] # "front"
               PROVE  c \in D
    OBVIOUS
  <2>1. c \in DRI2Buffer /\ c[3] = 0
    BY <1>2 DEF Settled, FlipState
  <2>2. CASE resized
    BY <2>2 DEF Replaced
  <2>3. CASE c[2] # "front"
    BY <2>1, <2>3 DEF DRI2Buffer, Attachment
  <2> QED  BY <2>2, <2>3
<1> HIDE DEF X, D, u
<1>9. /\ Claimed(u, D)
      /\ u.server = "up" =>
           \/ u.owner \in {pf.owner, NoDraw} /\ u.reserved \subseteq pf.reserved
           \/ PageFlipPossible(pf, draw, fs)
  <2> DEFINE A == {"front"}
  <2>1. A \in SUBSET Attachment /\ {} \cup {"front"} = A
    BY <1>2
  <2>2. Provided(u, draw, A, resized)
    BY <1>7, <2>1
  <2>3. u.held = pf.held \cup {Newest(draw, a, resized) : a \in A}
    BY <1>4
  <2>4. \A c \in pf.held : c[1] = draw /\ (resized \/ c[2] \notin A) => c \in D
    BY <1>8
  <2> HIDE DEF A
  <2> QED  BY <1>1, <1>2, <1>4, <1>6, <2>1, <2>2, <2>3, <2>4, ProvidedClaim
<1>10. Claimed(w, D) /\ w.owner \in {u.owner, NoDraw} /\ w.reserved \subseteq u.reserved
       /\ SameRing(u, w)
  BY <1>2, <1>4, <1>9, DropOldClaim, ModuleRing
<1> HIDE DEF w
<1>11. Claim(w)
  BY <1>4, <1>10, NothingDropped DEF Dropped, Claim, Claimed
<1>12. Claim(pf') /\ pf'.owner = w.owner /\ pf'.reserved = w.reserved
  BY <1>4, <1>5, <1>11, SettleClaim DEF Dropped
<1>13. SameRing(w, pf')
  BY <1>2, <1>4, <1>5, ModuleRing DEF Dropped
<1>14. OwnerUnwaited' /\ NoneRenders'
  <2>1. CASE Up'
    <3>1. u.server = "up"
      BY <1>10, <1>13, <2>1 DEF SameRing, Up
    <3> QED  BY <1>1, <1>5, <1>9, <1>10, <1>12, <3>1, MovedInUnwaited
  <2>2. CASE ~Up'
    BY <2>2 DEF OwnerUnwaited, NoneRenders
  <2> QED  BY <2>1, <2>2
<1> QED  BY <1>12, <1>14 DEF Claims

(* A destroyed drawable gives up its claim. *)
LEMMA DestroyDrawableClaims ==
  ASSUME Joined, NEW draw \in Drawables, DestroyDrawable(draw)
  PROVE  Claims'
<1> DEFINE ob == BufferOf(pf, draw, "back")
           of == BufferOf(pf, draw, "front")
           s  == DropBuf(pf, ob)
           t  == DropBuf(s, of)
<1>1. pf \in FlipState /\ Good(pf, {}) /\ Claimed(pf, {}) /\ Idle
  BY DEF Joined, Claims, TypeOK, Owned, Claim, Claimed, DestroyDrawable
<1>2. pf' = t /\ reqs' = reqs
  BY DEF DestroyDrawable
<1> HIDE DEF ob, of
<1>3. /\ s \in FlipState /\ Good(s, {}) /\ Claimed(s, {}) /\ s.owner \in {pf.owner, NoDraw}
      /\ s.reserved \subseteq pf.reserved /\ SameRing(pf, s)
  BY <1>1, DropBufGood, DropBufClaim, ModuleRing
<1> HIDE DEF s
<1>4. /\ t \in FlipState /\ Good(t, {}) /\ Claimed(t, {}) /\ t.owner \in {s.owner, NoDraw}
      /\ t.reserved \subseteq s.reserved /\ SameRing(s, t)
  BY <1>1, <1>3, DropBufGood, DropBufClaim, ModuleRing
<1> HIDE DEF t
<1>5. Claim(t)
  BY <1>4, NothingDropped DEF Claim, Claimed
<1>6. /\ NoNewWaits /\ (Up' => Up) /\ pf'.owner \in {NoDraw, pf.owner}
      /\ pf'.reserved \subseteq pf.reserved
  BY <1>2, <1>3, <1>4 DEF NoNewWaits, SameRing, Up
<1>7. OwnerUnwaited' /\ NoneRenders'
  BY <1>6, UnwaitedKept, RendersKept DEF Joined, Claims
<1> QED  BY <1>2, <1>5, <1>7 DEF Claims

-----------------------------------------------------------------------------
(* The buffers of a drawable that swaps. *)
LEMMA SwappedBuffers ==
  ASSUME Joined, NEW draw \in Drawables, Swappable(draw)
  PROVE  LET f == BufferOf(pf, draw, "front")
             b == BufferOf(pf, draw, "back")
         IN  /\ f \in pf.held /\ b \in pf.held /\ b \in pf.got
             /\ f \in DRI2Buffer /\ b \in DRI2Buffer
             /\ f[1] = draw /\ f[2] = "front" /\ b[1] = draw /\ b[2] = "back"
             /\ \A c \in pf.held : c[1] = draw => c \in {f, b}
             /\ \A c, d \in pf.held : c[1] = d[1] /\ c[2] = d[2] => c = d
<1> DEFINE f == BufferOf(pf, draw, "front")
           b == BufferOf(pf, draw, "back")
<1>1. pf.held \in SUBSET DRI2Buffer /\ Settled(pf)
  BY DEF Joined, Claims, TypeOK, Owned, FlipState
<1>2. f \in pf.held /\ b \in pf.held /\ b \in pf.got
  BY DEF Swappable
<1>3. f = <<draw, "front", 0>> /\ b = <<draw, "back", 0>>
  BY <1>1, <1>2, NoBufferType DEF BufferOf
<1>4. \A c \in pf.held : c[1] = draw => c \in {f, b}
  BY <1>1, <1>3 DEF Settled, DRI2Buffer, Attachment
<1>5. \A c, d \in pf.held : c[1] = d[1] /\ c[2] = d[2] => c = d
  <2> SUFFICES ASSUME NEW c \in pf.held, NEW d \in pf.held, c[1] = d[1], c[2] = d[2]
               PROVE  c = d
    OBVIOUS
  <2>1. c[3] = 0 /\ d[3] = 0
    BY <1>1 DEF Settled
  <2> QED  BY <1>1, <2>1 DEF DRI2Buffer
<1> HIDE DEF f, b
<1> QED  BY <1>1, <1>2, <1>3, <1>4, <1>5 DEF f, b

(* The back buffer of the owner is reserved, the front buffer is not. *)
LEMMA OwnerReserved ==
  ASSUME NEW s \in FlipState, s.server = "up", Agrees(s, {}), Claim(s),
         NEW f \in s.held, NEW b \in s.got, f[1] = s.owner, b[1] = s.owner,
         f[2] = "front", b[2] = "back"
  PROVE  /\ s.user[s.front] = f /\ s.user[s.back] = b
         /\ s.front # s.back /\ s.reserved = {s.back}
<1>1. ReservedExact(s) /\ OwnerHolds(s, {}) /\ b \in s.held
  BY DEF Claim, Agrees
<1>2. s.user[s.front] = f /\ s.user[s.back] = b
  BY <1>1 DEF OwnerHolds, IdxOf
<1>3. f # b /\ s.front # s.back
  BY <1>2
<1> QED  BY <1>1, <1>2, <1>3 DEF ReservedExact

(***************************************************************************)
(* pvr2d_dri2_no_swap: the back buffer of the owner is reserved, as it     *)
(* asserts, and the client has given it back afterwards.                   *)
(***************************************************************************)
LEMMA SwapByCopyClaims ==
  ASSUME Joined, NEW draw \in Drawables, SwapByCopy(draw)
  PROVE  Claims'
<1> DEFINE f == BufferOf(pf, draw, "front")
           b == BufferOf(pf, draw, "back")
           a == IF pf.owner = draw THEN [pf EXCEPT !.reserved = pf.reserved \ {pf.back}] ELSE pf
           t == [a EXCEPT !.got = @ \ {b}]
<1>1. Swappable(draw) /\ pf.server = "up"
  BY DEF SwapByCopy, Swappable, Idle, Up
<1>2. /\ f \in pf.held /\ b \in pf.held /\ b \in pf.got /\ b \in DRI2Buffer
      /\ f[1] = draw /\ f[2] = "front" /\ b[1] = draw /\ b[2] = "back"
  BY <1>1, SwappedBuffers
<1>3. pf' = EndReservation(pf, draw, b) /\ reqs' = reqs
  BY DEF SwapByCopy
<1> HIDE DEF f, b
<1>4. /\ pf \in FlipState /\ Agrees(pf, {}) /\ Claim(pf)
      /\ OwnerShown(pf) /\ ReservedExact(pf) /\ OwnerHolds(pf, {})
  BY <1>1 DEF Joined, Claims, TypeOK, Owned, Good, Claim
<1>5. pf.owner = draw =>
        /\ pf.user[pf.back] = b /\ pf.front # pf.back /\ pf.reserved = {pf.back}
  BY <1>1, <1>2, <1>4, OwnerReserved
<1>6. a.got = pf.got /\ a.server = pf.server
  BY <1>4 DEF FlipState
<1>7. pf' = t
  <2> DEFINE cond == pf.front \notin pf.reserved /\ pf.back \in pf.reserved
  <2>1. pf.owner = draw => cond
    BY <1>5
  <2> HIDE DEF cond
  <2>2. pf.owner = draw => Require(pf, cond) = pf
    BY <2>1, RequireHolds
  <2>3. EndReservation(pf, draw, b) = [Require(a, b \in a.got) EXCEPT !.got = @ \ {b}]
    BY <2>2 DEF EndReservation, cond
  <2>4. Require(a, b \in a.got) = a
    BY <1>2, <1>6, RequireHolds
  <2> QED  BY <1>3, <2>3, <2>4
<1>8. /\ t.server = pf.server /\ t.front = pf.front /\ t.back = pf.back
      /\ t.owner = pf.owner /\ t.user = pf.user /\ t.held = pf.held
      /\ t.got = pf.got \ {b}
      /\ t.reserved = IF pf.owner = draw THEN pf.reserved \ {pf.back} ELSE pf.reserved
  BY <1>4 DEF FlipState
<1> HIDE DEF t, a
<1>9. ReservedExact(t)
  <2>1. CASE pf.owner = draw
    BY <1>4, <1>5, <1>8, <2>1 DEF ReservedExact
  <2>2. CASE pf.owner # draw
    <3>1. pf.user[pf.back] # b
      BY <1>2, <1>4, <2>2, ShownApart, NoBufferType DEF FlipState
    <3> QED  BY <1>4, <1>8, <2>2, <3>1 DEF ReservedExact
  <2> QED  BY <2>1, <2>2
<1>10. Claim(t)
  BY <1>1, <1>4, <1>8, <1>9 DEF Claim, OwnerShown, OwnerHolds, IdxOf
<1>11. /\ NoNewWaits /\ (Up' => Up) /\ pf'.owner = pf.owner
       /\ pf'.reserved \subseteq pf.reserved
  BY <1>1, <1>3, <1>7, <1>8 DEF NoNewWaits, Up
<1>12. OwnerUnwaited' /\ NoneRenders'
  BY <1>11, UnwaitedKept, RendersKept DEF Joined, Claims
<1> QED  BY <1>7, <1>10, <1>12 DEF Claims

(***************************************************************************)
(* pvr2d_dri2_schedule_swap before the flip is submitted: its assertions   *)
(* hold, and both buffers are shown, of which none is reserved any more.   *)
(***************************************************************************)
LEMMA PrepareFlipClaim ==
  ASSUME NEW s \in FlipState, s.server = "up", Agrees(s, {}), Claim(s),
         NEW draw \in Drawables, PageFlipPossible(s, draw, fs),
         NEW f \in s.held, NEW b \in s.got,
         f[1] = draw, b[1] = draw, f[2] = "front", b[2] = "back"
  PROVE  LET p == PrepareFlip(s, draw, f, b)
         IN  /\ p.server # "aborted"
             /\ p.server = "up" =>
                  /\ p.owner = draw /\ p.reserved = {} /\ p.got = s.got \ {b}
                  /\ p.user[p.front] = f /\ p.user[p.back] = b
<1> DEFINE t == TakeOver(s, draw)
           g == GetSysBuf(t, f)
           h == GetSysBuf(g, b)
           e == Reserve(h, b)
           m == IF s.owner = draw THEN s ELSE e
           p == PrepareFlip(s, draw, f, b)
<1>1. /\ b \in s.held /\ f \in DRI2Buffer /\ b \in DRI2Buffer /\ s.front # s.back
      /\ ReservedExact(s) /\ s.got \in SUBSET DRI2Buffer
  BY DEF Agrees, FlipState, Claim, PageFlipPossible
<1>2. p = [Require(m, b \in m.got /\ m.front \notin m.reserved /\ m.back \in m.reserved)
             EXCEPT !.got = @ \ {b}, !.reserved = @ \ {m.back}]
  <2> DEFINE cond == s.owner \in {NoDraw, draw} \/ s.back \notin s.reserved
  <2>1. cond
    BY DEF PageFlipPossible
  <2> HIDE DEF cond
  <2>2. Require(s, cond) = s
    BY <2>1, RequireHolds
  <2> QED  BY <2>2 DEF PrepareFlip, cond
<1> HIDE DEF p
<1>3. /\ t \in FlipState /\ t.server # "aborted" /\ SameRing(s, t)
      /\ t.server = "up" =>
           /\ t.owner = draw /\ t.got = s.got /\ ReservedExact(t)
           /\ s.owner # draw => \A i \in Buf : t.user[i] = NoBuffer
  BY <1>1, TakeOverType, TakeOverClaim, HookPartsRing
<1> HIDE DEF t
<1>4. /\ g \in FlipState /\ g.server = t.server /\ g.front = t.front /\ g.back = t.back
      /\ g.owner = t.owner /\ g.got = t.got /\ g.reserved = t.reserved
      /\ g.user = [t.user EXCEPT ![t.front] = f]
  <2>1. PICK n : g = [t EXCEPT !.name = n, !.user = [t.user EXCEPT ![t.front] = f]]
    BY <1>3 DEF GetSysBuf, IdxOf
  <2>2. g \in FlipState
    BY <1>1, <1>3, GetSysBufType
  <2> HIDE DEF g
  <2> QED  BY <1>3, <2>1, <2>2 DEF FlipState
<1> HIDE DEF g
<1>5. /\ h \in FlipState /\ h.server = g.server /\ h.front = g.front /\ h.back = g.back
      /\ h.owner = g.owner /\ h.got = g.got /\ h.reserved = g.reserved
      /\ h.user = [g.user EXCEPT ![g.back] = b]
  <2>1. PICK n : h = [g EXCEPT !.name = n, !.user = [g.user EXCEPT ![g.back] = b]]
    <3>1. IdxOf(g, b[2]) = g.back
      BY DEF IdxOf
    <3> QED  BY <3>1 DEF GetSysBuf
  <2>2. h \in FlipState
    BY <1>1, <1>4, GetSysBufType
  <2> HIDE DEF h
  <2> QED  BY <1>4, <2>1, <2>2 DEF FlipState
<1> HIDE DEF h
<1>6. /\ e \in FlipState /\ e.server = h.server /\ e.front = h.front /\ e.back = h.back
      /\ e.owner = h.owner /\ e.got = h.got /\ e.reserved = h.reserved \cup {h.back}
      /\ e.user = h.user
  <2>1. e = [h EXCEPT !.reserved = @ \cup {h.back}]
    BY DEF Reserve
  <2>2. e \in FlipState
    BY <1>1, <1>5, ReserveType
  <2> HIDE DEF e
  <2> QED  BY <1>5, <2>1, <2>2 DEF FlipState
<1> HIDE DEF e
<1>7. m \in FlipState /\ m.server # "aborted"
  BY <1>3, <1>4, <1>5, <1>6
<1>8. ASSUME m.server = "up"
      PROVE  /\ m.owner = draw /\ m.got = s.got /\ m.reserved = {m.back} /\ m.front # m.back
             /\ m.user[m.front] = f /\ m.user[m.back] = b
  <2>1. CASE s.owner = draw
    BY <2>1, OwnerReserved
  <2>2. CASE s.owner # draw
    <3>1. t.server = "up" /\ m = e
      BY <1>4, <1>5, <1>6, <1>8, <2>2
    <3>2. /\ t.front \in Buf /\ t.back \in Buf /\ t.front # t.back
          /\ t.user \in [Buf -> DRI2Buffer \cup {NoBuffer}]
      BY <1>1, <1>3 DEF FlipState, SameRing
    <3>3. t.reserved = {}
      BY <1>1, <1>3, <2>2, <3>1, <3>2, NoBufferType DEF ReservedExact
    <3>4. h.user[t.front] = f /\ h.user[t.back] = b
      BY <1>4, <1>5, <3>2
    <3> QED  BY <1>3, <1>4, <1>5, <1>6, <3>1, <3>2, <3>3, <3>4
  <2> QED  BY <2>1, <2>2
<1> HIDE DEF m
<1>9. p = [m EXCEPT !.got = @ \ {b}, !.reserved = @ \ {m.back}]
  <2> DEFINE cond == b \in m.got /\ m.front \notin m.reserved /\ m.back \in m.reserved
  <2>1. m.server = "up" => cond
    BY <1>8
  <2> HIDE DEF cond
  <2>2. Require(m, cond) = m
    BY <2>1, RequireHolds
  <2> QED  BY <1>2, <2>2 DEF cond
<1>10. /\ p.server = m.server /\ p.front = m.front /\ p.back = m.back
       /\ p.owner = m.owner /\ p.user = m.user
       /\ p.got = m.got \ {b} /\ p.reserved = m.reserved \ {m.back}
  BY <1>7, <1>9 DEF FlipState
<1> QED  BY <1>7, <1>8, <1>10 DEF p

(***************************************************************************)
(* A submitted flip: the names and busy flags are as asserted, no other    *)
(* swap is uncompleted, and the buffers move on in the ring.               *)
(***************************************************************************)
LEMMA SwapByFlipClaims ==
  ASSUME Joined, NEW draw \in Drawables, SwapByFlip(draw)
  PROVE  Claims'
<1> DEFINE f == BufferOf(pf, draw, "front")
           b == BufferOf(pf, draw, "back")
           p == PrepareFlip(pf, draw, f, b)
           B == p.back
           N == NextBuf(p.back)
           q == [p EXCEPT !.busy = @ \cup {p.back}, !.completes = @ + 1]
           sub == ExchangeBufs(q, f, b)
           now == CompleteAtOnce(sub)
           done == IF now THEN [sub EXCEPT !.completes = @ - 1] ELSE sub
<1>1. Swappable(draw) /\ PageFlipPossible(pf, draw, fs) /\ Idle /\ pf.server = "up"
  BY DEF SwapByFlip, Swappable, Idle, Up
<1>2. /\ f \in pf.held /\ b \in pf.held /\ b \in pf.got /\ f \in DRI2Buffer /\ b \in DRI2Buffer
      /\ f[1] = draw /\ f[2] = "front" /\ b[1] = draw /\ b[2] = "back"
      /\ \A c \in pf.held : c[1] = draw => c \in {f, b}
      /\ \A c, d \in pf.held : c[1] = d[1] /\ c[2] = d[2] => c = d
  BY <1>1, SwappedBuffers
<1>3. /\ pf \in FlipState /\ Agrees(pf, {}) /\ Good(pf, {}) /\ Claim(pf) /\ ReservedExact(pf)
      /\ NumBufs >= 2 /\ pf.back \notin pf.busy
  BY <1>1 DEF Joined, Claims, TypeOK, Owned, Good, Claim, PageFlipPossible
<1>4. Uncompleted = {} /\ pf.completes = 0
  <2>1. Uncompleted = {}
    BY <1>1, <1>3, NobodyWaits
  <2> QED  BY <1>1, <2>1 DEF Joined, Claims, Ring, Waiting, Up
<1>5. pf' = LET x == Submit(p, f, b)
                d == IF CompleteAtOnce(x) THEN [x EXCEPT !.completes = @ - 1] ELSE x
            IN  Require(d, d.completes < 2)
  BY DEF SwapByFlip
<1>6. \E c \in BOOLEAN : reqs' = WithReq(NewId, [NewFlip(draw) EXCEPT !.completed = c])
  BY DEF SwapByFlip, CompleteAtOnce
<1> HIDE DEF f, b
<1>7. /\ p \in FlipState /\ SameRing(pf, p) /\ Good(p, {}) /\ p.held = pf.held
      /\ p.server # "aborted"
      /\ p.server = "up" =>
           /\ p.owner = draw /\ p.reserved = {} /\ p.got = pf.got \ {b}
           /\ p.user[p.front] = f /\ p.user[p.back] = b
  <2>1. p \in FlipState /\ SameRing(pf, p)
    BY <1>2, <1>3, PrepareFlipType, PrepareFlipRing
  <2>2. Good(p, {}) /\ p.held = pf.held
    BY <1>2, <1>3, PrepareFlipGood
  <2>3. /\ p.server # "aborted"
        /\ p.server = "up" =>
             /\ p.owner = draw /\ p.reserved = {} /\ p.got = pf.got \ {b}
             /\ p.user[p.front] = f /\ p.user[p.back] = b
    BY <1>1, <1>2, <1>3, PrepareFlipClaim
  <2> QED  BY <2>1, <2>2, <2>3
<1> HIDE DEF p
<1>8. p.server = "up" => p.name[f] = p.front /\ p.name[b] = p.back /\ p.back \notin p.busy
  <2> SUFFICES ASSUME p.server = "up"
               PROVE  p.name[f] = p.front /\ p.name[b] = p.back /\ p.back \notin p.busy
    OBVIOUS
  <2>1. f # NoBuffer /\ b # NoBuffer /\ p.front \in Buf /\ p.back \in Buf
    BY <1>2, <1>7, NoBufferType DEF FlipState
  <2>2. p.name[f] = p.front /\ p.name[b] = p.back
    BY <1>7, <2>1 DEF Good, Agrees
  <2> QED  BY <1>3, <1>7, <2>2 DEF SameRing
<1>9. Submit(p, f, b) = sub
  <2> DEFINE cond == p.name[f] = p.front /\ p.name[b] = p.back /\ p.back \notin p.busy
  <2>1. p.server = "up" => cond
    BY <1>8
  <2> HIDE DEF cond
  <2>2. Require(p, cond) = p
    BY <2>1, RequireHolds
  <2> QED  BY <2>2 DEF Submit, cond
<1>10. /\ q \in FlipState /\ q.front = p.front /\ q.back = p.back /\ q.name = p.name
       /\ q.server = p.server /\ q.owner = p.owner /\ q.got = p.got
       /\ q.reserved = p.reserved /\ q.held = p.held /\ q.user = p.user
       /\ q.completes = 1
  <2> DEFINE y == p.busy \cup {p.back}
             z == p.completes + 1
             x == [p EXCEPT !.busy = y]
  <2>1. y \in SUBSET Buf /\ z = 1 /\ z \in Int
    BY <1>4, <1>7 DEF SameRing, FlipState
  <2>2. q = [p EXCEPT !.busy = y, !.completes = z]
    BY <1>7 DEF FlipState
  <2>3. q = [x EXCEPT !.completes = z] /\ x \in FlipState
    BY <1>7, <2>1, <2>2, FieldTypes
  <2> HIDE DEF y, z, q
  <2>4. q \in FlipState
    BY <2>1, <2>3, FieldTypes
  <2> QED  BY <1>7, <2>1, <2>2, <2>4 DEF FlipState
<1> HIDE DEF q
<1>11. B \in Buf /\ N \in Buf /\ N # B /\ p.front \in Buf
  BY <1>3, <1>7, NextBufType DEF FlipState
<1> HIDE DEF N, B
<1>12. /\ sub.server = p.server /\ sub.owner = p.owner /\ sub.got = p.got
       /\ sub.reserved = p.reserved /\ sub.held = p.held
       /\ sub.front = B /\ sub.back = N /\ sub.completes = 1
       /\ sub.user[B] = f /\ sub.user[N] = b /\ sub \in FlipState
  <2> DEFINE cond == q.name[f] = q.front /\ q.name[b] = q.back
             us == [i \in Buf |-> IF i = N THEN b ELSE IF i = B THEN f
                                  ELSE IF i = q.front THEN NoBuffer ELSE q.user[i]]
  <2>1. q.server = "up" => cond
    BY <1>8, <1>10
  <2> HIDE DEF cond
  <2>2. Require(q, cond) = q
    BY <2>1, RequireHolds
  <2>3. PICK n : sub = [q EXCEPT !.front = B, !.back = N, !.name = n, !.user = us]
    BY <1>10, <2>2 DEF ExchangeBufs, cond, B, N
  <2>4. us[B] = f /\ us[N] = b
    BY <1>11
  <2>5. sub \in FlipState
    BY <1>2, <1>10, ExchangeBufsType
  <2> HIDE DEF us, sub
  <2> QED  BY <1>10, <2>3, <2>4, <2>5 DEF FlipState
<1> HIDE DEF sub, now
<1>13. SameClaim(sub, done) /\ done.completes < 2
  <2>1. done = sub \/ done = [sub EXCEPT !.completes = sub.completes - 1]
    OBVIOUS
  <2>2. SameClaim(sub, done)
    BY <1>12, <2>1, OtherFieldsClaim
  <2>3. done.completes \in {0, 1}
    BY <1>12, <2>1 DEF FlipState
  <2> QED  BY <2>2, <2>3
<1>14. pf' = done
  <2>1. pf' = Require(done, done.completes < 2)
    BY <1>5, <1>9 DEF now
  <2> HIDE DEF done
  <2> QED  BY <1>13, <2>1, RequireHolds
<1> HIDE DEF done
<1>15. Claim(sub)
  <2> SUFFICES ASSUME sub.server = "up"
               PROVE  OwnerShown(sub) /\ ReservedExact(sub) /\ OwnerHolds(sub, {})
    BY <1>7, <1>12 DEF Claim
  <2>1. /\ sub.owner = draw /\ sub.reserved = {} /\ sub.got = pf.got \ {b}
        /\ sub.held = pf.held
    BY <1>7, <1>12
  <2>2. OwnerShown(sub)
    BY <1>2, <1>11, <1>12, NoBufferType DEF OwnerShown
  <2>3. ReservedExact(sub)
    BY <1>3, <1>12, <2>1 DEF ReservedExact
  <2>4. OwnerHolds(sub, {})
    <3> SUFFICES ASSUME NEW c \in pf.held, c[1] = draw PROVE sub.user[IdxOf(sub, c[2])] = c
      BY <2>1 DEF OwnerHolds
    <3>1. c \in {f, b}
      BY <1>2
    <3> QED  BY <1>2, <1>12, <3>1 DEF IdxOf
  <2> QED  BY <2>2, <2>3, <2>4
<1>16. Claim(pf')
  BY <1>13, <1>14, <1>15, ClaimKept
<1>17. OwnerUnwaited'
  <2> SUFFICES ASSUME Up', NEW u \in ReqIds, Waited(reqs'[u])
               PROVE  pf'.owner \in {NoDraw, reqs'[u].draw}
    BY DEF OwnerUnwaited, Uncompleted, Used, Waited
  <2>1. pf'.owner = draw
    BY <1>7, <1>12, <1>13, <1>14 DEF Up, SameClaim
  <2>2. ~Waited(reqs[u])
    BY <1>4 DEF Uncompleted, Used, Waited
  <2>3. PICK c \in BOOLEAN : reqs' = WithReq(NewId, [NewFlip(draw) EXCEPT !.completed = c])
    BY <1>6
  <2>4. reqs'[u] = reqs[u] \/ reqs'[u] = [NewFlip(draw) EXCEPT !.completed = c]
    BY <2>3 DEF WithReq, Joined, Claims, TypeOK
  <2>5. [NewFlip(draw) EXCEPT !.completed = c].draw = draw
    BY DEF NewFlip
  <2> QED  BY <2>1, <2>2, <2>4, <2>5
<1>18. NoneRenders'
  BY <1>7, <1>12, <1>13, <1>14 DEF NoneRenders, Up, SameClaim
<1> QED  BY <1>16, <1>17, <1>18 DEF Claims

(***************************************************************************)
(* A resized screen: only flips are killed before they are completed, and  *)
(* the new chain has no owner.                                             *)
(***************************************************************************)
LEMMA ResizeScreenClaims ==
  ASSUME Joined, ResizeScreen
  PROVE  Claims'
<1> DEFINE r == RecreateFlip(pf)
           t == UpdateFlipPixmaps(r)
<1>1. pf.server = "up" /\ TypeOK /\ LifeCycle /\ Ring /\ pf \in FlipState /\ ReservedExact(pf)
  BY DEF ResizeScreen, Idle, Up, Joined, Claims, TypeOK, Claim
<1>2. pf' = t /\ reqs' = KillSwapReqs
  <2> DEFINE cond == \A id \in Uncompleted : reqs[id].type = "flip"
  <2>1. cond
    BY <1>1, Waiters DEF Ring, FormsHold, Form, Up
  <2> HIDE DEF cond
  <2>2. Require(pf, cond) = pf
    BY <2>1, RequireHolds
  <2> QED  BY <2>2 DEF ResizeScreen, KillChecked, cond
<1>3. \E n, x : \E y \in {"up", "segfault"} :
        t = [FreshFlip EXCEPT !.held = pf.held, !.got = pf.got, !.name = n,
                              !.pixmaps = x, !.server = y]
  <2>1. PICK n, x : r = [FreshFlip EXCEPT !.held = pf.held, !.got = pf.got, !.name = n,
                                          !.pixmaps = x, !.server = "up"]
    BY <1>1 DEF RecreateFlip
  <2> HIDE DEF r
  <2>2. t = r \/ t = [r EXCEPT !.server = "segfault"]
    BY DEF UpdateFlipPixmaps
  <2>3. [r EXCEPT !.server = "segfault"] =
          [FreshFlip EXCEPT !.held = pf.held, !.got = pf.got, !.name = n,
                            !.pixmaps = x, !.server = "segfault"]
    BY <2>1 DEF FreshFlip
  <2> HIDE DEF t
  <2> DEFINE made(y) == [FreshFlip EXCEPT !.held = pf.held, !.got = pf.got, !.name = n,
                                          !.pixmaps = x, !.server = y]
  <2>4. t = made("up") \/ t = made("segfault")
    BY <2>1, <2>2, <2>3
  <2> HIDE DEF made
  <2>5. \E y \in {"up", "segfault"} : t = made(y)
    BY <2>4
  <2> QED  BY <2>5 DEF made
<1> HIDE DEF t
<1>4. /\ t.owner = NoDraw /\ t.reserved = {} /\ t.got = pf.got /\ t.held = pf.held
      /\ t.user = [i \in Buf |-> NoBuffer] /\ t.back = NextBuf(0) /\ t.server # "aborted"
  BY <1>3 DEF FreshFlip
<1>5. NextBuf(0) \in Buf
  BY NextBufType, FlipAssumption DEF Buf
<1>6. ReservedExact(t)
  <2>1. t.user[t.back] = NoBuffer
    BY <1>4, <1>5
  <2>2. NoBuffer \notin pf.got
    BY <1>1, NoBufferType DEF FlipState
  <2> QED  BY <1>1, <1>4, <2>1, <2>2 DEF ReservedExact
<1>7. OwnerShown(t) /\ OwnerHolds(t, {})
  BY <1>1, <1>4, FlipAssumption DEF OwnerShown, OwnerHolds, FlipState, DRI2Buffer
<1>8. Claim(pf')
  BY <1>2, <1>4, <1>6, <1>7 DEF Claim
<1>9. OwnerUnwaited' /\ NoneRenders'
  BY <1>2, <1>4 DEF OwnerUnwaited, NoneRenders
<1> QED  BY <1>8, <1>9 DEF Claims

-----------------------------------------------------------------------------
(* At the start nobody has a claim. *)
LEMMA InitClaims == Init => Claims
<1> SUFFICES ASSUME Init PROVE Claims
  OBVIOUS
<1>1. NextBuf(0) \in Buf
  BY NextBufType, FlipAssumption DEF Buf
<1>2. Claim(pf)
  BY <1>1 DEF Init, FreshFlip, Claim, OwnerShown, ReservedExact, OwnerHolds
<1>3. OwnerUnwaited /\ NoneRenders
  BY DEF Init, FreshFlip, OwnerUnwaited, NoneRenders
<1> QED  BY <1>2, <1>3 DEF Claims

(* Every step keeps the claim of the owner. *)
LEMMA NextClaims == Joined /\ [Next]_vars => Claims'
<1> SUFFICES ASSUME Joined, [Next]_vars PROVE Claims'
  OBVIOUS
<1>1. ASSUME pf' = pf, reqs' = reqs PROVE Claims'
  BY <1>1, ClaimsKept DEF SameClaim, NoNewWaits
<1>2. CASE ServerCall
  BY <1>2, SyncHandlerClaims, FlipSwapReqClaims, FlipHandlerClaims, FlipDoneClaims,
     ScheduleDamageClaims DEF ServerCall
<1>3. CASE Client
  <2>1. ASSUME NEW d \in Drawables, NEW resized \in BOOLEAN,
               GetBuffers(d, resized) \/ GetFrontBuffer(d, resized)
        PROVE  Claims'
    BY <2>1, GetBuffersClaims, GetFrontBufferClaims
  <2>2. ASSUME NEW d \in Drawables, SwapByCopy(d) \/ SwapByFlip(d) \/ DestroyDrawable(d)
        PROVE  Claims'
    BY <2>2, SwapByCopyClaims, SwapByFlipClaims, DestroyDrawableClaims
  <2>3. ASSUME NEW d \in Drawables \cup {NoDraw}, SetFullscreen(d) PROVE Claims'
    BY <1>1, <2>3 DEF SetFullscreen
  <2>4. ASSUME NEW a \in Areas, DrawOnScreen(a) PROVE Claims'
    BY <1>1, <2>4 DEF DrawOnScreen
  <2> QED  BY <1>3, <2>1, <2>2, <2>3, <2>4 DEF Client
<1>4. CASE Kernel
  BY <1>1, <1>4 DEF Kernel, RenderDone, VBlank, TransferDone, FlipEvent
<1>5. CASE \E o \in Overlays : CrtcDpms(o)
  BY <1>1, <1>5 DEF CrtcDpms
<1>6. CASE ResizeScreen
  BY <1>6, ResizeScreenClaims
<1>7. CASE UNCHANGED vars
  BY <1>1, <1>7 DEF vars
<1> QED  BY <1>2, <1>3, <1>4, <1>5, <1>6, <1>7 DEF Next

(* The four parts of the state, always. *)
THEOREM ClaimsInOrder == Spec => []Joined
<1>1. Init => Owned(pf) /\ Claims
  BY InitOwned, InitClaims
<1>2. TypeOK /\ LifeCycle /\ Ring /\ (Owned(pf) /\ Claims) /\ [Next]_vars
        => (Owned(pf) /\ Claims)'
  BY NextOwned, NextClaims DEF Joined, Claims
<1>3. TypeOK /\ LifeCycle /\ Ring /\ Owned(pf) /\ Claims => Joined
  BY DEF Joined, Claims
<1> QED  BY <1>1, <1>2, <1>3, RingInOrder, PTL DEF Spec

(***************************************************************************)
(* No assertion of sgx_dri2.c fails, whatever the order of the requests    *)
(* of clients, of events and of resizes, for every number of windows,      *)
(* overlays, flip buffers and requests.                                    *)
(***************************************************************************)
THEOREM AssertionsHold == Spec => []NoAssertFails
<1>1. Joined => NoAssertFails
  BY DEF Joined, Claims, Claim, NoAssertFails
<1> QED  BY <1>1, ClaimsInOrder, PTL

(***************************************************************************)
(* A buffer is reserved exactly if a client was handed it: who is shown in *)
(* the chain was told the name of the buffer, and nobody else was.         *)
(***************************************************************************)
LEMMA ReservedForClients == Joined => ReservationExact
<1> SUFFICES ASSUME Joined, Up PROVE pf.reserved = ClientBuffers
  BY DEF ReservationExact
<1>1. pf \in FlipState /\ Agrees(pf, {}) /\ ReservedExact(pf)
  BY DEF Joined, Claims, TypeOK, Owned, Good, Claim, Up
<1>2. \A i \in Buf : i \notin {Private, Gone}
  BY FlipAssumption DEF Buf
<1>3. ASSUME NEW i \in pf.reserved PROVE i \in ClientBuffers
  <2>1. i = pf.back /\ pf.back \in Buf /\ pf.user[i] \in pf.got /\ pf.user[i] # NoBuffer
    BY <1>1, <1>3, NoBufferType DEF ReservedExact, FlipState
  <2>2. pf.name[pf.user[i]] = i
    BY <1>1, <2>1 DEF Agrees
  <2> QED  BY <1>2, <2>1, <2>2 DEF ClientBuffers
<1>4. ASSUME NEW i \in ClientBuffers PROVE i \in pf.reserved
  <2>1. PICK b \in pf.got : i = pf.name[b] /\ i \notin {Private, Gone}
    BY DEF ClientBuffers
  <2>2. b \in pf.held /\ b \in DRI2Buffer /\ i \in Buf /\ b # NoBuffer /\ b[2] = "back"
    BY <1>1, <2>1, NoBufferType DEF Agrees, FlipState, ReservedExact
  <2>3. pf.user[i] = b
    BY <1>1, <2>1, <2>2 DEF Agrees
  <2>4. i = pf.back
    BY <1>1, <2>2, <2>3 DEF Agrees, IdxOf
  <2> QED  BY <1>1, <2>3, <2>4 DEF ReservedExact
<1> QED  BY <1>3, <1>4

(***************************************************************************)
(* The reserved flags are set of the flip buffers that clients were handed *)
(* and have not swapped, and of no others: none outlives its client.       *)
(***************************************************************************)
THEOREM ReservationStaysExact == Spec => []ReservationExact
BY ReservedForClients, ClaimsInOrder, PTL

-----------------------------------------------------------------------------
(***************************************************************************)
(* No NULL pointer is followed where clients ask for the back buffer as    *)
(* well.  migrate_from_fs reads through both buffers of the owner that it  *)
(* evicts, which are there as long as every drawable has both or none.     *)
(***************************************************************************)
Paired == \A d \in Drawables : <<d, "front", 0>> \in pf.held <=> <<d, "back", 0>> \in pf.held

(* Both buffers of the owner are shown. *)
Whole(s) == NoBuffer \notin {s.user[s.front], s.user[s.back]}

(* The owner is whole, or nobody has to evict it in a request of draw. *)
Evictable(s, draw) ==
  \/ s.owner = NoDraw
  \/ Whole(s)
  \/ s.owner = draw /\ fs = draw /\ NumBufs >= 2

(* No NULL pointer was followed, and a request of draw will follow none. *)
Sound(s, draw) == s.server # "segfault" /\ Evictable(s, draw)

(* What that depends on. *)
SameShown(s, t) ==
  /\ t.server = s.server /\ t.owner = s.owner
  /\ t.front = s.front /\ t.back = s.back /\ t.user = s.user

(* States that agree on these fields are equally sound. *)
LEMMA ShownSound ==
  ASSUME NEW s, NEW t, NEW draw, SameShown(s, t), Sound(s, draw)
  PROVE  Sound(t, draw)
BY DEF SameShown, Sound, Evictable, Whole

(* Naming and reserving a buffer evicts nobody. *)
LEMMA PartsShown ==
  ASSUME NEW s \in FlipState, NEW b
  PROVE  /\ SameShown(s, HandOut(s, b)) /\ SameShown(s, Reserve(s, b))
         /\ SameShown(s, GetNonSysBuf(s, b))
         /\ GetSysBuf(s, b).server = s.server /\ GetSysBuf(s, b).owner = s.owner
         /\ \A h, g : SameShown(s, [s EXCEPT !.held = h, !.got = g])
BY DEF SameShown, HandOut, Reserve, GetNonSysBuf, GetSysBuf, FlipState

(* pvr2d_dri2_migrate_from_fs finds both buffers of an owner that is whole, *)
LEMMA MigrateSound ==
  ASSUME NEW s \in FlipState, Whole(s), s.server # "segfault"
  PROVE  MigrateFromFs(s).server # "segfault" /\ MigrateFromFs(s).owner = NoDraw
<1> DEFINE f == s.user[s.front]
           c == s.user[s.back]
           r == Require(s, f[2] = "front" /\ c[2] = "back" /\ s.front \notin s.reserved)
<1>1. r \in FlipState /\ r.server # "segfault"
  BY RequireType DEF Require, FlipState
<1>2. PICK n, v, u :
        MigrateFromFs(s) = [r EXCEPT !.name = n, !.reserved = v, !.user = u, !.owner = NoDraw]
  BY DEF MigrateFromFs, Whole
<1> HIDE DEF r
<1> QED  BY <1>1, <1>2 DEF FlipState

(* and so does whoever takes over. *)
LEMMA TakeOverSound ==
  ASSUME NEW s \in FlipState, NEW draw \in Drawables, Sound(s, draw)
  PROVE  TakeOver(s, draw).server # "segfault" /\ TakeOver(s, draw).owner = draw
<1> DEFINE m == IF s.owner \in {NoDraw, draw} THEN s ELSE MigrateFromFs(s)
<1>1. m \in FlipState
  BY MigrateFromFsType
<1>2. m.server # "segfault"
  BY MigrateSound DEF Sound, Evictable
<1>3. TakeOver(s, draw) = [m EXCEPT !.owner = draw]
  BY DEF TakeOver
<1> HIDE DEF m
<1> QED  BY <1>1, <1>2, <1>3 DEF FlipState

(* pvr2d_dri2_create_buf, *)
LEMMA CreateBufSound ==
  ASSUME NEW s \in FlipState, NEW b \in DRI2Buffer, Sound(s, b[1])
  PROVE  Sound(CreateBuf(s, b, fs), b[1])
<1> DEFINE n == [s EXCEPT !.held = @ \cup {b}, !.got = @ \ {b}]
           t == TakeOver(n, b[1])
           g == GetSysBuf(t, b)
           r == Reserve(g, b)
           p == GetNonSysBuf(n, b)
<1>1. n \in FlipState /\ b[1] \in Drawables /\ Sound(n, b[1])
  <2>1. n \in FlipState /\ b[1] \in Drawables
    BY DEF FlipState, DRI2Buffer
  <2>2. PICK x, y : n = [s EXCEPT !.held = x, !.got = y]
    OBVIOUS
  <2> HIDE DEF n
  <2>3. SameShown(s, n)
    BY <2>2, PartsShown
  <2> QED  BY <2>1, <2>3, ShownSound
<1>2. CreateBuf(s, b, fs) = HandOut(IF PageFlipPossible(n, b[1], fs) THEN r ELSE p, b)
  BY DEF CreateBuf
<1> HIDE DEF n
<1>3. p \in FlipState /\ Sound(p, b[1])
  BY <1>1, GetNonSysBufType, PartsShown, ShownSound
<1>4. r \in FlipState /\ (PageFlipPossible(n, b[1], fs) => Sound(r, b[1]))
  <2>1. t \in FlipState /\ t.server # "segfault" /\ t.owner = b[1]
    BY <1>1, TakeOverType, TakeOverSound
  <2> HIDE DEF t
  <2>2. g \in FlipState /\ g.server # "segfault" /\ g.owner = b[1]
    BY <2>1, GetSysBufType, PartsShown
  <2> HIDE DEF g
  <2>3. r \in FlipState /\ r.server # "segfault" /\ r.owner = b[1]
    BY <2>2, ReserveType, PartsShown DEF SameShown
  <2> QED  BY <2>3 DEF PageFlipPossible, Sound, Evictable
<1> HIDE DEF p, r
<1> QED  BY <1>2, <1>3, <1>4, PartsShown, ShownSound

(* and pvr2d_dri2_reuse_buf, whose owner may leave before it moves in again. *)
LEMMA ReuseBufSound ==
  ASSUME NEW s \in FlipState, NEW b \in DRI2Buffer, Sound(s, b[1])
  PROVE  Sound(ReuseBuf(s, b, fs), b[1])
<1> DEFINE m == LeaveIfNotCapable(s, b, fs)
           t == TakeOver(m, b[1])
           g == IF IsFs(t, b) THEN t ELSE GetSysBuf(t, b)
           r == Reserve(g, b)
<1>1. b[1] \in Drawables /\ m \in FlipState
  BY LeaveType DEF DRI2Buffer
<1>2. Sound(m, b[1])
  <2> DEFINE q == Require(s, IsFs(s, b))
  <2>1. CASE s.owner = b[1] /\ (fs # b[1] \/ NumBufs < 2)
    <3>1. Whole(s)
      BY <1>1, <2>1, FlipAssumption DEF Sound, Evictable
    <3>2. q \in FlipState /\ Whole(q) /\ q.server # "segfault"
      BY <3>1, RequireType DEF Require, Whole, Sound, FlipState
    <3>3. m = MigrateFromFs(q)
      BY <2>1 DEF LeaveIfNotCapable
    <3> HIDE DEF q, m
    <3> QED  BY <3>2, <3>3, MigrateSound DEF Sound, Evictable
  <2>2. CASE ~(s.owner = b[1] /\ (fs # b[1] \/ NumBufs < 2))
    BY <2>2 DEF LeaveIfNotCapable
  <2> QED  BY <2>1, <2>2
<1>3. ReuseBuf(s, b, fs) = HandOut(IF PageFlipPossible(m, b[1], fs) THEN r ELSE m, b)
  BY DEF ReuseBuf
<1> HIDE DEF m
<1>4. r \in FlipState /\ (PageFlipPossible(m, b[1], fs) => Sound(r, b[1]))
  <2>1. t \in FlipState /\ t.server # "segfault" /\ t.owner = b[1]
    BY <1>1, <1>2, TakeOverType, TakeOverSound
  <2> HIDE DEF t
  <2>2. g \in FlipState /\ g.server # "segfault" /\ g.owner = b[1]
    BY <2>1, GetSysBufType, PartsShown
  <2> HIDE DEF g
  <2>3. r \in FlipState /\ r.server # "segfault" /\ r.owner = b[1]
    BY <2>2, ReserveType, PartsShown DEF SameShown
  <2> QED  BY <2>3 DEF PageFlipPossible, Sound, Evictable
<1> HIDE DEF r
<1> QED  BY <1>1, <1>2, <1>3, <1>4, PartsShown, ShownSound

(* So the request for a buffer follows no NULL pointer. *)
LEMMA ProvideSound ==
  ASSUME NEW s \in FlipState, NEW draw \in Drawables, NEW att \in Attachment,
         NEW resized \in BOOLEAN, Sound(s, draw)
  PROVE  Sound(Provide(s, draw, att, resized), draw)
<1> DEFINE b0 == <<draw, att, 0>>
           b1 == <<draw, att, 1>>
<1>1. b0 \in DRI2Buffer /\ b1 \in DRI2Buffer /\ b0[1] = draw /\ b1[1] = draw
  BY DEF DRI2Buffer
<1>2. BufferOf(pf, draw, att) \in {NoBuffer, b0}
  BY DEF BufferOf
<1> HIDE DEF b0, b1
<1>3. /\ Sound(CreateBuf(s, b0, fs), draw) /\ Sound(CreateBuf(s, b1, fs), draw)
      /\ Sound(ReuseBuf(s, b0, fs), draw)
  BY <1>1, CreateBufSound, ReuseBufSound
<1> QED  BY <1>2, <1>3 DEF Provide, b0, b1

(* What is destroyed or renamed follows none. *)
LEMMA DropSound ==
  ASSUME NEW s \in FlipState, NEW b, s.server # "segfault"
  PROVE  DropBuf(s, b).server # "segfault"
<1> DEFINE at == {i \in {s.front, s.back} : s.owner = b[1] /\ s.user[i] = b}
           r  == Require(s, s.front \in at => s.front \notin s.reserved)
<1>1. r \in FlipState /\ r.server # "segfault"
  BY RequireType DEF Require, FlipState
<1>2. PICK u, v, o :
        DestroyBuf(s, b) = [r EXCEPT !.user = u, !.reserved = v, !.owner = o,
                                     !.held = @ \ {b}, !.got = @ \ {b}, !.name[b] = Private]
  <2>1. \A u, v : /\ [r EXCEPT !.user = u].reserved = r.reserved
                  /\ [r EXCEPT !.user = u, !.reserved = v].owner = r.owner
    <3> HIDE DEF r
    <3> QED  BY <1>1 DEF FlipState
  <2> QED  BY <2>1 DEF DestroyBuf
<1> HIDE DEF r
<1>3. DestroyBuf(s, b).server # "segfault"
  BY <1>1, <1>2 DEF FlipState
<1> QED  BY <1>3 DEF DropBuf

(* Between requests the owner is whole. *)
LEMMA OwnerWhole ==
  ASSUME Joined, Up, Paired
  PROVE  pf.owner = NoDraw \/ Whole(pf)
<1> SUFFICES ASSUME pf.owner # NoDraw PROVE Whole(pf)
  OBVIOUS
<1>1. /\ pf \in FlipState /\ Agrees(pf, {}) /\ OwnerShown(pf) /\ OwnerHolds(pf, {})
      /\ Settled(pf)
  BY DEF Joined, Claims, TypeOK, Owned, Good, Claim, Up
<1>2. PICK i \in Buf : pf.user[i] # NoBuffer
  BY <1>1 DEF OwnerShown
<1>3. pf.front # pf.back /\ pf.user[i] \in pf.held /\ pf.user[i][1] = pf.owner
      /\ pf.user[i] \in DRI2Buffer
  BY <1>1, <1>2, ShownApart
<1>4. pf.user[i][3] = 0
  BY <1>1, <1>3 DEF Settled
<1>5. /\ pf.owner \in Drawables
      /\ pf.user[i] \in {<<pf.owner, "front", 0>>, <<pf.owner, "back", 0>>}
  BY <1>3, <1>4 DEF DRI2Buffer, Attachment
<1>6. <<pf.owner, "front", 0>> \in pf.held /\ <<pf.owner, "back", 0>> \in pf.held
  BY <1>3, <1>5 DEF Paired
<1>7. /\ pf.user[pf.front] = <<pf.owner, "front", 0>>
      /\ pf.user[pf.back] = <<pf.owner, "back", 0>>
  BY <1>1, <1>6 DEF OwnerHolds, IdxOf
<1>8. \A x \in pf.held : x # NoBuffer
  BY <1>1, NoBufferType DEF FlipState
<1> QED  BY <1>6, <1>7, <1>8 DEF Whole

(* No NULL pointer was followed, and all that will be followed is there. *)
NullSafe == pf.server # "segfault" /\ pf.pixmaps /\ Paired

(* GetBuffers leaves both buffers of the drawable. *)
LEMMA GetBuffersSafe ==
  ASSUME Joined, NullSafe, NEW draw \in Drawables, NEW resized \in BOOLEAN,
         GetBuffers(draw, resized)
  PROVE  NullSafe'
<1> DEFINE s  == Provide(pf, draw, "back", resized)
           u  == Provide(s, draw, "front", resized)
           w  == DropOld(u, draw, TRUE, resized)
           ob == BufferOf(pf, draw, "back")
           of == BufferOf(pf, draw, "front")
           v  == DropBuf(u, ob)
           X  == Replaced(draw, resized)
           Now(b) == IF b # NoBuffer /\ b[1] = draw THEN <<draw, b[2], 0>> ELSE b
<1>1. TypeOK /\ Owned(pf) /\ Up /\ pf \in FlipState /\ Paired /\ Settled(pf)
  BY DEF Joined, Claims, TypeOK, GetBuffers, Idle, NullSafe, Owned
<1>2. /\ s \in FlipState /\ u \in FlipState /\ Good(u, X)
      /\ u.held = pf.held \cup {Newest(draw, a, resized) : a \in {"back", "front"}}
      /\ Dropped(w, draw, X)
  BY <1>1, GetBuffersSteps
<1>3. Sound(pf, draw)
  BY <1>1, OwnerWhole DEF Sound, Evictable, NullSafe
<1>4. Sound(u, draw)
  <2>1. Sound(s, draw)
    BY <1>1, <1>3, ProvideSound DEF Attachment
  <2> HIDE DEF s
  <2> QED  BY <1>2, <2>1, ProvideSound DEF Attachment
<1>5. pf' = Settle(w, draw)
  BY DEF GetBuffers
<1> HIDE DEF u, X, ob, of
<1>6. v \in FlipState /\ Good(v, X) /\ v.held = u.held \ {ob} /\ v.server # "segfault"
  BY <1>2, <1>4, DropBufGood, DropSound DEF Sound
<1>7. w = IF resized THEN DropBuf(v, of) ELSE u
  BY DEF DropOld, ob, of
<1> HIDE DEF v, w
<1>8. /\ w.server # "segfault"
      /\ w.held = IF resized THEN u.held \ {ob, of} ELSE u.held
  <2>1. DropBuf(v, of).held = v.held \ {of} /\ DropBuf(v, of).server # "segfault"
    BY <1>6, DropBufGood, DropSound
  <2> QED  BY <1>4, <1>6, <1>7, <2>1 DEF Sound
<1>9. PICK us, gt, n :
        pf' = [w EXCEPT !.user = us, !.held = {Now(b) : b \in w.held}, !.got = gt, !.name = n]
  BY <1>5 DEF Settle
<1>10. /\ pf'.server # "segfault" /\ pf'.held = {Now(b) : b \in w.held}
  BY <1>2, <1>8, <1>9 DEF Dropped, FlipState
<1>11. pf'.pixmaps
  BY GetBuffersUnmoved, <1>1 DEF NullSafe, SameRing
<1>12. ASSUME NEW a \in {"back", "front"} PROVE <<draw, a, 0>> \in pf'.held
  <2> DEFINE b == Newest(draw, a, resized)
  <2>1. b \in u.held
    BY <1>2
  <2>2. b \in {<<draw, a, 0>>, <<draw, a, 1>>} /\ (resized => b \notin {ob, of})
    <3>1. b # NoBuffer
      BY <1>2, <2>1, NoBufferType DEF FlipState
    <3>2. CASE resized /\ <<draw, a, 0>> \in pf.held
      <4>1. b = <<draw, a, 1>>
        BY <3>2 DEF Newest
      <4>2. ob \in {NoBuffer, <<draw, "back", 0>>} /\ of \in {NoBuffer, <<draw, "front", 0>>}
        BY DEF ob, of, BufferOf
      <4> QED  BY <3>1, <4>1, <4>2
    <3>3. CASE ~(resized /\ <<draw, a, 0>> \in pf.held)
      <4>1. b = <<draw, a, 0>>
        BY <3>3 DEF Newest
      <4>2. resized => ob \in pf.held \cup {NoBuffer} /\ of \in pf.held \cup {NoBuffer}
        BY DEF ob, of, BufferOf
      <4> QED  BY <3>1, <3>3, <4>1, <4>2
    <3> QED  BY <3>2, <3>3
  <2>3. Now(b) = <<draw, a, 0>>
    <3>1. b # NoBuffer
      BY <1>2, <2>1, NoBufferType DEF FlipState
    <3> QED  BY <2>2, <3>1
  <2>4. b \in w.held
    BY <1>8, <2>1, <2>2
  <2> QED  BY <1>10, <2>3, <2>4
<1>13. ASSUME NEW d \in Drawables, d # draw, NEW a \in {"back", "front"}
       PROVE  <<d, a, 0>> \in pf'.held <=> <<d, a, 0>> \in pf.held
  <2>1. \A b \in w.held : Now(b) = <<d, a, 0>> <=> b = <<d, a, 0>>
    BY <1>13
  <2>2. <<d, a, 0>> \in w.held <=> <<d, a, 0>> \in pf.held
    <3>1. <<d, a, 0>> # NoBuffer
      BY <1>13, NoBufferType DEF DRI2Buffer, Attachment
    <3>2. ob \in {NoBuffer, <<draw, "back", 0>>} /\ of \in {NoBuffer, <<draw, "front", 0>>}
      BY DEF ob, of, BufferOf
    <3>3. \A c \in {"back", "front"} : Newest(draw, c, resized) # <<d, a, 0>>
      BY <1>13 DEF Newest
    <3> QED  BY <1>2, <1>8, <1>13, <3>1, <3>2, <3>3
  <2> QED  BY <1>10, <2>1, <2>2
<1>14. Paired'
  BY <1>1, <1>12, <1>13 DEF Paired
<1> QED  BY <1>10, <1>11, <1>14 DEF NullSafe

(* A window that is destroyed takes both of its buffers along. *)
LEMMA DestroyDrawableSafe ==
  ASSUME Joined, NullSafe, NEW draw \in Drawables, DestroyDrawable(draw)
  PROVE  NullSafe'
<1> DEFINE ob == BufferOf(pf, draw, "back")
           of == BufferOf(pf, draw, "front")
           s  == DropBuf(pf, ob)
<1>1. TypeOK /\ pf \in FlipState /\ Good(pf, {}) /\ Paired /\ pf.server # "segfault"
  BY DEF Joined, Claims, TypeOK, NullSafe, Owned
<1>2. s \in FlipState /\ Good(s, {}) /\ s.held = pf.held \ {ob} /\ s.server # "segfault"
  BY <1>1, DropBufGood, DropSound
<1>3. pf' = DropBuf(s, of)
  BY DEF DestroyDrawable
<1> HIDE DEF s, ob, of
<1>4. pf'.held = pf.held \ {ob, of} /\ pf'.server # "segfault"
  <2>1. DropBuf(s, of).held = s.held \ {of} /\ DropBuf(s, of).server # "segfault"
    BY <1>2, DropBufGood, DropSound
  <2> QED  BY <1>2, <1>3, <2>1
<1>5. pf'.pixmaps
  BY <1>1, DestroyDrawableUnmoved DEF NullSafe, SameRing
<1>6. /\ ob \in {NoBuffer, <<draw, "back", 0>>} /\ of \in {NoBuffer, <<draw, "front", 0>>}
      /\ <<draw, "back", 0>> \in pf.held => ob = <<draw, "back", 0>>
      /\ <<draw, "front", 0>> \in pf.held => of = <<draw, "front", 0>>
  BY DEF ob, of, BufferOf
<1>7. \A d \in Drawables, a \in {"back", "front"} :
        <<d, a, 0>> \in pf'.held <=> d # draw /\ <<d, a, 0>> \in pf.held
  <2> SUFFICES ASSUME NEW d \in Drawables, NEW a \in {"back", "front"}
               PROVE  <<d, a, 0>> \in pf'.held <=> d # draw /\ <<d, a, 0>> \in pf.held
    OBVIOUS
  <2>1. \A x \in pf.held : x # NoBuffer
    BY <1>1, NoBufferType DEF FlipState
  <2> QED  BY <1>4, <1>6, <2>1
<1> QED  BY <1>1, <1>4, <1>5, <1>7 DEF Paired, NullSafe

(* Where the ownership is kept there is nothing to follow. *)
LEMMA SameNull ==
  ASSUME NullSafe, SameOwnership(pf, pf')
  PROVE  NullSafe'
BY DEF NullSafe, SameOwnership, Paired

(* A swap by a flip evicts an owner that is whole. *)
LEMMA SwapByFlipSafe ==
  ASSUME Joined, NullSafe, NEW draw \in Drawables, SwapByFlip(draw)
  PROVE  NullSafe'
<1> DEFINE f    == BufferOf(pf, draw, "front")
           b    == BufferOf(pf, draw, "back")
           a    == Require(pf, pf.owner \in {NoDraw, draw} \/ pf.back \notin pf.reserved)
           t    == TakeOver(a, draw)
           g    == GetSysBuf(t, f)
           h    == GetSysBuf(g, b)
           m    == IF pf.owner = draw THEN pf ELSE Reserve(h, b)
           x    == Require(m, b \in m.got /\ m.front \notin m.reserved /\ m.back \in m.reserved)
           p    == PrepareFlip(pf, draw, f, b)
           r    == Require(p, p.name[f] = p.front /\ p.name[b] = p.back
                                /\ p.back \notin p.busy)
           q    == [r EXCEPT !.busy = @ \cup {p.back}, !.completes = @ + 1]
           sub  == ExchangeBufs(q, f, b)
           now  == CompleteAtOnce(sub)
           done == IF now THEN [sub EXCEPT !.completes = @ - 1] ELSE sub
<1>1. TypeOK /\ Owned(pf) /\ pf \in FlipState /\ Sound(pf, draw) /\ pf.pixmaps /\ Paired
  BY OwnerWhole DEF Joined, Claims, TypeOK, SwapByFlip, Swappable, Idle, NullSafe, Sound, Evictable
<1>2. f \in DRI2Buffer /\ b \in DRI2Buffer
  BY <1>1 DEF SwapByFlip, Swappable, FlipState
<1>3. p = [x EXCEPT !.got = @ \ {b}, !.reserved = @ \ {m.back}]
  BY DEF PrepareFlip
<1>4. pf' = Require(done, done.completes < 2)
  BY DEF SwapByFlip, Submit
<1> HIDE DEF f, b, p
<1>5. a \in FlipState /\ Sound(a, draw)
  BY <1>1, RequireType DEF Require, Sound, Evictable, Whole, FlipState
<1> HIDE DEF a
<1>6. t \in FlipState /\ t.server # "segfault"
  BY <1>5, TakeOverType, TakeOverSound
<1> HIDE DEF t
<1>7. g \in FlipState /\ g.server # "segfault"
  BY <1>2, <1>6, GetSysBufType, PartsShown
<1> HIDE DEF g
<1>8. h \in FlipState /\ h.server # "segfault"
  BY <1>2, <1>7, GetSysBufType, PartsShown
<1> HIDE DEF h
<1>9. m \in FlipState /\ m.server # "segfault"
  <2>1. Reserve(h, b) \in FlipState /\ Reserve(h, b).server # "segfault"
    BY <1>2, <1>8, ReserveType, PartsShown DEF SameShown
  <2> QED  BY <1>1, <2>1 DEF Sound
<1> HIDE DEF m
<1>10. x \in FlipState /\ x.server # "segfault"
  BY <1>9, RequireType DEF Require, FlipState
<1> HIDE DEF x
<1>11. p \in FlipState /\ p.server # "segfault" /\ p.pixmaps
  <2>1. p \in FlipState /\ SameRing(pf, p)
    BY <1>1, <1>2, PrepareFlipType, PrepareFlipRing DEF p
  <2> QED  BY <1>1, <1>3, <1>10, <2>1 DEF SameRing, FlipState
<1>12. r \in FlipState /\ r.server # "segfault" /\ r.pixmaps
  BY <1>11, RequireType DEF Require, FlipState
<1> HIDE DEF r
<1>13. q \in FlipState /\ q.server # "segfault" /\ q.pixmaps
  <2> DEFINE y == r.busy \cup {p.back}
             z == r.completes + 1
             r1 == [r EXCEPT !.busy = y]
  <2>1. y \in SUBSET Buf /\ z \in Int
    BY <1>11, <1>12 DEF FlipState
  <2>2. q = [r1 EXCEPT !.completes = z] /\ q.server = r.server /\ q.pixmaps = r.pixmaps
    BY <1>12 DEF FlipState
  <2> HIDE DEF y, z, q
  <2>3. r1 \in FlipState
    BY <1>12, <2>1, FieldTypes
  <2> HIDE DEF r1
  <2> QED  BY <1>12, <2>1, <2>2, <2>3, FieldTypes
<1> HIDE DEF q
<1>14. sub \in FlipState /\ sub.server # "segfault" /\ sub.pixmaps
  <2> DEFINE e == Require(q, q.name[f] = q.front /\ q.name[b] = q.back)
  <2>1. e \in FlipState /\ e.server # "segfault" /\ e.pixmaps
    BY <1>13, RequireType DEF Require, FlipState
  <2>2. PICK nm, us : sub = [e EXCEPT !.front = q.back, !.back = NextBuf(q.back),
                                      !.name = nm, !.user = us]
    <3>1. \A i, j, k :
            LET r1 == [e EXCEPT !.front = i]
                r2 == [r1 EXCEPT !.back = j]
                r3 == [r2 EXCEPT !.name = k]
            IN  r2.name = e.name /\ r3.user = e.user
      <4> HIDE DEF e
      <4> QED  BY <2>1 DEF FlipState
    <3> QED  BY <3>1 DEF ExchangeBufs
  <2>3. sub \in FlipState
    BY <1>2, <1>13, ExchangeBufsType
  <2> HIDE DEF e, sub
  <2> QED  BY <2>1, <2>2, <2>3 DEF FlipState
<1> HIDE DEF sub, now
<1>15. done \in FlipState /\ done.server # "segfault" /\ done.pixmaps
  <2> DEFINE n == sub.completes - 1
  <2>1. n \in Int
    BY <1>14 DEF FlipState
  <2>2. done = IF now THEN [sub EXCEPT !.completes = n] ELSE sub
    OBVIOUS
  <2>3. [sub EXCEPT !.completes = n].server = sub.server
        /\ [sub EXCEPT !.completes = n].pixmaps = sub.pixmaps
    BY <1>14 DEF FlipState
  <2> HIDE DEF n, done
  <2> QED  BY <1>14, <2>1, <2>2, <2>3, FieldTypes
<1> HIDE DEF done
<1>16. pf'.server # "segfault" /\ pf'.pixmaps
  BY <1>4, <1>15 DEF Require, FlipState
<1>17. pf'.held = pf.held
  BY <1>1, SwapByFlipOwned
<1> QED  BY <1>1, <1>16, <1>17 DEF NullSafe, Paired

(* A resize resets the pixmaps of the flip buffers, if it finds them. *)
LEMMA ResizeScreenSafe ==
  ASSUME Joined, NullSafe, KeepPixmaps, ResizeScreen
  PROVE  NullSafe'
<1> DEFINE k  == KillChecked(pf)
           r  == RecreateFlip(k)
           nm == [b \in DRI2Buffer |-> IF k.name[b] = Private THEN Private ELSE Gone]
           px == KeepPixmaps /\ k.pixmaps
<1>1. pf \in FlipState
  BY DEF Joined, TypeOK
<1>2. k.server # "segfault" /\ k.pixmaps = TRUE /\ k.held = pf.held
  BY <1>1, RequireType DEF KillChecked, Require, NullSafe, FlipState
<1>3. r = [FreshFlip EXCEPT !.held = k.held, !.got = k.got, !.name = nm, !.pixmaps = px,
                            !.server = k.server]
  BY DEF RecreateFlip
<1>4. px = TRUE
  BY <1>2
<1> HIDE DEF nm, px, k
<1>5. r.held = pf.held /\ r.pixmaps = TRUE /\ r.server # "segfault"
  BY <1>2, <1>3, <1>4 DEF FreshFlip
<1>6. pf' = UpdateFlipPixmaps(r)
  BY DEF ResizeScreen, k
<1> HIDE DEF r
<1>7. pf' = r
  BY <1>5, <1>6 DEF UpdateFlipPixmaps
<1> QED  BY <1>5, <1>7 DEF NullSafe, Paired

(* At the start no drawable has buffers. *)
LEMMA InitNull == Init => NullSafe
BY FlipAssumption DEF Init, FreshFlip, NullSafe, Paired

(* Every step finds what it follows. *)
LEMMA NextNull ==
  ASSUME Joined, NullSafe, ~FrontOnly, ~Resize \/ KeepPixmaps, [Next]_vars
  PROVE  NullSafe'
<1>1. ASSUME pf' = pf PROVE NullSafe'
  BY <1>1 DEF NullSafe, Paired
<1>2. CASE ServerCall
  <2>1. TypeOK
    BY DEF Joined
  <2>2. ScheduleDamage => pf' = pf
    BY DEF ScheduleDamage
  <2> QED  BY <1>1, <1>2, <2>1, <2>2, SyncHandlerSame, FlipSwapReqSame, FlipHandlerSame,
              FlipDoneSame, SameNull DEF ServerCall
<1>3. CASE Client
  <2>1. ASSUME NEW d \in Drawables, NEW resized \in BOOLEAN, GetBuffers(d, resized)
        PROVE  NullSafe'
    BY <2>1, GetBuffersSafe
  <2>2. ~\E d \in Drawables, resized \in BOOLEAN : GetFrontBuffer(d, resized)
    BY DEF GetFrontBuffer
  <2>3. ASSUME NEW d \in Drawables, SwapByCopy(d) PROVE NullSafe'
    BY <2>3, EndReservationSame, SameNull DEF Joined, TypeOK, SwapByCopy
  <2>4. ASSUME NEW d \in Drawables, SwapByFlip(d) \/ DestroyDrawable(d) PROVE NullSafe'
    BY <2>4, SwapByFlipSafe, DestroyDrawableSafe
  <2>5. ASSUME NEW d \in Drawables \cup {NoDraw}, SetFullscreen(d) PROVE NullSafe'
    BY <1>1, <2>5 DEF SetFullscreen
  <2>6. ASSUME NEW a \in Areas, DrawOnScreen(a) PROVE NullSafe'
    BY <1>1, <2>6 DEF DrawOnScreen
  <2> QED  BY <1>3, <2>1, <2>2, <2>3, <2>4, <2>5, <2>6 DEF Client
<1>4. CASE Kernel
  BY <1>1, <1>4 DEF Kernel, RenderDone, VBlank, TransferDone, FlipEvent
<1>5. CASE \E o \in Overlays : CrtcDpms(o)
  BY <1>1, <1>5 DEF CrtcDpms
<1>6. CASE ResizeScreen
  <2>1. KeepPixmaps
    BY <1>6 DEF ResizeScreen
  <2> QED  BY <1>6, <2>1, ResizeScreenSafe
<1>7. CASE UNCHANGED vars
  BY <1>1, <1>7 DEF vars
<1> QED  BY <1>2, <1>3, <1>4, <1>5, <1>6, <1>7 DEF Next

(***************************************************************************)
(* No NULL pointer is followed, for every number of windows and of flip    *)
(* buffers, unless a client asks for its front buffer alone or the screen  *)
(* is resized: but for these two, whose runs show the crash, the pointers  *)
(* that migrate_from_fs and PVR2D_PostFBReset read are there.              *)
(***************************************************************************)
THEOREM NothingNullRead ==
  ~FrontOnly /\ (~Resize \/ KeepPixmaps) => (Spec => []NoNullDereference)
<1> SUFFICES ASSUME ~FrontOnly, ~Resize \/ KeepPixmaps PROVE Spec => []NoNullDereference
  OBVIOUS
<1>1. Joined /\ NullSafe /\ [Next]_vars => NullSafe'
  BY NextNull
<1>2. NullSafe => NoNullDereference
  BY DEF NullSafe, NoNullDereference
<1> QED  BY <1>1, <1>2, ClaimsInOrder, InitNull, PTL DEF Spec
=============================================================================
