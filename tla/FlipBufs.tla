------------------------------ MODULE FlipBufs ------------------------------
(***************************************************************************)
(* Which memory a DRI2 buffer names: struct pvr2d_page_flip and the DRI2   *)
(* driver hooks of sgx_dri2.c that hand its buffers to one fullscreen      *)
(* drawable at a time, as operators from state to state.                   *)
(*                                                                         *)
(* A state is a record:                                                    *)
(*   front, back        front_idx and back_idx                             *)
(*   owner              user_priv of the page flip structure               *)
(*   busy, reserved     the flip buffers with that flag set                *)
(*   user               bufs[i].user_priv: the DRI2 buffer shown there     *)
(*   completes, flips   the two sanity counters                            *)
(*   held               the DRI2 buffers that exist                        *)
(*   name               what the client was told to render to              *)
(*   got                the back buffers with pvr2d_buf_priv.reserved set  *)
(*   pixmaps            do bufs[i].pixmap point to pixmaps?                *)
(*   server             "up", or how the process died                      *)
(* A DRI2 buffer is <<drawable, attachment, generation>>: while a resized  *)
(* window's buffers are replaced, both generations exist.                  *)
(***************************************************************************)
EXTENDS Integers, FiniteSets

CONSTANTS
  Drawables,   \* the windows DRI2 clients render to
  NumBufs,     \* conf.page_flip_bufs
  NoDraw,      \* page_flip->user_priv == 0
  NoBuffer,    \* a DRI2BufferPtr that is NULL
  Private,     \* a name outside the flip chain: the SHM id of a pixmap
  Gone         \* the handle of a flip buffer that a framebuffer reset freed

ASSUME FlipAssumption ==
  /\ NumBufs \in Nat \ {0}
  /\ NoDraw \notin Drawables
  /\ Private \notin Int /\ Gone \notin Int /\ Private # Gone
  /\ NoBuffer \notin Drawables \X {"front", "back"} \X {0, 1}

Buf == 0 .. NumBufs - 1
Attachment == {"front", "back"}
DRI2Buffer == Drawables \X Attachment \X {0, 1}
Status == {"up", "aborted", "segfault"}

FlipState ==
  [front : Buf, back : Buf, owner : Drawables \cup {NoDraw},
   busy : SUBSET Buf, reserved : SUBSET Buf,
   user : [Buf -> DRI2Buffer \cup {NoBuffer}],
   completes : Int, flips : Int,
   held : SUBSET DRI2Buffer,
   name : [DRI2Buffer -> Buf \cup {Private, Gone}],
   got : SUBSET DRI2Buffer,
   pixmaps : BOOLEAN,
   server : Status]

(* The ring of buffers does not close. *)
NextBufUnwrapped(i) == i + 1

NextBuf(i) == (i + 1) % NumBufs

(***************************************************************************)
(* pvr2d_page_flip_create, then PVR2DCreateScreenResources, with no DRI2   *)
(* buffer in existence.                                                    *)
(***************************************************************************)
FreshFlip ==
  [front |-> 0, back |-> NextBuf(0), owner |-> NoDraw,
   busy |-> {0}, reserved |-> {},
   user |-> [i \in Buf |-> NoBuffer],
   completes |-> 0, flips |-> 0,
   held |-> {}, name |-> [b \in DRI2Buffer |-> Private], got |-> {},
   pixmaps |-> TRUE, server |-> "up"]

(* assert() of the code: a false condition ends the process. *)
Require(s, cond) ==
  IF s.server = "up" /\ ~cond THEN [s EXCEPT !.server = "aborted"] ELSE s

IdxOf(s, att) == IF att = "front" THEN s.front ELSE s.back

GetNonSysBuf(s, b) == [s EXCEPT !.name[b] = Private]

GetSysBuf(s, b) ==
  LET i == IdxOf(s, b[2])
  IN  [s EXCEPT !.name[b] = i, !.user[i] = b]

IsFs(s, b) == s.user[IdxOf(s, b[2])] = b

-----------------------------------------------------------------------------
PageFlipPossible(s, draw, fs) ==
  /\ fs = draw
  /\ NumBufs >= 2
  /\ s.back \notin s.busy
  /\ s.owner = draw \/ s.back \notin s.reserved

(* The owner's back buffer keeps naming the flip buffer. *)
MigrateKeepingName(s) ==
  LET f == s.user[s.front]
      b == s.user[s.back]
  IN  IF NoBuffer \in {f, b} THEN [s EXCEPT !.server = "segfault"]
      ELSE [s EXCEPT !.name[f] = Private,
                     !.reserved = @ \ {s.back},
                     !.user = [@ EXCEPT ![s.front] = NoBuffer, ![s.back] = NoBuffer],
                     !.owner = NoDraw]

(***************************************************************************)
(* pvr2d_dri2_migrate_from_fs: both buffers of the owner get private       *)
(* pixmaps.  The contents that are copied are not modelled, nor a failed   *)
(* allocation (the callers end the process with FatalError).               *)
(***************************************************************************)
MigrateFromFs(s) ==
  LET f == s.user[s.front]
      b == s.user[s.back]
  IN  IF NoBuffer \in {f, b} THEN [s EXCEPT !.server = "segfault"]
      ELSE [Require(s, f[2] = "front" /\ b[2] = "back" /\ s.front \notin s.reserved)
              EXCEPT !.name = [@ EXCEPT ![b] = Private, ![f] = Private],
                     !.reserved = @ \ {s.back},
                     !.user = [@ EXCEPT ![s.front] = NoBuffer, ![s.back] = NoBuffer],
                     !.owner = NoDraw]

(* draw becomes the owner; another owner is migrated out first. *)
TakeOver(s, draw) ==
  [(IF s.owner \in {NoDraw, draw} THEN s ELSE MigrateFromFs(s))
     EXCEPT !.owner = draw]

Reserve(s, b) ==
  IF b[2] = "back" THEN [s EXCEPT !.reserved = @ \cup {s.back}] ELSE s

(* priv->reserved, set whenever a client is handed a back buffer. *)
HandOut(s, b) == IF b[2] = "back" THEN [s EXCEPT !.got = @ \cup {b}] ELSE s

CreateBuf(s, b, fs) ==
  LET n == [s EXCEPT !.held = @ \cup {b}, !.got = @ \ {b}]
  IN  HandOut(IF PageFlipPossible(n, b[1], fs)
                THEN Reserve(GetSysBuf(TakeOver(n, b[1]), b), b)
                ELSE GetNonSysBuf(n, b),
              b)

(* The owner stays in the flip chain although it is not fullscreen. *)
NeverLeave(s, b, fs) == s

(* pvr2d_dri2_reuse_buf: "Migrate itself out of fullscreen?" *)
LeaveIfNotCapable(s, b, fs) ==
  IF s.owner = b[1] /\ (fs # b[1] \/ NumBufs < 2)
    THEN MigrateFromFs(Require(s, IsFs(s, b)))
    ELSE s

ReuseBuf(s, b, fs) ==
  LET m == LeaveIfNotCapable(s, b, fs)
      t == TakeOver(m, b[1])
  IN  HandOut(IF PageFlipPossible(m, b[1], fs)
                THEN Reserve(IF IsFs(t, b) THEN t ELSE GetSysBuf(t, b), b)
                ELSE m,
              b)

(* A destroyed buffer leaves its reservation behind. *)
DestroyKeepingReserved(s, b) ==
  LET at  == {i \in {s.front, s.back} : s.owner = b[1] /\ s.user[i] = b}
      usr == [i \in Buf |-> IF i \in at THEN NoBuffer ELSE s.user[i]]
  IN  [s EXCEPT
         !.user = usr,
         !.owner = IF at # {} /\ usr[s.front] = NoBuffer /\ usr[s.back] = NoBuffer
                     THEN NoDraw ELSE @,
         !.held = @ \ {b}, !.got = @ \ {b}, !.name[b] = Private]

(* A drawable without buffers still owns the chain. *)
DestroyKeepingOwner(s, b) ==
  LET at == {i \in {s.front, s.back} : s.owner = b[1] /\ s.user[i] = b}
  IN  [s EXCEPT
         !.user = [i \in Buf |-> IF i \in at THEN NoBuffer ELSE @[i]],
         !.reserved = IF s.back \in at THEN @ \ {s.back} ELSE @,
         !.held = @ \ {b}, !.got = @ \ {b}, !.name[b] = Private]

(***************************************************************************)
(* pvr2d_dri2_destroy_buf: a flip buffer shown as b is given up, and the   *)
(* chain is without an owner once both are.                                *)
(***************************************************************************)
DestroyBuf(s, b) ==
  LET at  == {i \in {s.front, s.back} : s.owner = b[1] /\ s.user[i] = b}
      usr == [i \in Buf |-> IF i \in at THEN NoBuffer ELSE s.user[i]]
  IN  [Require(s, s.front \in at => s.front \notin s.reserved) EXCEPT
         !.user = usr,
         !.reserved = IF s.back \in at THEN @ \ {s.back} ELSE @,
         !.owner = IF at # {} /\ usr[s.front] = NoBuffer /\ usr[s.back] = NoBuffer
                     THEN NoDraw ELSE @,
         !.held = @ \ {b}, !.got = @ \ {b}, !.name[b] = Private]

(* The client is not told that front and back changed places. *)
ExchangeKeepingNames(s, f, b) ==
  LET nf == s.back
      nb == NextBuf(s.back)
  IN  [s EXCEPT !.front = nf, !.back = nb,
                !.user = [i \in Buf |-> IF i = nb THEN b ELSE IF i = nf THEN f
                                        ELSE IF i = s.front THEN NoBuffer ELSE @[i]]]

(***************************************************************************)
(* pvr2d_dri2_exchange_bufs: the back buffer just submitted is the new     *)
(* front, the next one of the ring the new back, and the client's names    *)
(* follow.                                                                 *)
(***************************************************************************)
ExchangeBufs(s, f, b) ==
  LET nf == s.back
      nb == NextBuf(s.back)
  IN  [Require(s, s.name[f] = s.front /\ s.name[b] = s.back) EXCEPT
         !.front = nf, !.back = nb,
         !.name = [@ EXCEPT ![f] = nf, ![b] = nb],
         !.user = [i \in Buf |-> IF i = nb THEN b ELSE IF i = nf THEN f
                                 ELSE IF i = s.front THEN NoBuffer ELSE @[i]]]

(***************************************************************************)
(* pvr2d_dri2_schedule_swap up to pvr2d_dri2_sync_req: a drawable still on *)
(* private buffers moves into the chain, and the reservation ends.         *)
(***************************************************************************)
PrepareFlip(s, draw, f, b) ==
  LET a == Require(s, s.owner \in {NoDraw, draw} \/ s.back \notin s.reserved)
      t == TakeOver(a, draw)
      m == IF s.owner = draw THEN s
           ELSE Reserve(GetSysBuf(GetSysBuf(t, f), b), b)
  IN  [Require(m, b \in m.got /\ m.front \notin m.reserved /\ m.back \in m.reserved)
         EXCEPT !.got = @ \ {b}, !.reserved = @ \ {m.back}]

(* pvr2d_dri2_no_swap: the copy to the front buffer consumes the reservation. *)
EndReservation(s, draw, b) ==
  LET a == IF s.owner = draw
             THEN [Require(s, s.front \notin s.reserved /\ s.back \in s.reserved)
                     EXCEPT !.reserved = @ \ {s.back}]
             ELSE s
  IN  [Require(a, b \in a.got) EXCEPT !.got = @ \ {b}]

-----------------------------------------------------------------------------
(***************************************************************************)
(* The flip buffers and the DRI2 buffers agree: what bufs[i] shows exists, *)
(* belongs to the owner and names i, and what names a flip buffer is shown *)
(* there.  The buffers in old are being replaced and may still name one.   *)
(***************************************************************************)
Agrees(s, old) ==
  /\ IF NumBufs >= 2 THEN s.front # s.back ELSE \A i \in Buf : s.user[i] = NoBuffer
  /\ \A i \in Buf : s.user[i] # NoBuffer =>
       /\ s.user[i] \in s.held /\ s.user[i][1] = s.owner
       /\ IdxOf(s, s.user[i][2]) = i /\ s.name[s.user[i]] = i
  /\ \A b \in s.held \ old : s.name[b] \in Buf => s.user[s.name[b]] = b
  /\ s.got \subseteq s.held
=============================================================================
