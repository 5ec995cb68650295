------------------------------ MODULE SwapQueue ------------------------------
(***************************************************************************)
(* The queue of in-flight swap requests of sgx_dri2.c: DRI2 clients submit *)
(* frames, the GPU renders them, the display controller flips to them, and *)
(* manual-update displays are sent the damage.                             *)
(*                                                                         *)
(* The X server is one thread.  A request or an event is an action that is *)
(* taken with an empty call stack; where the code calls a handler from a   *)
(* handler (sync_handler -> flip_swap_req -> flip_handler -> ...), the     *)
(* action leaves the call on the variable stack and only the top of that   *)
(* stack may step, so that no other event comes between.                   *)
(***************************************************************************)
EXTENDS FlipBufs, Sequences

CONSTANTS
  Overlays,        \* the overlays that CRTCs use
  Manual,          \* those on an output that is updated by command
  Areas,           \* parts of the screen that are damaged separately
  VSync,           \* conf.vsync
  RenderSync,      \* conf.render_sync
  MaxReqs,         \* bound: swap requests allocated at a time
  FrontOnly,       \* may a client ask for its front buffer alone?
  Dpms,            \* may DPMS switch overlays?
  EventsFail,      \* may a PVR2D event request fail?
  Resize,          \* may the screen be resized?
  KeepPixmaps      \* what if pvr2d_page_flip_destroy kept bufs[i].pixmap?

ASSUME SwapAssumption ==
  /\ Manual \subseteq Overlays
  /\ IsFiniteSet(Overlays)
  /\ MaxReqs \in Nat \ {0}
  /\ {VSync, RenderSync, FrontOnly, Dpms, EventsFail, Resize, KeepPixmaps}
       \subseteq BOOLEAN

VARIABLES
  pf,        \* the flip buffers and the DRI2 buffers (FlipBufs)
  fs,        \* the drawable DRI2CanFlip() is true of
  alive,     \* the drawables that exist
  pending,   \* swapsPending of each drawable in the DRI2 module
  reqs,      \* the swap requests, by address
  queue,     \* swap_reqs_head -> ... -> swap_reqs_tail
  syncEv,    \* requests whose render-complete event is outstanding
  flipEv,    \* for each request, the overlays whose event is outstanding
  on,        \* the enabled overlays
  pan,       \* the buffer each overlay is programmed to show
  scan,      \* the buffer each overlay's hardware is reading
  stale,     \* the areas drawn but not yet sent to a manual-update display
  stack      \* the pending calls of the handler that runs, innermost first

vars == <<pf, fs, alive, pending, reqs, queue, syncEv, flipEv, on, pan, scan,
          stale, stack>>

SWAP_INVALID_IDX == -1
NoScan == -1
ReqIds == 1 .. MaxReqs
ExtFB == Manual # {}      \* fbdev->extfb.enabled

SwapRequest ==
  [used : BOOLEAN,     \* allocated and not freed
   type : {"flip", "extfb"}, draw : Drawables \cup {NoDraw},
   front : Buf \cup {SWAP_INVALID_IDX}, back : Buf \cup {SWAP_INVALID_IDX},
   update : Buf \cup {SWAP_INVALID_IDX}, region : SUBSET Areas, num : Int,
   rendered : BOOLEAN, issued : BOOLEAN, flipped : BOOLEAN,
   completed : BOOLEAN, dead : BOOLEAN]

Frame ==
  [call : {"sync_handler", "flip_swap_req", "flip_handler", "flip_done"},
   id : ReqIds, region : {{}}]
  \cup [call : {"schedule_damage"}, id : {0}, region : SUBSET Areas]

(***************************************************************************)
(* Every index that the handlers compute stays in the ring of buffers, and *)
(* every request, event and pending call keeps its form.                   *)
(***************************************************************************)
TypeOK ==
  /\ pf \in FlipState
  /\ fs \in Drawables \cup {NoDraw}
  /\ alive \in SUBSET Drawables
  /\ pending \in [Drawables -> Int]
  /\ reqs \in [ReqIds -> SwapRequest]
  /\ queue \in Seq(ReqIds)
  /\ syncEv \in SUBSET ReqIds
  /\ flipEv \in [ReqIds -> SUBSET Overlays]
  /\ on \in SUBSET Overlays
  /\ pan \in [Overlays -> Buf]
  /\ scan \in [Overlays -> Buf \cup {NoScan}]
  /\ stale \in SUBSET Areas
  /\ stack \in Seq(Frame)

FreeRequest ==
  [used |-> FALSE, type |-> "extfb", draw |-> NoDraw,
   front |-> SWAP_INVALID_IDX, back |-> SWAP_INVALID_IDX,
   update |-> SWAP_INVALID_IDX, region |-> {}, num |-> 0,
   rendered |-> FALSE, issued |-> FALSE, flipped |-> FALSE,
   completed |-> FALSE, dead |-> FALSE]

Init ==
  /\ pf = FreshFlip
  /\ fs \in Drawables \cup {NoDraw}
  /\ alive = Drawables
  /\ pending = [d \in Drawables |-> 0]
  /\ reqs = [id \in ReqIds |-> FreeRequest]
  /\ queue = <<>>
  /\ syncEv = {}
  /\ flipEv = [id \in ReqIds |-> {}]
  /\ on = Overlays
  /\ pan = [o \in Overlays |-> 0]
  /\ scan = [o \in Overlays |-> IF o \in Manual THEN NoScan ELSE 0]
  /\ stale = {}
  /\ stack = <<>>

-----------------------------------------------------------------------------
Up == pf.server = "up"
Idle == Up /\ stack = <<>>
Call(f, id) == [call |-> f, id |-> id, region |-> {}]
Damage(region) == [call |-> "schedule_damage", id |-> 0, region |-> region]
Running(call) == Up /\ stack # <<>> /\ Head(stack).call = call

Used == {id \in ReqIds : reqs[id].used}

(* calloc: a freed address is handed out again as soon as possible. *)
Free == ReqIds \ Used
NewId == CHOOSE id \in Free : TRUE
Room == Cardinality(Free) >= 2   \* bound: a flip and the damage it causes
WithReq(id, r) == [reqs EXCEPT ![id] = r]
WithoutReq(id) == [reqs EXCEPT ![id] = FreeRequest]

(* swap_req_dequeue *)
Unlink(q, id) ==
  LET at == {i \in DOMAIN q : q[i] = id}
      i  == CHOOSE i \in at : TRUE
  IN  IF at = {} THEN q ELSE SubSeq(q, 1, i - 1) \o SubSeq(q, i + 1, Len(q))

SameClass(r, s) == (r.update = SWAP_INVALID_IDX) = (s.update = SWAP_INVALID_IDX)

FirstIn(q, S) ==   \* the first element of q in S, 0 if there is none
  LET first == {i \in DOMAIN q : q[i] \in S /\ \A j \in 1 .. i - 1 : q[j] \notin S}
  IN  IF first = {} THEN 0 ELSE q[CHOOSE i \in first : TRUE]

(* The first request that is ready overtakes those before it. *)
NextFlipOutOfOrder(rs, q, r) ==
  FirstIn(q, {i \in ReqIds : SameClass(r, rs[i]) /\ rs[i].rendered})

(* swap_reqs_find_next_flip, given the requests, the queue and one request. *)
FindNextFlip(rs, q, r) ==
  LET first == FirstIn(q, {i \in ReqIds : SameClass(r, rs[i])})
  IN  IF first # 0 /\ rs[first].rendered THEN first ELSE 0

FindByUpdate(idx) == FirstIn(queue, {i \in Used : reqs[i].update = idx})

FindFirstPendingFlip(rs, q) ==
  FirstIn(q, {i \in ReqIds : rs[i].type = "flip" /\ ~rs[i].completed})

(* DRI2SwapComplete, if dixLookupDrawable still finds the drawable. *)
SwapComplete(draws) ==
  pending' = [d \in Drawables |->
                IF d \in alive \cap draws THEN pending[d] - 1 ELSE pending[d]]

-----------------------------------------------------------------------------
(***************************************************************************)
(* The DRI2 module of the X server, which calls the hooks.                 *)
(***************************************************************************)
BufferOf(s, draw, att) ==
  IF <<draw, att, 0>> \in s.held THEN <<draw, att, 0>> ELSE NoBuffer

Provide(s, draw, att, resized) ==
  LET old == BufferOf(pf, draw, att)
  IN  IF old = NoBuffer THEN CreateBuf(s, <<draw, att, 0>>, fs)
      ELSE IF resized THEN CreateBuf(s, <<draw, att, 1>>, fs)
      ELSE ReuseBuf(s, old, fs)

DropBuf(s, b) == IF b \in s.held THEN DestroyBuf(s, b) ELSE s

(* Once the old buffers are gone the new ones take their place. *)
Settle(s, draw) ==
  LET Now(b) == IF b # NoBuffer /\ b[1] = draw THEN <<draw, b[2], 0>> ELSE b
      new    == {b \in s.held : b[1] = draw /\ b[3] = 1}
  IN  [s EXCEPT !.user = [i \in Buf |-> Now(@[i])],
                !.held = {Now(b) : b \in @}, !.got = {Now(b) : b \in @},
                !.name = [b \in DRI2Buffer |->
                            IF b \in new THEN Private
                            ELSE IF <<b[1], b[2], 1>> \in new THEN @[<<b[1], b[2], 1>>]
                            ELSE @[b]]]

(* The buffers the request did not keep are destroyed, back buffer first. *)
DropOld(s, draw, keepBack, resized) ==
  LET b == BufferOf(pf, draw, "back")
      f == BufferOf(pf, draw, "front")
      t == IF resized \/ ~keepBack THEN DropBuf(s, b) ELSE s
  IN  IF resized THEN DropBuf(t, f) ELSE t

(* A client waits in the DRI2 module while a swap of its drawable is pending. *)
Throttled(draw) == pending[draw] > 0

GetBuffers(draw, resized) ==
  /\ Idle
  /\ draw \in alive
  /\ ~Throttled(draw)
  /\ LET new == Provide(Provide(pf, draw, "back", resized), draw, "front", resized)
     IN  pf' = Settle(DropOld(new, draw, TRUE, resized), draw)
  /\ UNCHANGED <<fs, alive, pending, reqs, queue, syncEv, flipEv, on, pan, scan,
                 stale, stack>>

GetFrontBuffer(draw, resized) ==
  /\ FrontOnly
  /\ Idle
  /\ draw \in alive
  /\ ~Throttled(draw)
  /\ LET new == Provide(pf, draw, "front", resized)
     IN  pf' = Settle(DropOld(new, draw, FALSE, resized), draw)
  /\ UNCHANGED <<fs, alive, pending, reqs, queue, syncEv, flipEv, on, pan, scan,
                 stale, stack>>

(* A window becomes, or stops being, the one that covers the screen. *)
SetFullscreen(draw) ==
  /\ Idle
  /\ draw \in alive \cup {NoDraw}
  /\ draw # fs
  /\ fs' = draw
  /\ UNCHANGED <<pf, alive, pending, reqs, queue, syncEv, flipEv, on, pan, scan,
                 stale, stack>>

DestroyDrawable(draw) ==
  /\ Idle
  /\ draw \in alive
  /\ alive' = alive \ {draw}
  /\ pf' = DropBuf(DropBuf(pf, BufferOf(pf, draw, "back")), BufferOf(pf, draw, "front"))
  /\ fs' = IF fs = draw THEN NoDraw ELSE fs
  /\ pending' = [pending EXCEPT ![draw] = 0]
  /\ UNCHANGED <<reqs, queue, syncEv, flipEv, on, pan, scan, stale, stack>>

Swappable(draw) ==
  /\ Idle
  /\ draw \in alive
  /\ ~Throttled(draw)
  /\ {BufferOf(pf, draw, "front"), BufferOf(pf, draw, "back")} \subseteq pf.held
  /\ BufferOf(pf, draw, "back") \in pf.got    \* else "SwapBuffers without GetBuffers"

(***************************************************************************)
(* pvr2d_dri2_schedule_swap without flipping: the back buffer is copied to *)
(* the front, which damages the screen.                                    *)
(***************************************************************************)
SwapByCopy(draw) ==
  /\ Swappable(draw)
  /\ ~PageFlipPossible(pf, draw, fs)
  /\ Room
  /\ pf' = EndReservation(pf, draw, BufferOf(pf, draw, "back"))
  /\ stale' = IF ExtFB THEN Areas ELSE stale
  /\ stack' = IF ExtFB THEN <<Damage(Areas)>> ELSE <<>>
  /\ UNCHANGED <<fs, alive, pending, reqs, queue, syncEv, flipEv, on, pan, scan>>

(* A request starts with the flag that only its render event should set. *)
NewFlipRendered(draw) ==
  [FreeRequest EXCEPT !.used = TRUE, !.type = "flip", !.draw = draw, !.front = pf.front,
     !.back = pf.back, !.rendered = TRUE,
     !.update = IF VSync THEN pf.back ELSE SWAP_INVALID_IDX]

NewFlip(draw) ==
  [used |-> TRUE, type |-> "flip", draw |-> draw, front |-> pf.front, back |-> pf.back,
   update |-> IF VSync THEN pf.back ELSE SWAP_INVALID_IDX,
   region |-> {}, num |-> 0, rendered |-> FALSE, issued |-> FALSE,
   flipped |-> FALSE, completed |-> FALSE, dead |-> FALSE]

(* The client may go on although the next back buffer is still shown. *)
CompleteAlways(s) == TRUE

(* Is the next back buffer free, so that the client need not wait for it? *)
CompleteAtOnce(s) == s.back \notin s.busy

(* pvr2d_dri2_sync_req: the buffer states. *)
Submit(s, f, b) ==
  ExchangeBufs([Require(s, s.name[f] = s.front /\ s.name[b] = s.back
                            /\ s.back \notin s.busy)
                  EXCEPT !.busy = @ \cup {s.back}, !.completes = @ + 1],
               f, b)

(***************************************************************************)
(* pvr2d_dri2_schedule_swap with a flip, and pvr2d_dri2_sync_req.  The     *)
(* GPU still renders the frame: either its completion event is requested,  *)
(* or sync_handler runs at once.                                           *)
(***************************************************************************)
SwapByFlip(draw) ==
  /\ Swappable(draw)
  /\ PageFlipPossible(pf, draw, fs)
  /\ Room
  /\ LET f    == BufferOf(pf, draw, "front")
         b    == BufferOf(pf, draw, "back")
         sub  == Submit(PrepareFlip(pf, draw, f, b), f, b)
         now  == CompleteAtOnce(sub)
         done == IF now THEN [sub EXCEPT !.completes = @ - 1] ELSE sub
     IN  /\ pf' = Require(done, done.completes < 2)
         /\ pending' = [pending EXCEPT ![draw] = IF now THEN @ ELSE @ + 1]
         /\ reqs' = WithReq(NewId, [NewFlip(draw) EXCEPT !.completed = now])
  /\ queue' = Append(queue, NewId)
  /\ \/ /\ RenderSync
        /\ syncEv' = syncEv \cup {NewId}
        /\ stack' = <<>>
     \/ /\ ~RenderSync \/ EventsFail
        /\ syncEv' = syncEv
        /\ stack' = <<Call("sync_handler", NewId)>>
  /\ UNCHANGED <<fs, alive, flipEv, on, pan, scan, stale>>

(* A client or the server draws on the screen pixmap: DamageExtFBReport. *)
DrawOnScreen(area) ==
  /\ ExtFB
  /\ Idle
  /\ Room
  /\ stale' = stale \cup {area}
  /\ stack' = <<Damage({area})>>
  /\ UNCHANGED <<pf, fs, alive, pending, reqs, queue, syncEv, flipEv, on, pan, scan>>

-----------------------------------------------------------------------------
(* Rendering that was not waited for counts as finished only by its event. *)
SyncHandler ==
  /\ Running("sync_handler")
  /\ LET id == Head(stack).id
         r  == reqs[id]
         rs == WithReq(id, [r EXCEPT !.rendered = TRUE])
     IN  /\ pf' = Require(pf, ~r.rendered /\ ~r.issued /\ ~r.flipped)
         /\ reqs' = IF r.dead THEN WithoutReq(id) ELSE rs
         /\ stack' = IF ~r.dead /\ FindNextFlip(rs, queue, r) = id
                       THEN <<Call("flip_swap_req", id)>> \o Tail(stack)
                       ELSE Tail(stack)
  /\ UNCHANGED <<fs, alive, pending, queue, syncEv, flipEv, on, pan, scan, stale>>

(* The overlays whose event tells that the request is on the screen. *)
Awaited(r) ==
  IF r.update = SWAP_INVALID_IDX THEN {}
  ELSE {o \in on : o \in Manual \/ r.back # SWAP_INVALID_IDX}

(* flip_swap_req: the assertions, and flips_pending. *)
IssueFlip(s, id) ==
  LET r      == reqs[id]
      counts == r.update # SWAP_INVALID_IDX
      a      == Require(s, /\ FindNextFlip(reqs, queue, r) = id
                           /\ r.rendered /\ ~r.flipped /\ ~r.issued
                           /\ counts => s.flips = 0)
  IN  IF counts THEN [a EXCEPT !.flips = @ + 1] ELSE a

(* fbdev_flip_crtcs: CRTCs that DPMS switched off are left alone. *)
FlipCrtcs(idx) == [o \in Overlays |-> IF o \in on THEN idx ELSE pan[o]]

(***************************************************************************)
(* flip_swap_req: program the CRTCs, and ask for the events.  With no      *)
(* event to wait for the request is handled as flipped at once.            *)
(***************************************************************************)
FlipSwapReq ==
  /\ Running("flip_swap_req")
  /\ LET id     == Head(stack).id
         r      == reqs[id]
         pans   == r.back # SWAP_INVALID_IDX
     IN  /\ pf' = IssueFlip(pf, id)
         /\ pan' = IF pans THEN FlipCrtcs(r.back) ELSE pan
         /\ stale' = IF pans /\ ExtFB THEN Areas ELSE stale
         /\ \E got \in SUBSET Awaited(r) :
              /\ EventsFail \/ got = Awaited(r)
              /\ flipEv' = [flipEv EXCEPT ![id] = got]
              /\ reqs' = WithReq(id, [r EXCEPT !.issued = TRUE,
                            !.num = IF got = {} THEN 1 ELSE Cardinality(got)])
              /\ stack' = IF got = {} THEN <<Call("flip_handler", id)>> \o Tail(stack)
                          ELSE Tail(stack)
  /\ UNCHANGED <<fs, alive, pending, queue, syncEv, on, scan>>

(* The first overlay's event already counts as the flip. *)
LastEventAny(r) == TRUE

(* One event too many is waited for. *)
LastEventLate(r) == r.num < 1

(* "Wait until all CRTCs have flipped" *)
LastEvent(r) == r.num <= 1

(* fbdev_update_outputs: transfer what the manual-update overlays show. *)
UpdateOutputs == [o \in Overlays |-> IF o \in Manual \cap on THEN pan[o] ELSE scan[o]]

(* The buffer that was shown before is not released. *)
ReleaseNothing(s, r) == s

ReleaseFront(s, r) ==
  IF r.front = SWAP_INVALID_IDX THEN s ELSE [s EXCEPT !.busy = @ \ {r.front}]

(* A flip without vsync damages nothing. *)
NoFlipDamage(r) == FALSE

(***************************************************************************)
(* pvr2d_dri2_issue_flip without vsync: the flipped window is damage for   *)
(* the manual-update displays, if the window still exists.                 *)
(***************************************************************************)
FlipDamages(r) ==
  r.type = "flip" /\ r.update = SWAP_INVALID_IDX /\ r.draw \in alive /\ ExtFB

(* pvr2d_dri2_flip_handler: the assertions, for a live request. *)
FlipChecked(s, id) ==
  LET r == reqs[id]
  IN  Require(s, /\ r.rendered /\ ~r.flipped /\ r.issued
                 /\ ~r.dead =>
                      /\ FindNextFlip(reqs, queue, r) = id
                      /\ {r.front, r.back} \subseteq s.busy \cup {SWAP_INVALID_IDX}
                      /\ r.update # SWAP_INVALID_IDX => s.flips = 1)

(* pvr2d_dri2_flip_handler up to and with pvr2d_dri2_issue_flip. *)
FlipHandler ==
  /\ Running("flip_handler")
  /\ LET id   == Head(stack).id
         r    == reqs[id]
         upd  == r.update # SWAP_INVALID_IDX
         a    == FlipChecked(pf, id)
         free == ReleaseFront(a, r)
     IN  \/ /\ ~LastEvent(r)
            /\ reqs' = WithReq(id, [r EXCEPT !.num = @ - 1])
            /\ stack' = Tail(stack)
            /\ UNCHANGED <<pf, scan, stale>>
         \/ /\ LastEvent(r) /\ r.dead
            /\ pf' = a
            /\ reqs' = WithoutReq(id)
            /\ stack' = Tail(stack)
            /\ UNCHANGED <<scan, stale>>
         \/ /\ LastEvent(r) /\ ~r.dead
            /\ pf' = IF upd THEN [free EXCEPT !.flips = @ - 1] ELSE free
            /\ reqs' = WithReq(id, [r EXCEPT !.num = 0, !.flipped = TRUE])
            /\ scan' = IF upd THEN UpdateOutputs ELSE scan
            /\ stale' = IF ~upd THEN stale
                        ELSE IF r.type = "extfb" THEN stale \ r.region ELSE {}
            /\ stack' = (IF FlipDamages(r) THEN <<Damage(Areas)>> ELSE <<>>)
                        \o <<Call("flip_done", id)>> \o Tail(stack)
  /\ UNCHANGED <<fs, alive, pending, queue, syncEv, flipEv, on, pan>>

(* A flip lets no client go on. *)
CompletesNone(r) == FALSE

(* Every flip, but no damage update, completes the pending swap. *)
CompletesPending(r) == r.back # SWAP_INVALID_IDX

(* The rest of pvr2d_dri2_flip_handler. *)
FlipDone ==
  /\ Running("flip_done")
  /\ LET id   == Head(stack).id
         r    == reqs[id]
         c    == IF CompletesPending(r) THEN FindFirstPendingFlip(reqs, queue) ELSE 0
         rs   == [i \in ReqIds |->
                    IF i = id THEN FreeRequest
                    ELSE IF i = c THEN [reqs[i] EXCEPT !.completed = TRUE] ELSE reqs[i]]
         q    == Unlink(queue, id)
         next == FindNextFlip(rs, q, r)
         a    == Require(pf, /\ id \in {queue[i] : i \in DOMAIN queue}
                             /\ c # 0 => reqs[c].back = pf.front /\ ~reqs[c].dead)
     IN  /\ pf' = IF c = 0 THEN a ELSE [a EXCEPT !.completes = @ - 1]
         /\ SwapComplete(IF c = 0 THEN {} ELSE {reqs[c].draw})
         /\ queue' = q
         /\ reqs' = rs
         /\ stack' = IF next = 0 THEN Tail(stack)
                     ELSE <<Call("flip_swap_req", next)>> \o Tail(stack)
  /\ UNCHANGED <<fs, alive, syncEv, flipEv, on, pan, scan, stale>>

NewUpdate(region) ==
  [used |-> TRUE, type |-> "extfb", draw |-> NoDraw, front |-> SWAP_INVALID_IDX,
   back |-> SWAP_INVALID_IDX, update |-> pf.front, region |-> region, num |-> 0,
   rendered |-> TRUE, issued |-> FALSE, flipped |-> FALSE, completed |-> TRUE,
   dead |-> FALSE]

(* Damage is never merged. *)
MergeNever(region) == 0

(* "check if there is update scheduled already" *)
MergeInto(region) == FindByUpdate(pf.front)

(* pvr2d_dri2_schedule_damage *)
ScheduleDamage ==
  /\ Running("schedule_damage")
  /\ LET region == Head(stack).region
         id     == MergeInto(region)
         new    == NewId
         rs     == WithReq(new, NewUpdate(region))
         q      == Append(queue, new)
     IN  \/ /\ id # 0
            /\ reqs' = WithReq(id, [reqs[id] EXCEPT !.region = @ \cup region])
            /\ queue' = queue
            /\ stack' = Tail(stack)
         \/ /\ id = 0 /\ Free # {}
            /\ reqs' = rs
            /\ queue' = q
            /\ stack' = IF FindNextFlip(rs, q, rs[new]) = new
                          THEN <<Call("flip_swap_req", new)>> \o Tail(stack)
                          ELSE Tail(stack)
  /\ UNCHANGED <<pf, fs, alive, pending, syncEv, flipEv, on, pan, scan, stale>>

-----------------------------------------------------------------------------
(***************************************************************************)
(* The kernel: render-complete, flip and update events, and what the       *)
(* display hardware reads.  An overlay latches the programmed buffer at    *)
(* the next vertical blank; a manual-update one reads it only during a     *)
(* transfer.  An inactive overlay gets its event immediately.              *)
(***************************************************************************)
RenderDone(id) ==
  /\ Idle
  /\ id \in syncEv
  /\ syncEv' = syncEv \ {id}
  /\ stack' = <<Call("sync_handler", id)>>
  /\ UNCHANGED <<pf, fs, alive, pending, reqs, queue, flipEv, on, pan, scan, stale>>

VBlank(o) ==
  /\ Idle
  /\ o \in on \ Manual
  /\ scan[o] # pan[o]
  /\ scan' = [scan EXCEPT ![o] = pan[o]]
  /\ UNCHANGED <<pf, fs, alive, pending, reqs, queue, syncEv, flipEv, on, pan,
                 stale, stack>>

TransferDone(o) ==
  /\ Idle
  /\ o \in Manual
  /\ scan[o] # NoScan
  /\ scan' = [scan EXCEPT ![o] = NoScan]
  /\ UNCHANGED <<pf, fs, alive, pending, reqs, queue, syncEv, flipEv, on, pan,
                 stale, stack>>

FlipEvent(o, id) ==
  /\ Idle
  /\ o \in flipEv[id]
  /\ \/ o \notin on
     \/ scan[o] = IF o \in Manual THEN NoScan ELSE pan[o]
  /\ flipEv' = [flipEv EXCEPT ![id] = @ \ {o}]
  /\ stack' = <<Call("flip_handler", id)>>
  /\ UNCHANGED <<pf, fs, alive, pending, reqs, queue, syncEv, on, pan, scan, stale>>

(***************************************************************************)
(* crtc_dpms: the overlay is switched, and keeps the buffer that it was    *)
(* last programmed with.                                                   *)
(***************************************************************************)
CrtcDpms(o) ==
  /\ Dpms
  /\ Idle
  /\ on' = IF o \in on THEN on \ {o} ELSE on \cup {o}
  /\ scan' = [scan EXCEPT ![o] = IF o \in on \cup Manual THEN NoScan ELSE pan[o]]
  /\ UNCHANGED <<pf, fs, alive, pending, reqs, queue, syncEv, flipEv, pan, stale,
                 stack>>

(* Requests that events still refer to are freed as well. *)
FreedAll == Used

(* The clients of the killed requests are forgotten. *)
KilledNone == {}

Uncompleted == {id \in Used : ~reqs[id].dead /\ ~reqs[id].completed}

(* The drawables whose pending swap kill_swap_req completes, and its assertion. *)
Killed == {reqs[id].draw : id \in Uncompleted}
KillChecked(s) == Require(s, \A id \in Uncompleted : reqs[id].type = "flip")

(***************************************************************************)
(* kill_swap_req frees a request unless an event will still bring it back. *)
(***************************************************************************)
FreedByKill ==
  {id \in Used : ~reqs[id].dead /\ reqs[id].rendered /\ ~reqs[id].issued}

(* dri2_kill_swap_reqs, for what becomes of the requests. *)
KillSwapReqs ==
  [id \in ReqIds |-> IF id \in FreedByKill \/ ~reqs[id].used THEN FreeRequest
                     ELSE [reqs[id] EXCEPT !.dead = TRUE]]

(***************************************************************************)
(* pvr2d_page_flip_destroy, whose memset also clears bufs[i].pixmap, and   *)
(* pvr2d_page_flip_create.  The DRI2 buffers stay as they are, and those   *)
(* of the old owner name memory that is gone.                              *)
(***************************************************************************)
RecreateFlip(s) ==
  [FreshFlip EXCEPT
     !.held = s.held, !.got = s.got,
     !.name = [b \in DRI2Buffer |-> IF s.name[b] = Private THEN Private ELSE Gone],
     !.pixmaps = KeepPixmaps /\ s.pixmaps, !.server = s.server]

(* update_flip_pixmaps modifies the pixmap of every flip buffer. *)
UpdateFlipPixmaps(s) ==
  IF s.server = "up" /\ ~s.pixmaps THEN [s EXCEPT !.server = "segfault"] ELSE s

(***************************************************************************)
(* fbdev_crtc_config_resize: PVR2D_PreFBReset kills the queue and destroys *)
(* the flip buffers, realloc_fb shows buffer 0 of the new framebuffer, and *)
(* PVR2D_PostFBReset creates the flip buffers again.                       *)
(***************************************************************************)
ResizeScreen ==
  /\ Resize
  /\ Idle
  /\ SwapComplete(Killed)
  /\ reqs' = KillSwapReqs
  /\ queue' = <<>>
  /\ pf' = UpdateFlipPixmaps(RecreateFlip(KillChecked(pf)))
  /\ pan' = [o \in Overlays |-> 0]
  /\ scan' = [o \in Overlays |-> IF o \in on \ Manual THEN 0 ELSE NoScan]
  /\ stale' = {}
  /\ UNCHANGED <<fs, alive, syncEv, flipEv, on, stack>>

-----------------------------------------------------------------------------
ServerCall ==
  SyncHandler \/ FlipSwapReq \/ FlipHandler \/ FlipDone \/ ScheduleDamage

Client ==
  \/ \E d \in Drawables, resized \in BOOLEAN : GetBuffers(d, resized)
  \/ \E d \in Drawables, resized \in BOOLEAN : GetFrontBuffer(d, resized)
  \/ \E d \in Drawables : SwapByCopy(d)
  \/ \E d \in Drawables : SwapByFlip(d)
  \/ \E d \in Drawables : DestroyDrawable(d)
  \/ \E d \in Drawables \cup {NoDraw} : SetFullscreen(d)
  \/ \E a \in Areas : DrawOnScreen(a)

Kernel ==
  \/ \E id \in ReqIds : RenderDone(id)
  \/ \E o \in Overlays : VBlank(o)
  \/ \E o \in Overlays : TransferDone(o)
  \/ \E o \in Overlays, id \in ReqIds : FlipEvent(o, id)

Next == ServerCall \/ Client \/ Kernel \/ (\E o \in Overlays : CrtcDpms(o)) \/ ResizeScreen

Spec == Init /\ [][Next]_vars

(***************************************************************************)
(* A handler that was called returns; the GPU finishes what was queued;    *)
(* the display has vertical blanks and ends its transfers; the kernel      *)
(* delivers the events it accepted.  Fairness is strong because requests   *)
(* of clients come between: the dispatch loop of the server reads the      *)
(* event descriptor on every pass, and so does the hardware go on during a *)
(* request.  Clients and users owe nothing.                                *)
(***************************************************************************)
Fairness ==
  /\ WF_vars(ServerCall)
  /\ SF_vars(\E id \in ReqIds : RenderDone(id))
  /\ \A o \in Overlays \ Manual : SF_vars(VBlank(o))
  /\ \A o \in Manual : SF_vars(TransferDone(o))
  /\ \A o \in Overlays : SF_vars(\E id \in ReqIds : FlipEvent(o, id))

FairSpec == Spec /\ Fairness

-----------------------------------------------------------------------------
(* The order of the queue, without positions. *)
Elems(q) == {q[i] : i \in DOMAIN q}
Before(q, x, y) == \E i, j \in DOMAIN q : i < j /\ q[i] = x /\ q[j] = y

InQueue == Elems(queue)
QFlips == {x \in Elems(queue) : reqs[x].type = "flip"}   \* the flips in the queue

(* The flip buffers that clients were told to render to and have not swapped. *)
ClientBuffers == {pf.name[b] : b \in pf.got} \ {Private, Gone}

(***************************************************************************)
(* None of the assertions of sgx_dri2.c fails, whatever the order of       *)
(* requests and events.                                                    *)
(***************************************************************************)
NoAssertFails == pf.server # "aborted"

(***************************************************************************)
(* No pointer is followed that is NULL: migrate_from_fs finds both buffers *)
(* of the owner it evicts, whose attachments it asserts, and               *)
(* PVR2D_PostFBReset finds "all 'screen' pixmaps" it resets.               *)
(***************************************************************************)
NoNullDereference == pf.server # "segfault"

(***************************************************************************)
(* No tearing with vsync: no overlay reads, or is programmed to read, a    *)
(* flip buffer that a client was handed by GetBuffers and did not swap     *)
(* yet.  It takes the busy flags, the count of flip events and the         *)
(* throttling of the client together.                                      *)
(***************************************************************************)
NoTearing ==
  Up /\ VSync => \A o \in on : {scan[o], pan[o]} \cap ClientBuffers = {}

(***************************************************************************)
(* Two clients never render to the same flip buffer, although fullscreen   *)
(* ownership changes hands between any two requests.                       *)
(***************************************************************************)
OneClientPerBuffer ==
  Up => \A a, b \in pf.got :
          pf.name[a] = pf.name[b] /\ a # b => pf.name[a] \in {Private, Gone}

(***************************************************************************)
(* Between requests the flip buffers, their owner and the names that       *)
(* clients were told agree, and no buffer of an old generation is left.    *)
(***************************************************************************)
OwnershipAgrees == Up => Agrees(pf, {}) /\ \A b \in pf.held : b[3] = 0

(***************************************************************************)
(* The reserved flag is set of exactly the buffers that a client was given *)
(* and has not swapped.  A flag that outlived its client would lock every  *)
(* other window out of the flip chain, one that is missing would let       *)
(* another window take the buffer over.                                    *)
(***************************************************************************)
ReservationExact == Up => pf.reserved = ClientBuffers

(***************************************************************************)
(* With synchronous rendering a frame is not on its way to the screen      *)
(* before its render-complete event was handled.                           *)
(***************************************************************************)
RenderedBeforeShown ==
  Up => \A id \in syncEv, o \in on :
          reqs[id].dead \/ reqs[id].back \notin {scan[o], pan[o]}

(***************************************************************************)
(* The DRI2 module blocks a client exactly while one swap of its drawable  *)
(* is uncompleted, and completes_pending counts these swaps: a lost        *)
(* completion would hang the client, a second one let it overtake.         *)
(***************************************************************************)
ThrottleExact ==
  Idle =>
    /\ \A d \in alive :
         pending[d] = Cardinality({id \in Uncompleted : reqs[id].draw = d})
    /\ pf.completes = Cardinality(Uncompleted)
    /\ pf.completes <= 1

(***************************************************************************)
(* An event always finds the request it was asked for: a request is freed  *)
(* by its last event and not before, and none stays behind without an      *)
(* event that will free it.                                                *)
(***************************************************************************)
EventsMatchRequests ==
  /\ \A id \in ReqIds : id \in syncEv \/ flipEv[id] # {} =>
       /\ id \in Used
       /\ id \in syncEv => ~reqs[id].rendered /\ flipEv[id] = {}
  /\ Idle => \A id \in Used :
       /\ id \in InQueue <=> ~reqs[id].dead
       /\ reqs[id].num = Cardinality(flipEv[id])
       /\ reqs[id].dead => id \in syncEv \/ flipEv[id] # {}

(***************************************************************************)
(* Between events the busy buffers are the last submitted one and those a  *)
(* queued flip still has to replace: none stays busy for ever, and none    *)
(* that may be on the screen is free.                                      *)
(***************************************************************************)
BusyIsInFlight ==
  Idle => pf.busy = {pf.front} \cup ({reqs[id].front : id \in InQueue} \ {SWAP_INVALID_IDX})

(***************************************************************************)
(* Every drawn but not yet displayed area is carried by an update that is  *)
(* queued, or by a queued flip: damage is never dropped between events.    *)
(***************************************************************************)
DamageCovered ==
  Idle => \A a \in stale : \E id \in InQueue :
            reqs[id].type = "flip" \/ a \in reqs[id].region

(***************************************************************************)
(* Drawing cannot fill the queue, which code without a bound appends to:   *)
(* damage is merged, so that no buffer is updated twice.  With vsync no    *)
(* more requests than flip buffers are ever in flight; without it a flip   *)
(* updates no buffer, and flips and updates come on top of each other.     *)
(***************************************************************************)
QueueBounded ==
  Up => Len(queue) <= IF VSync THEN NumBufs ELSE 2 * NumBufs - 1

(***************************************************************************)
(* A client that the DRI2 module blocks after a swap is let go eventually: *)
(* some flip_handler completes its swap.                                   *)
(***************************************************************************)
ClientsProceed == \A d \in Drawables : pending[d] > 0 ~> pending[d] = 0 \/ ~Up

(***************************************************************************)
(* Every queued request leaves the queue: each one that is flipped issues  *)
(* the next, although events fail and overlays are switched off.           *)
(***************************************************************************)
QueueDrains == \A id \in ReqIds : id \in InQueue ~> id \notin InQueue \/ ~Up

(***************************************************************************)
(* What is drawn reaches the manual-update display eventually, although    *)
(* damage waits behind, and is merged into, what is in the queue.          *)
(***************************************************************************)
DamageShown == \A a \in Areas : a \in stale ~> a \notin stale \/ ~Up

(* The element of S that comes i-th among them in the queue q. *)
Nth(q, S, i) == CHOOSE x \in S : Cardinality({y \in S : Before(q, y, x)}) = i - 1

(* The flips in the queue are the chain of FlipChain, first to last, and   *)
(* the buffer that the first of them replaces is the one shown.            *)
Shown    == IF QFlips = {} THEN pf.front ELSE reqs[Nth(queue, QFlips, 1)].front
InFlight == [i \in 1 .. Cardinality(QFlips) |-> reqs[Nth(queue, QFlips, i)].back]

Chain == INSTANCE FlipChain WITH
  N       <- NumBufs,
  shown   <- Shown,
  chain   <- InFlight,
  draw    <- pf.back,
  drawing <- pf.back \in pf.reserved

(***************************************************************************)
(* The queue, the buffer flags and the throttling together implement the   *)
(* ring of FlipChain: frames are shown in the order of the swaps and none  *)
(* is drawn over one that is in flight.                                    *)
(***************************************************************************)
ImplementsChain == Chain!Spec
=============================================================================
