-------------------------- MODULE SwapDisplayProofs --------------------------
(***************************************************************************)
(* What the displays show: with vsync no overlay reads a buffer that a     *)
(* client renders to, a frame is rendered before it is on its way to the   *)
(* screen, and damage is never dropped.  The first two join the ring of    *)
(* buffers and the claim of the owner to what the overlays are programmed  *)
(* with, and so rest on DPMS leaving the overlays alone and on the kernel  *)
(* accepting the event requests.  And the swap queue implements FlipChain: *)
(* step by step, crashes included, the flips in the queue are its chain.   *)
(***************************************************************************)
EXTENDS SwapAssertProofs

(* The flips in the queue that no overlay was programmed with yet. *)
Unissued == {x \in QFlips : ~reqs[x].issued}

(* Programmed is what the next flip to be issued replaces. *)
PanExact ==
  \A o \in on :
    IF Unissued = {} THEN pan[o] = pf.front
    ELSE \E y \in Unissued : /\ reqs[y].front = pan[o]
                             /\ \A z \in Unissued : ~Before(queue, z, y)

(* What is shown besides is replaced by a flip whose event is outstanding. *)
ScanExact ==
  \A o \in on : \/ scan[o] \in {NoScan, pan[o]}
                \/ \E y \in QFlips : reqs[y].front = scan[o] /\ o \in flipEv[y]

(* Only flips wait for the end of a render, and only with synchronous rendering. *)
SyncedFlips ==
  /\ \A x \in syncEv : reqs[x].type = "flip"
  /\ RenderSync \/ syncEv = {}

Display == SyncedFlips /\ (Up /\ VSync => PanExact /\ ScanExact)

-----------------------------------------------------------------------------
(* A step that issues no flip programs nothing. *)
LEMMA PanKept ==
  ASSUME PanExact, on' = on, pan' = pan, pf'.front = pf.front, Unissued' = Unissued,
         \A x \in Unissued : reqs'[x].front = reqs[x].front,
         \A x, y \in Unissued : Before(queue', x, y) => Before(queue, x, y)
  PROVE  PanExact'
<1> SUFFICES ASSUME NEW o \in on
             PROVE  IF Unissued = {} THEN pan[o] = pf.front
                    ELSE \E y \in Unissued : /\ reqs'[y].front = pan[o]
                                             /\ \A z \in Unissued : ~Before(queue', z, y)
  BY DEF PanExact
<1> QED  BY DEF PanExact

(* What handlers write to a request besides that it was issued. *)
Marked(r, q) ==
  \/ q = [r EXCEPT !.rendered = TRUE]
  \/ q = [r EXCEPT !.num = 0, !.flipped = TRUE]
  \/ q = [r EXCEPT !.completed = TRUE]
  \/ \E x : q = [r EXCEPT !.num = x]
  \/ \E x : q = [r EXCEPT !.region = x]

(* It remains the same frame. *)
LEMMA MarkedFrame ==
  ASSUME NEW r \in SwapRequest, NEW q, Marked(r, q)
  PROVE  q.type = r.type /\ q.front = r.front /\ q.issued = r.issued
BY DEF Marked, SwapRequest

(* What an overlay reads is what it read before, what it was programmed with, *)
(* or nothing.                                                                *)
LEMMA ScanKept ==
  ASSUME ScanExact, on' = on, pan' = pan,
         \A o \in on : scan'[o] = scan[o] \/ scan'[o] \in {NoScan, pan[o]},
         \A o \in on : \A y \in QFlips : o \in flipEv[y] /\ scan'[o] = scan[o] =>
           \/ scan[o] \in {NoScan, pan[o]}
           \/ y \in QFlips' /\ o \in flipEv'[y] /\ reqs'[y].front = reqs[y].front
  PROVE  ScanExact'
<1> SUFFICES ASSUME NEW o \in on
             PROVE  \/ scan'[o] \in {NoScan, pan[o]}
                    \/ \E y \in QFlips' : reqs'[y].front = scan'[o] /\ o \in flipEv'[y]
  BY DEF ScanExact
<1> QED  BY DEF ScanExact

(* An outstanding event belongs to a request that was issued. *)
LEMMA EventsIssued ==
  ASSUME TypeOK, LifeCycle, NEW x \in ReqIds
  PROVE  /\ flipEv[x] # {} => reqs[x].used /\ reqs[x].issued
         /\ x \in syncEv => reqs[x].used /\ ~reqs[x].rendered /\ ~reqs[x].issued /\ flipEv[x] = {}
<1>1. flipEv[x] # {} \/ x \in syncEv => reqs[x].used
  BY DEF LifeCycle, FreeIsQuiet
<1>2. CASE ~OnStack(x) /\ reqs[x].used
  BY <1>1, <1>2 DEF LifeCycle, OthersRest, Resting
<1>3. CASE OnStack(x)
  <2>1. PICK i \in 1 .. Len(stack) : stack[i].id = x
    BY <1>3 DEF OnStack
  <2>2. stack[i] \in Frame /\ CallReady(stack[i])
    BY <2>1 DEF TypeOK, LifeCycle, StackInOrder
  <2>3. SyncReady(x) \/ FlipReady(x) \/ Flipping(x) \/ Flipped(x)
    BY <2>1, <2>2 DEF Frame, CallReady, ReqIds
  <2> QED  BY <2>3 DEF SyncReady, FlipReady, Flipping, Flipped
<1> QED  BY <1>1, <1>2, <1>3

(* Where the requests in the queue keep their frames, so do the flips. *)
LEMMA DisplayKept ==
  ASSUME TypeOK, LifeCycle, LifeCycle', Display, Up' => Up, on' = on, pan' = pan,
         pf'.front = pf.front, queue' = queue,
         \A o \in on : scan'[o] = scan[o] \/ scan'[o] \in {NoScan, pan[o]},
         \A x \in Elems(queue) :
           /\ reqs'[x].type = reqs[x].type /\ reqs'[x].front = reqs[x].front
           /\ reqs'[x].issued = reqs[x].issued
           /\ \A o \in flipEv[x] : \/ o \in flipEv'[x] \/ scan[o] \in {NoScan, pan[o]} \/ o \notin on,
         \A x \in syncEv' : x \in syncEv /\ reqs'[x].type = reqs[x].type
  PROVE  Display'
<1>1. SyncedFlips'
  BY DEF Display, SyncedFlips
<1>2. QFlips' = QFlips /\ QFlips \subseteq Elems(queue)
  BY DEF QFlips
<1>3. Unissued' = Unissued /\ Unissued \subseteq Elems(queue)
  BY <1>2 DEF Unissued
<1>4. ASSUME Up', VSync PROVE PanExact' /\ ScanExact'
  <2>1. PanExact /\ ScanExact
    BY <1>4 DEF Display
  <2>2. PanExact'
    BY <1>3, <2>1, PanKept
  <2>3. ScanExact'
    BY <1>2, <2>1, ScanKept
  <2> QED  BY <2>2, <2>3
<1> QED  BY <1>1, <1>4 DEF Display

-----------------------------------------------------------------------------
(* The end of a render programs nothing. *)
LEMMA SyncHandlerDisplay ==
  ASSUME TypeOK, LifeCycle, LifeCycle', Display, SyncHandler
  PROVE  Display'
<1>1. PICK id \in ReqIds : id = Head(stack).id /\ SyncReady(id)
  BY RunningCall DEF SyncHandler, CallReady
<1>2. /\ reqs' = IF reqs[id].dead THEN WithReq(id, FreeRequest)
                 ELSE WithReq(id, [reqs[id] EXCEPT !.rendered = TRUE])
      /\ UNCHANGED <<queue, syncEv, flipEv, on, pan, scan>>
  BY <1>1 DEF SyncHandler, WithReq, WithoutReq
<1>3. pf'.front = pf.front /\ (Up' => Up)
  BY SyncHandlerSame DEF SameOwnership, Up
<1>4. reqs[id] \in SwapRequest /\ Elems(queue) \subseteq ReqIds /\ syncEv \in SUBSET ReqIds
      /\ (id \in Elems(queue) => ~reqs[id].dead) /\ id \notin syncEv
  BY <1>1 DEF TypeOK, LifeCycle, QueueIsLive, SyncReady
<1>5. \A x \in ReqIds : x # id => reqs'[x] = reqs[x]
  BY <1>2, WithReqValues
<1>6. ~reqs[id].dead => /\ reqs'[id].type = reqs[id].type /\ reqs'[id].front = reqs[id].front
                        /\ reqs'[id].issued = reqs[id].issued
  <2> SUFFICES ASSUME ~reqs[id].dead
               PROVE  /\ reqs'[id].type = reqs[id].type /\ reqs'[id].front = reqs[id].front
                      /\ reqs'[id].issued = reqs[id].issued
    OBVIOUS
  <2>1. reqs'[id] = [reqs[id] EXCEPT !.rendered = TRUE]
    BY <1>2, WithReqValues
  <2> QED  BY <1>4, <2>1, MarkedFrame DEF Marked
<1>7. \A x \in Elems(queue) :
        /\ reqs'[x].type = reqs[x].type /\ reqs'[x].front = reqs[x].front
        /\ reqs'[x].issued = reqs[x].issued
  BY <1>4, <1>5, <1>6
<1>8. \A x \in syncEv' : x \in syncEv /\ reqs'[x].type = reqs[x].type
  BY <1>2, <1>4, <1>5
<1> QED  BY <1>2, <1>3, <1>7, <1>8, DisplayKept

(***************************************************************************)
(* flip_swap_req: what the flip replaces was programmed, and its event is  *)
(* asked of every overlay that still reads that.                           *)
(***************************************************************************)
LEMMA FlipSwapReqDisplay ==
  ASSUME Joined, LifeCycle', Display, ~EventsFail, FlipSwapReq
  PROVE  Display'
<1>1. PICK id \in ReqIds : id = Head(stack).id /\ FlipReady(id)
  BY RunningCall DEF Joined, FlipSwapReq, CallReady
<1> DEFINE r == reqs[id]
<1>2. PICK num : reqs' = WithReq(id, [r EXCEPT !.issued = TRUE, !.num = num])
  BY <1>1 DEF FlipSwapReq
<1>3. /\ UNCHANGED <<queue, syncEv, on, scan>>
      /\ pan' = (IF r.back # SWAP_INVALID_IDX THEN FlipCrtcs(r.back) ELSE pan)
      /\ flipEv' = [flipEv EXCEPT ![id] = Awaited(r)]
  BY <1>1 DEF FlipSwapReq
<1>4. TypeOK /\ LifeCycle /\ Ring /\ r \in SwapRequest /\ Elems(queue) \subseteq ReqIds
      /\ id \in Elems(queue) /\ NoRepeat(queue) /\ queue \in Seq(ReqIds)
      /\ flipEv \in [ReqIds -> SUBSET Overlays] /\ on \subseteq Overlays
  BY <1>1 DEF Joined, TypeOK, LifeCycle, QueueIsLive, FlipReady
<1>5. pf'.front = pf.front /\ (Up' => Up)
  BY <1>4, FlipSwapReqSame DEF SameOwnership, Up
<1>6. reqs'[id] = [r EXCEPT !.issued = TRUE, !.num = num] /\ \A x \in ReqIds \ {id} : reqs'[x] = reqs[x]
  BY <1>2, <1>4, WithReqValues
<1>7. reqs'[id].type = r.type /\ reqs'[id].front = r.front /\ reqs'[id].issued /\ ~r.issued
  BY <1>1, <1>4, <1>6, FieldsKept DEF FlipReady
<1>8. SyncedFlips'
  <2>1. \A x \in ReqIds : reqs'[x].type = reqs[x].type
    BY <1>6, <1>7
  <2> QED  BY <1>3, <1>4, <2>1 DEF Display, SyncedFlips, TypeOK
<1> SUFFICES ASSUME Up', VSync PROVE PanExact' /\ ScanExact'
  BY <1>8 DEF Display
<1>9. Up /\ PanExact /\ ScanExact /\ FormsHold
  BY <1>4, <1>5 DEF Display, Ring
<1>10. \A x \in Elems(queue) : x # id => Before(queue, id, x) /\ ~reqs[x].issued
  <2> SUFFICES ASSUME NEW x \in Elems(queue), x # id PROVE Before(queue, id, x) /\ ~reqs[x].issued
    OBVIOUS
  <2>1. SameClass(reqs[x], r) /\ SameClass(r, reqs[x])
    BY <1>4, <1>9, NextBufType DEF FormsHold, Form, SameClass, SWAP_INVALID_IDX, Buf
  <2>2. ~Before(queue, x, id)
    BY <1>1, <2>1 DEF FlipReady
  <2>3. Before(queue, id, x)
    BY <1>4, <2>2, BeforeOrder
  <2> QED  BY <1>4, <2>1, <2>3 DEF LifeCycle, IssuedIsFirst
<1>11. /\ QFlips' = QFlips /\ QFlips \subseteq Elems(queue)
       /\ \A x \in QFlips : reqs'[x].front = reqs[x].front
       /\ Unissued = QFlips /\ Unissued' = QFlips \ {id}
  <2>1. QFlips \subseteq Elems(queue)
    BY DEF QFlips
  <2>2. QFlips' = QFlips /\ \A x \in QFlips : reqs'[x].front = reqs[x].front
    <3>1. \A x \in Elems(queue) : reqs'[x].type = reqs[x].type /\ reqs'[x].front = reqs[x].front
      BY <1>4, <1>6, <1>7
    <3>2. Elems(queue') = Elems(queue)
      BY <1>3
    <3> QED  BY <2>1, <3>1, <3>2 DEF QFlips
  <2>3. Unissued = QFlips /\ Unissued' = QFlips \ {id}
    BY <1>4, <1>6, <1>7, <1>10, <2>1, <2>2 DEF Unissued
  <2> QED  BY <2>1, <2>2, <2>3
<1>12. \A x \in ReqIds \ {id} : flipEv'[x] = flipEv[x]
  BY <1>3, <1>4
<1>13. \A x \in Elems(queue) : flipEv[x] = {}
  BY <1>1, <1>4, <1>10, EventsIssued DEF FlipReady
<1>14. \A o \in on : scan[o] \in {NoScan, pan[o]}
  BY <1>9, <1>11, <1>13 DEF ScanExact
<1>15. CASE r.type = "flip"
  <2>1. id \in QFlips /\ r.back \in Buf /\ r.back # SWAP_INVALID_IDX /\ r.update # SWAP_INVALID_IDX
    BY <1>4, <1>9, <1>15, NextBufType DEF QFlips, FormsHold, Form, SWAP_INVALID_IDX, Buf
  <2>2. \A o \in on : pan[o] = r.front /\ pan'[o] = r.back /\ o \in flipEv'[id]
    <3> SUFFICES ASSUME NEW o \in on PROVE pan[o] = r.front /\ pan'[o] = r.back /\ o \in flipEv'[id]
      OBVIOUS
    <3>1. PICK y \in Unissued : reqs[y].front = pan[o] /\ \A z \in Unissued : ~Before(queue, z, y)
      BY <1>9, <1>11, <2>1 DEF PanExact
    <3>2. y = id
      BY <1>10, <1>11, <2>1, <3>1
    <3>3. pan'[o] = r.back
      BY <1>3, <1>4, <2>1 DEF FlipCrtcs
    <3>4. o \in flipEv'[id]
      BY <1>3, <1>4, <2>1 DEF Awaited
    <3> QED  BY <3>1, <3>2, <3>3, <3>4
  <2>3. ScanExact'
    BY <1>3, <1>7, <1>11, <1>14, <2>1, <2>2 DEF ScanExact
  <2>4. PanExact'
    <3> SUFFICES ASSUME NEW o \in on
                 PROVE  IF Unissued' = {} THEN r.back = pf.front
                        ELSE \E y \in Unissued' : /\ reqs'[y].front = r.back
                                                  /\ \A z \in Unissued' : ~Before(queue, z, y)
      BY <1>3, <1>5, <2>2 DEF PanExact
    <3>1. CASE Unissued' = {}
      <4>1. QFlips = {id}
        BY <1>11, <2>1, <3>1
      <4> QED  BY <1>4, <1>9, <3>1, <4>1 DEF Ring, Linked
    <3>2. CASE Unissued' # {}
      <4>1. PICK w \in QFlips : w # id /\ Before(queue, id, w)
        <5>1. PICK w \in QFlips \ {id} : TRUE
          BY <1>11, <3>2
        <5> QED  BY <1>10, <1>11, <5>1
      <4>2. PICK y \in QFlips : Follows(id, y)
        BY <1>4, <1>9, <2>1, <4>1 DEF Ring, Linked
      <4>3. y # id /\ reqs[y].front = r.back
        BY <1>4, <4>2, BeforeOrder DEF Follows
      <4>4. \A z \in Unissued' : ~Before(queue, z, y)
        BY <1>10, <1>11, <4>2 DEF Follows
      <4> QED  BY <1>11, <3>2, <4>3, <4>4
    <3> QED  BY <3>1, <3>2
  <2> QED  BY <2>3, <2>4
<1>16. CASE r.type # "flip"
  <2>1. id \notin QFlips /\ pan' = pan /\ Unissued' = Unissued
    <3>1. id \notin QFlips
      BY <1>16 DEF QFlips
    <3>2. r.back = SWAP_INVALID_IDX
      BY <1>4, <1>9, <1>16 DEF FormsHold, Form
    <3> QED  BY <1>3, <1>11, <3>1, <3>2
  <2>2. PanExact'
    <3>1. \A x \in Unissued : reqs'[x].front = reqs[x].front
      BY <1>11
    <3>2. \A x, y : Before(queue', x, y) => Before(queue, x, y)
      BY <1>3
    <3> QED  BY <1>3, <1>5, <1>9, <2>1, <3>1, <3>2, PanKept
  <2>3. ScanExact'
    BY <1>3, <1>14, <2>1 DEF ScanExact
  <2> QED  BY <2>2, <2>3
<1> QED  BY <1>15, <1>16

(* flip_handler: a transfer begins to read what is programmed. *)
LEMMA FlipHandlerDisplay ==
  ASSUME TypeOK, LifeCycle, LifeCycle', Display, FlipHandler
  PROVE  Display'
<1>1. PICK id \in ReqIds : id = Head(stack).id /\ Flipping(id)
  <2>1. Running("flip_handler")
    BY DEF FlipHandler
  <2> QED  BY <2>1, RunningCall DEF CallReady
<1> DEFINE r == reqs[id]
<1>2. PICK q : reqs' = WithReq(id, q) /\ (r.dead \/ Marked(r, q))
  <2>1. \/ r.dead /\ reqs' = WithReq(id, FreeRequest)
        \/ reqs' = WithReq(id, [r EXCEPT !.num = @ - 1])
        \/ reqs' = WithReq(id, [r EXCEPT !.num = 0, !.flipped = TRUE])
    BY <1>1 DEF FlipHandler, WithReq, WithoutReq
  <2> QED  BY <2>1 DEF Marked
<1>3. UNCHANGED <<queue, syncEv, flipEv, on, pan>> /\ (scan' = scan \/ scan' = UpdateOutputs)
  BY DEF FlipHandler
<1>4. pf'.front = pf.front /\ (Up' => Up)
  BY FlipHandlerSame DEF SameOwnership, Up
<1>5. /\ r \in SwapRequest /\ Elems(queue) \subseteq ReqIds /\ syncEv \in SUBSET ReqIds
      /\ (id \in Elems(queue) => ~r.dead) /\ id \notin syncEv /\ on \subseteq Overlays
  BY <1>1 DEF TypeOK, LifeCycle, QueueIsLive, Flipping
<1>6. \A x \in ReqIds : x # id => reqs'[x] = reqs[x]
  BY <1>2, WithReqValues
<1>7. ASSUME ~r.dead
      PROVE  reqs'[id].type = r.type /\ reqs'[id].front = r.front /\ reqs'[id].issued = r.issued
  <2>1. reqs'[id] = q /\ Marked(r, q)
    BY <1>2, <1>7, WithReqValues
  <2> HIDE DEF r
  <2> QED  BY <1>5, <2>1, MarkedFrame
<1>8. \A x \in Elems(queue) :
        /\ reqs'[x].type = reqs[x].type /\ reqs'[x].front = reqs[x].front
        /\ reqs'[x].issued = reqs[x].issued
  BY <1>5, <1>6, <1>7
<1>9. \A x \in syncEv' : x \in syncEv /\ reqs'[x].type = reqs[x].type
  BY <1>3, <1>5, <1>6
<1>10. \A o \in on : scan'[o] \in {scan[o], pan[o]}
  BY <1>3, <1>5 DEF UpdateOutputs
<1> QED  BY <1>3, <1>4, <1>8, <1>9, <1>10, DisplayKept

(* The rest of it: a flip that all overlays have made leaves the queue. *)
LEMMA FlipDoneDisplay ==
  ASSUME TypeOK, LifeCycle, Display, FlipDone
  PROVE  Display'
<1>1. PICK id \in ReqIds : id = Head(stack).id /\ Flipped(id)
  <2>1. Running("flip_done")
    BY DEF FlipDone
  <2> QED  BY <2>1, RunningCall DEF CallReady
<1>2. PICK c : reqs' = [i \in ReqIds |->
                          IF i = id THEN FreeRequest
                          ELSE IF i = c THEN [reqs[i] EXCEPT !.completed = TRUE] ELSE reqs[i]]
  BY <1>1 DEF FlipDone
<1>3. UNCHANGED <<syncEv, flipEv, on, pan, scan>> /\ queue' = Unlink(queue, id)
  BY <1>1 DEF FlipDone
<1>4. pf'.front = pf.front /\ (Up' => Up)
  BY FlipDoneSame DEF SameOwnership, Up
<1>5. /\ NoRepeat(queue) /\ queue \in Seq(ReqIds) /\ Elems(queue) \subseteq ReqIds
      /\ syncEv \in SUBSET ReqIds /\ reqs[id].issued /\ flipEv[id] = {} /\ id \notin syncEv
      /\ reqs \in [ReqIds -> SwapRequest]
  BY <1>1 DEF TypeOK, LifeCycle, QueueIsLive, Flipped
<1>6. /\ Elems(queue') = Elems(queue) \ {id}
      /\ \A x, y : Before(queue', x, y) => Before(queue, x, y)
  BY <1>3, <1>5, UnlinkOrder
<1>7. ASSUME NEW x \in ReqIds, x # id
      PROVE  /\ reqs'[x].type = reqs[x].type /\ reqs'[x].front = reqs[x].front
             /\ reqs'[x].issued = reqs[x].issued
  <2>1. reqs'[x] = reqs[x] \/ reqs'[x] = [reqs[x] EXCEPT !.completed = TRUE]
    BY <1>2, <1>7
  <2> QED  BY <1>5, <2>1, MarkedFrame DEF Marked
<1>8. SyncedFlips'
  BY <1>3, <1>5, <1>7 DEF Display, SyncedFlips
<1>9. QFlips' = QFlips \ {id} /\ QFlips \subseteq ReqIds
  BY <1>5, <1>6, <1>7 DEF QFlips
<1>10. Unissued' = Unissued /\ id \notin Unissued /\ Unissued \subseteq ReqIds
  <2>1. id \notin Unissued /\ Unissued \subseteq QFlips
    BY <1>5 DEF Unissued
  <2> QED  BY <1>7, <1>9, <2>1 DEF Unissued
<1>11. ASSUME Up', VSync PROVE PanExact' /\ ScanExact'
  <2>1. PanExact /\ ScanExact
    BY <1>4, <1>11 DEF Display
  <2>2. PanExact'
    <3>1. \A x \in Unissued : reqs'[x].front = reqs[x].front
      BY <1>7, <1>10
    <3> QED  BY <1>3, <1>4, <1>6, <1>10, <2>1, <3>1, PanKept
  <2>3. ScanExact'
    <3>1. \A o \in on : \A y \in QFlips : o \in flipEv[y] =>
            y \in QFlips' /\ o \in flipEv'[y] /\ reqs'[y].front = reqs[y].front
      BY <1>3, <1>5, <1>7, <1>9
    <3> QED  BY <1>3, <2>1, <3>1, ScanKept
  <2> QED  BY <2>2, <2>3
<1> QED  BY <1>8, <1>11 DEF Display

(* Damage adds no flip. *)
LEMMA ScheduleDamageDisplay ==
  ASSUME TypeOK, LifeCycle, LifeCycle', Display, ScheduleDamage
  PROVE  Display'
<1> DEFINE region == Head(stack).region
           id     == MergeInto(region)
<1>1. UNCHANGED <<pf, syncEv, flipEv, on, pan, scan>> /\ Up
  BY DEF ScheduleDamage, Running
<1>2. /\ NoRepeat(queue) /\ queue \in Seq(ReqIds) /\ Elems(queue) \subseteq ReqIds
      /\ syncEv \in SUBSET ReqIds /\ reqs \in [ReqIds -> SwapRequest]
      /\ \A x \in Elems(queue) : reqs[x].used
  BY DEF TypeOK, LifeCycle, QueueIsLive
<1>3. CASE id # 0 /\ reqs' = WithReq(id, [reqs[id] EXCEPT !.region = @ \cup region])
           /\ queue' = queue
  <2>1. PICK y \in ReqIds : y = id
    BY <1>3, FirstInType DEF MergeInto, FindByUpdate, TypeOK
  <2>2. PICK v : v = reqs[y].region \cup region
    OBVIOUS
  <2>3. reqs'[y] = [reqs[y] EXCEPT !.region = v] /\ \A x \in ReqIds \ {y} : reqs'[x] = reqs[x]
    <3>1. PICK r : r = [reqs[y] EXCEPT !.region = v]
      OBVIOUS
    <3>2. reqs' = WithReq(y, r)
      BY <1>3, <2>1, <2>2, <3>1
    <3> QED  BY <3>1, <3>2, WithReqValues
  <2>4. \A x \in ReqIds : /\ reqs'[x].type = reqs[x].type /\ reqs'[x].front = reqs[x].front
                          /\ reqs'[x].issued = reqs[x].issued
    <3>1. reqs[y] \in SwapRequest
      BY <1>2
    <3>2. Marked(reqs[y], reqs'[y])
      BY <2>3 DEF Marked
    <3> QED  BY <2>3, <3>1, <3>2, MarkedFrame
  <2> QED  BY <1>1, <1>2, <1>3, <2>4, DisplayKept
<1>4. ASSUME id = 0, Free # {}, reqs' = WithReq(NewId, NewUpdate(region)),
             queue' = Append(queue, NewId)
      PROVE  Display'
  <2>1. PICK n \in ReqIds : n = NewId /\ ~reqs[n].used /\ n \notin syncEv
    BY <1>4, NewIdFree
  <2>2. reqs'[n] = NewUpdate(region) /\ \A x \in ReqIds \ {n} : reqs'[x] = reqs[x]
    BY <1>4, <2>1, WithReqValues
  <2>3. reqs'[n].type = "extfb"
    BY <2>2 DEF NewUpdate
  <2>4. n \notin Elems(queue) /\ \A x \in Elems(queue) : reqs'[x] = reqs[x]
    BY <1>2, <2>1, <2>2
  <2>5. /\ Elems(queue') = Elems(queue) \cup {n}
        /\ \A x, y : Before(queue', x, y) <=> Before(queue, x, y) \/ (x \in Elems(queue) /\ y = n)
    BY <1>2, <1>4, <2>1, <2>4, AppendOrder
  <2>6. QFlips' = QFlips /\ QFlips \subseteq Elems(queue)
    BY <2>3, <2>4, <2>5 DEF QFlips
  <2>7. Unissued' = Unissued /\ Unissued \subseteq Elems(queue)
    BY <2>4, <2>6 DEF Unissued
  <2>8. SyncedFlips'
    BY <1>1, <1>2, <2>1, <2>2 DEF Display, SyncedFlips
  <2>9. ASSUME VSync PROVE PanExact' /\ ScanExact'
    <3>1. PanExact /\ ScanExact
      BY <1>1, <2>9 DEF Display
    <3>2. PanExact'
      <4>1. \A x, y \in Unissued : Before(queue', x, y) => Before(queue, x, y)
        BY <2>4, <2>5, <2>7
      <4>2. \A x \in Unissued : reqs'[x].front = reqs[x].front
        BY <2>4, <2>7
      <4> QED  BY <1>1, <2>7, <3>1, <4>1, <4>2, PanKept
    <3>3. ScanExact'
      BY <1>1, <2>4, <2>6, <3>1, ScanKept
    <3> QED  BY <3>2, <3>3
  <2> QED  BY <2>8, <2>9 DEF Display
<1> QED  BY <1>3, <1>4 DEF ScheduleDamage

-----------------------------------------------------------------------------
(* A new flip is the last to be programmed, and replaces the one before it. *)
LEMMA SwapByFlipDisplay ==
  ASSUME Joined, Display, NEW draw \in Drawables, SwapByFlip(draw)
  PROVE  Display'
<1>1. PICK now \in BOOLEAN :
        /\ pf'.front = pf.back /\ (Up' => Up)
        /\ reqs' = WithReq(NewId, [NewFlip(draw) EXCEPT !.completed = now])
  BY SwapByFlipEffect DEF Joined
<1>2. /\ NoRepeat(queue) /\ queue \in Seq(ReqIds) /\ Elems(queue) \subseteq ReqIds
      /\ syncEv \in SUBSET ReqIds /\ reqs \in [ReqIds -> SwapRequest]
      /\ \A x \in Elems(queue) : reqs[x].used
  BY DEF Joined, TypeOK, LifeCycle, QueueIsLive
<1>3. /\ UNCHANGED <<flipEv, on, pan, scan>> /\ Free # {} /\ queue' = Append(queue, NewId)
      /\ syncEv' \subseteq syncEv \cup {NewId} /\ (RenderSync \/ syncEv' = syncEv)
  BY RoomFree DEF SwapByFlip
<1>4. PICK n \in ReqIds : n = NewId /\ ~reqs[n].used /\ n \notin syncEv
  BY <1>3, NewIdFree DEF Joined
<1>5. /\ reqs'[n] = [NewFlip(draw) EXCEPT !.completed = now]
      /\ \A x \in ReqIds \ {n} : reqs'[x] = reqs[x]
  BY <1>1, <1>4, WithReqValues DEF Joined
<1>6. reqs'[n].type = "flip" /\ reqs'[n].front = pf.front /\ ~reqs'[n].issued
  BY <1>5 DEF NewFlip
<1>7. n \notin Elems(queue) /\ \A x \in Elems(queue) : reqs'[x] = reqs[x]
  BY <1>2, <1>4, <1>5
<1>8. /\ Elems(queue') = Elems(queue) \cup {n}
      /\ \A x, y : Before(queue', x, y) <=> Before(queue, x, y) \/ (x \in Elems(queue) /\ y = n)
  BY <1>2, <1>3, <1>4, <1>7, AppendOrder
<1>9. QFlips' = QFlips \cup {n} /\ QFlips \subseteq Elems(queue)
  BY <1>6, <1>7, <1>8 DEF QFlips
<1>10. Unissued' = Unissued \cup {n} /\ Unissued \subseteq Elems(queue)
  BY <1>6, <1>7, <1>9 DEF Unissued
<1>11. SyncedFlips'
  BY <1>2, <1>3, <1>4, <1>5, <1>6 DEF Display, SyncedFlips
<1>12. ASSUME Up', VSync PROVE PanExact' /\ ScanExact'
  <2>1. PanExact /\ ScanExact
    BY <1>1, <1>12 DEF Display
  <2>2. PanExact'
    <3> SUFFICES ASSUME NEW o \in on
                 PROVE  \E y \in Unissued' : /\ reqs'[y].front = pan[o]
                                             /\ \A z \in Unissued' : ~Before(queue', z, y)
      BY <1>3, <1>10 DEF PanExact
    <3>1. CASE Unissued = {}
      <4>1. pan[o] = pf.front /\ Unissued' = {n}
        BY <1>10, <2>1, <3>1 DEF PanExact
      <4>2. ~Before(queue', n, n)
        <5>1. ~Before(queue, n, n)
          BY <1>2, BeforeOrder
        <5> QED  BY <1>7, <1>8, <5>1
      <4> QED  BY <1>6, <4>1, <4>2
    <3>2. CASE Unissued # {}
      <4>1. PICK y \in Unissued : reqs[y].front = pan[o] /\ \A z \in Unissued : ~Before(queue, z, y)
        BY <2>1, <3>2 DEF PanExact
      <4>2. y \in Elems(queue) /\ y # n /\ reqs'[y].front = pan[o]
        BY <1>7, <1>10, <4>1
      <4>3. ~Before(queue, n, y)
        BY <1>2, <1>7, BeforeOrder
      <4>4. \A z \in Unissued' : ~Before(queue', z, y)
        BY <1>8, <1>10, <4>1, <4>2, <4>3
      <4> QED  BY <1>10, <4>1, <4>2, <4>4
    <3> QED  BY <3>1, <3>2
  <2>3. ScanExact'
    BY <1>3, <1>7, <1>9, <2>1, ScanKept
  <2> QED  BY <2>2, <2>3
<1> QED  BY <1>11, <1>12 DEF Display

(* An event leaves an overlay that reads what it was programmed with. *)
LEMMA FlipEventDisplay ==
  ASSUME TypeOK, LifeCycle, LifeCycle', Display,
         NEW o \in Overlays, NEW id \in ReqIds, FlipEvent(o, id)
  PROVE  Display'
<1>1. /\ UNCHANGED <<pf, reqs, queue, syncEv, on, pan, scan>>
      /\ flipEv' = [flipEv EXCEPT ![id] = @ \ {o}]
      /\ o \notin on \/ scan[o] \in {NoScan, pan[o]}
  BY DEF FlipEvent
<1>2. \A x \in ReqIds : \A a \in flipEv[x] : a \in flipEv'[x] \/ a = o
  BY <1>1 DEF TypeOK
<1>3. Elems(queue) \subseteq ReqIds
  BY DEF LifeCycle, QueueIsLive
<1>4. \A x \in Elems(queue) : \A a \in flipEv[x] :
        a \in flipEv'[x] \/ scan[a] \in {NoScan, pan[a]} \/ a \notin on
  BY <1>1, <1>2, <1>3
<1> QED  BY <1>1, <1>4, DisplayKept DEF Up

(* The hardware reads what it is programmed with, or nothing. *)
LEMMA HardwareDisplay ==
  ASSUME TypeOK, LifeCycle, LifeCycle', Display, NEW o \in Overlays, VBlank(o) \/ TransferDone(o)
  PROVE  Display'
<1>1. UNCHANGED <<pf, reqs, queue, syncEv, flipEv, on, pan>>
  BY DEF VBlank, TransferDone
<1>2. scan' = [scan EXCEPT ![o] = pan[o]] \/ scan' = [scan EXCEPT ![o] = NoScan]
  BY DEF VBlank, TransferDone
<1>3. \A a \in on : scan'[a] = scan[a] \/ scan'[a] \in {NoScan, pan[a]}
  BY <1>2 DEF TypeOK
<1> QED  BY <1>1, <1>3, DisplayKept DEF Up

(* A step that neither shows anything nor moves the ring. *)
LEMMA DisplayUntouched ==
  ASSUME TypeOK, LifeCycle, LifeCycle', Display, SameRing(pf, pf'),
         UNCHANGED <<reqs, queue, flipEv, on, pan, scan>>, syncEv' \subseteq syncEv
  PROVE  Display'
BY DisplayKept DEF SameRing, Up

(* A screen of another size shows buffer 0 and has no flips. *)
LEMMA ResizeScreenDisplay ==
  ASSUME TypeOK, LifeCycle, LifeCycle', Display, ResizeScreen
  PROVE  Display'
<1>1. /\ queue' = <<>> /\ UNCHANGED <<syncEv, on>> /\ reqs' = KillSwapReqs
      /\ pan' = [o \in Overlays |-> 0]
      /\ scan' = [o \in Overlays |-> IF o \in on \ Manual THEN 0 ELSE NoScan]
  BY DEF ResizeScreen
<1>2. pf'.front = 0
  <2> DEFINE k == KillChecked(pf)
             r == RecreateFlip(k)
  <2>1. r.front = 0 /\ [r EXCEPT !.server = "segfault"].front = 0
    BY DEF RecreateFlip, FreshFlip
  <2>2. pf' = r \/ pf' = [r EXCEPT !.server = "segfault"]
    BY DEF ResizeScreen, UpdateFlipPixmaps
  <2> QED  BY <2>1, <2>2
<1>3. QFlips' = {} /\ Unissued' = {}
  BY <1>1 DEF QFlips, Unissued, Elems
<1>4. PanExact' /\ ScanExact'
  BY <1>1, <1>2, <1>3 DEF TypeOK, PanExact, ScanExact
<1>5. SyncedFlips'
  <2> SUFFICES ASSUME NEW x \in syncEv PROVE reqs'[x].type = "flip"
    BY <1>1 DEF Display, SyncedFlips
  <2>1. x \in ReqIds /\ reqs[x] \in SwapRequest /\ reqs[x].type = "flip"
    BY DEF TypeOK, Display, SyncedFlips
  <2>2. reqs[x].used /\ ~reqs[x].rendered
    BY <2>1, EventsIssued
  <2>3. reqs'[x] = [reqs[x] EXCEPT !.dead = TRUE]
    BY <1>1, <2>1, <2>2 DEF KillSwapReqs, FreedByKill
  <2> QED  BY <2>1, <2>3 DEF SwapRequest
<1> QED  BY <1>4, <1>5 DEF Display

(* At the start all overlays show buffer 0. *)
LEMMA InitDisplay == Init => Display
<1> SUFFICES ASSUME Init PROVE Display
  OBVIOUS
<1>1. QFlips = {} /\ Unissued = {}
  BY DEF Init, QFlips, Unissued, Elems
<1>2. pf.front = 0
  BY DEF Init, FreshFlip
<1> QED  BY <1>1, <1>2 DEF Init, Display, SyncedFlips, PanExact, ScanExact

(* Every step but a switch of an overlay, if no event request fails. *)
LEMMA NextDisplay ==
  ASSUME ~Dpms, ~EventsFail
  PROVE  Joined /\ Joined' /\ Display /\ [Next]_vars => Display'
<1> SUFFICES ASSUME Joined, Joined', Display, [Next]_vars PROVE Display'
  OBVIOUS
<1>1. TypeOK /\ LifeCycle /\ LifeCycle' /\ pf \in FlipState /\ SameRing(pf, pf)
  BY DEF Joined, TypeOK, SameRing
<1>2. ASSUME UNCHANGED <<pf, reqs, queue, flipEv, on, pan, scan>>, syncEv' \subseteq syncEv
      PROVE  Display'
  BY <1>1, <1>2, DisplayUntouched
<1>3. CASE ServerCall
  BY <1>1, <1>3, SyncHandlerDisplay, FlipSwapReqDisplay, FlipHandlerDisplay, FlipDoneDisplay,
     ScheduleDamageDisplay DEF ServerCall
<1>4. CASE Client
  <2>1. ASSUME NEW d \in Drawables, NEW resized \in BOOLEAN,
               GetBuffers(d, resized) \/ GetFrontBuffer(d, resized)
        PROVE  Display'
    <3>1. SameRing(pf, pf')
      BY <1>1, <2>1, GetBuffersUnmoved
    <3> QED  BY <1>1, <2>1, <3>1, DisplayUntouched DEF GetBuffers, GetFrontBuffer
  <2>2. ASSUME NEW d \in Drawables, DestroyDrawable(d) PROVE Display'
    <3>1. SameRing(pf, pf')
      BY <1>1, <2>2, DestroyDrawableUnmoved
    <3> QED  BY <1>1, <2>2, <3>1, DisplayUntouched DEF DestroyDrawable
  <2>3. ASSUME NEW d \in Drawables, SwapByCopy(d) PROVE Display'
    <3>1. SameRing(pf, pf')
      BY <1>1, <2>3, SwapByCopyUnmoved
    <3> QED  BY <1>1, <2>3, <3>1, DisplayUntouched DEF SwapByCopy
  <2>4. ASSUME NEW d \in Drawables \cup {NoDraw}, SetFullscreen(d) PROVE Display'
    BY <1>2, <2>4 DEF SetFullscreen
  <2>5. ASSUME NEW a \in Areas, DrawOnScreen(a) PROVE Display'
    BY <1>2, <2>5 DEF DrawOnScreen
  <2> QED  BY <1>4, <2>1, <2>2, <2>3, <2>4, <2>5, SwapByFlipDisplay DEF Client
<1>5. CASE Kernel
  <2>1. ASSUME NEW id \in ReqIds, RenderDone(id) PROVE Display'
    BY <1>2, <2>1 DEF RenderDone
  <2> QED  BY <1>1, <1>5, <2>1, HardwareDisplay, FlipEventDisplay DEF Kernel
<1>6. ~\E o \in Overlays : CrtcDpms(o)
  BY DEF CrtcDpms
<1>7. CASE ResizeScreen
  BY <1>1, <1>7, ResizeScreenDisplay
<1>8. CASE UNCHANGED vars
  BY <1>2, <1>8 DEF vars
<1> QED  BY <1>3, <1>4, <1>5, <1>6, <1>7, <1>8 DEF Next

(* What the displays show, always. *)
THEOREM DisplayInOrder == ~Dpms /\ ~EventsFail => (Spec => [](Joined /\ Display))
<1> SUFFICES ASSUME ~Dpms, ~EventsFail PROVE Spec => [](Joined /\ Display)
  OBVIOUS
<1>1. Joined /\ Joined' /\ Display /\ [Next]_vars => Display'
  BY NextDisplay
<1> QED  BY <1>1, ClaimsInOrder, InitDisplay, PTL DEF Spec

-----------------------------------------------------------------------------
(* With vsync an overlay reads nothing but the buffer shown and the ones that *)
(* flips in the queue still show.                                             *)
LEMMA ShowsOccupied ==
  ASSUME Display, Up, VSync, NEW o \in on
  PROVE  pan[o] \in Occupied /\ scan[o] \in Occupied \cup {NoScan}
<1>1. pan[o] \in Occupied
  BY DEF Display, PanExact, Unissued, Occupied
<1> QED  BY <1>1 DEF Display, ScanExact, Occupied

(***************************************************************************)
(* With vsync no overlay reads, or is programmed to read, a flip buffer    *)
(* that a client renders to, for every number of overlays, of windows and  *)
(* of flip buffers: a client is handed the next back buffer only when all  *)
(* swaps are completed, and then no flip in the queue shows it.            *)
(***************************************************************************)
THEOREM NothingTears == ~Dpms /\ ~EventsFail => (Spec => []NoTearing)
<1> SUFFICES ASSUME ~Dpms, ~EventsFail PROVE Spec => []NoTearing
  OBVIOUS
<1>1. Joined /\ Display => NoTearing
  <2> SUFFICES ASSUME Joined, Display, Up, VSync, NEW o \in on, NEW i \in ClientBuffers
               PROVE  i \notin {scan[o], pan[o]}
    BY DEF NoTearing
  <2>1. pf \in FlipState /\ Agrees(pf, {}) /\ ReservedExact(pf)
    BY DEF Joined, Claims, TypeOK, Owned, Good, Claim, Up
  <2>2. i \in pf.reserved
    BY ReservedForClients DEF ReservationExact
  <2>3. i = pf.back /\ pf.back \in Buf /\ pf.user[i] \in pf.got /\ pf.user[i] # NoBuffer
    BY <2>1, <2>2, NoBufferType DEF ReservedExact, FlipState
  <2>4. NumBufs >= 2
    BY <2>1, <2>3 DEF Agrees
  <2>5. Uncompleted = {}
    BY <2>2 DEF Joined, Claims, NoneRenders
  <2>6. i \notin Occupied
    BY <2>3, <2>4, <2>5 DEF Joined, Ring, Waiting
  <2>7. i # NoScan
    BY <2>3, FlipAssumption DEF Buf, NoScan
  <2> QED  BY <2>6, <2>7, ShowsOccupied
<1> QED  BY <1>1, DisplayInOrder, PTL

-----------------------------------------------------------------------------
(* What flips in the queue replace is in the order of the flips: of two flips *)
(* the later one is followed by another, or shows the buffer submitted last.  *)
LEMMA FlipShows ==
  ASSUME TypeOK, LifeCycle, Ring, Up, NEW x \in QFlips
  PROVE  \/ reqs[x].back = pf.front
         \/ \E y \in QFlips : Before(queue, x, y) /\ reqs[y].front = reqs[x].back
<1>1. PICK l \in QFlips : reqs[l].back = pf.front /\ \A y \in QFlips : ~Before(queue, l, y)
  BY DEF Ring, Linked
<1>2. CASE x = l
  BY <1>1, <1>2
<1>3. CASE x # l
  <2>1. Before(queue, x, l)
    BY <1>1, <1>3, BeforeOrder DEF QFlips, TypeOK, LifeCycle, QueueIsLive
  <2>2. PICK y \in QFlips : Follows(x, y)
    BY <1>1, <2>1 DEF Ring, Linked
  <2> QED  BY <2>2 DEF Follows
<1> QED  BY <1>2, <1>3

(***************************************************************************)
(* With vsync and synchronous rendering no overlay reads a frame before    *)
(* its render-complete event was handled.  (Without synchronous rendering  *)
(* there are no such events.)                                              *)
(***************************************************************************)
THEOREM RenderedFirst ==
  ~Dpms /\ ~EventsFail /\ (VSync \/ ~RenderSync) => (Spec => []RenderedBeforeShown)
<1> SUFFICES ASSUME ~Dpms, ~EventsFail, VSync \/ ~RenderSync
             PROVE  Spec => []RenderedBeforeShown
  OBVIOUS
<1>1. Joined /\ Display => RenderedBeforeShown
  <2> SUFFICES ASSUME Joined, Display, Up, NEW id \in syncEv, NEW o \in on, ~reqs[id].dead
               PROVE  reqs[id].back \notin {scan[o], pan[o]}
    BY DEF RenderedBeforeShown
  <2>1. TypeOK /\ LifeCycle /\ Ring /\ VSync /\ id \in ReqIds /\ reqs[id].type = "flip"
    BY DEF Joined, TypeOK, Display, SyncedFlips
  <2>2. reqs[id].used /\ ~reqs[id].issued
    BY <2>1, EventsIssued
  <2>3. id \in QFlips /\ id \in Unissued
    <3>1. id \in Elems(queue)
      BY <2>1, <2>2 DEF LifeCycle, QueueIsLive
    <3> QED  BY <2>1, <2>2, <3>1 DEF QFlips, Unissued
  <2>4. \A x \in QFlips : x = id \/ Before(queue, x, id) =>
          reqs[x].front # reqs[id].back
    <3> SUFFICES ASSUME NEW x \in QFlips, x = id \/ Before(queue, x, id),
                        reqs[x].front = reqs[id].back
                 PROVE  FALSE
      OBVIOUS
    <3>1. CASE reqs[id].back = pf.front
      BY <2>1, <3>1 DEF Ring, FrontsApart
    <3>2. ASSUME NEW y \in QFlips, Before(queue, id, y), reqs[y].front = reqs[id].back PROVE FALSE
      <4>1. x = y
        BY <2>1, <3>2 DEF Ring, FrontsApart
      <4> QED  BY <2>1, <2>3, <3>2, <4>1, BeforeOrder DEF QFlips, TypeOK, LifeCycle, QueueIsLive
    <3> QED  BY <2>1, <2>3, <3>1, <3>2, FlipShows
  <2>5. pan[o] # reqs[id].back
    <3>1. PICK y \in Unissued : reqs[y].front = pan[o] /\ ~Before(queue, id, y)
      BY <2>1, <2>3 DEF Display, PanExact
    <3>2. y \in QFlips /\ (y = id \/ Before(queue, y, id))
      BY <2>1, <2>3, <3>1, BeforeOrder DEF QFlips, Unissued, TypeOK, LifeCycle, QueueIsLive
    <3> QED  BY <2>4, <3>1, <3>2
  <2>6. scan[o] # reqs[id].back
    <3>1. reqs[id].back # NoScan
      BY <2>1, <2>3, NextBufType, FlipAssumption DEF Ring, FormsHold, Form, QFlips, NoScan, Buf
    <3>2. ASSUME NEW y \in QFlips, o \in flipEv[y] PROVE reqs[y].front # reqs[id].back
      <4>1. y \in Elems(queue) /\ y \in ReqIds
        BY <2>1 DEF QFlips, LifeCycle, QueueIsLive, TypeOK
      <4>2. reqs[y].issued
        BY <2>1, <3>2, <4>1, EventsIssued
      <4>3. Before(queue, y, id)
        BY <2>1, <2>2, <2>3, <4>1, <4>2, IssuedLeads DEF QFlips
      <4> QED  BY <2>4, <4>3
    <3> QED  BY <2>1, <2>5, <3>1, <3>2 DEF Display, ScanExact
  <2> QED  BY <2>5, <2>6
<1> QED  BY <1>1, DisplayInOrder, PTL

-----------------------------------------------------------------------------
(***************************************************************************)
(* Damage.  A drawn area is either about to be damaged by the call that is *)
(* next, or carried by a request in the queue that was not flipped yet.    *)
(***************************************************************************)
Carries(r, a) == ~r.flipped /\ (r.type = "flip" \/ a \in r.region)

Covered ==
  \A a \in stale : \/ stack # <<>> /\ a \in Head(stack).region
                   \/ \E x \in Elems(queue) : Carries(reqs[x], a)

(***************************************************************************)
(* A flip without vsync, where no render is waited for either, runs to its *)
(* end at once, so that the window that it damages still exists.           *)
(***************************************************************************)
FlipsRun ==
  VSync \/ \A x \in QFlips : OnStack(x) /\ flipEv[x] = {} /\ reqs[x].draw \in alive

DamageKept == Up => (stale # {} => ExtFB) /\ Covered /\ FlipsRun

(* What a handler does to a request that it does not flip. *)
Work(r, q) ==
  /\ q.type = r.type /\ q.draw = r.draw /\ q.flipped = r.flipped
  /\ r.region \subseteq q.region

(* It goes on to carry its damage. *)
LEMMA WorkCarries ==
  ASSUME NEW r, NEW q, Work(r, q), NEW a, Carries(r, a)
  PROVE  Carries(q, a)
BY DEF Work, Carries

(* It may be rendered, issued, counted, completed or merged with more damage. *)
LEMMA Worked ==
  ASSUME NEW r \in SwapRequest, NEW q,
         \/ q = r
         \/ q = [r EXCEPT !.rendered = TRUE]
         \/ q = [r EXCEPT !.completed = TRUE]
         \/ \E n : q = [r EXCEPT !.num = n]
         \/ \E n : q = [r EXCEPT !.issued = TRUE, !.num = n]
         \/ \E v : q = [r EXCEPT !.region = v] /\ r.region \subseteq v
  PROVE  Work(r, q)
<1>1. CASE q = r \/ q = [r EXCEPT !.rendered = TRUE] \/ q = [r EXCEPT !.completed = TRUE]
  BY <1>1 DEF SwapRequest, Work
<1>2. ASSUME NEW n, q = [r EXCEPT !.num = n] \/ q = [r EXCEPT !.issued = TRUE, !.num = n]
      PROVE  Work(r, q)
  BY <1>2 DEF SwapRequest, Work
<1>3. ASSUME NEW v, q = [r EXCEPT !.region = v], r.region \subseteq v
      PROVE  Work(r, q)
  BY <1>3 DEF SwapRequest, Work
<1> QED  BY <1>1, <1>2, <1>3

(* sync_handler *)
LEMMA SyncHandlerWork ==
  ASSUME TypeOK, LifeCycle, SyncHandler
  PROVE  \A x \in Elems(queue) : Work(reqs[x], reqs'[x])
<1>1. PICK id \in ReqIds : id = Head(stack).id
  BY RunningCall DEF SyncHandler
<1>2. reqs' = IF reqs[id].dead THEN WithReq(id, FreeRequest)
              ELSE WithReq(id, [reqs[id] EXCEPT !.rendered = TRUE])
  BY <1>1 DEF SyncHandler, WithReq, WithoutReq
<1> SUFFICES ASSUME NEW x \in Elems(queue) PROVE Work(reqs[x], reqs'[x])
  OBVIOUS
<1>3. x \in ReqIds /\ ~reqs[x].dead /\ reqs[x] \in SwapRequest
  BY DEF LifeCycle, QueueIsLive, TypeOK
<1>4. reqs'[x] = reqs[x] \/ reqs'[x] = [reqs[x] EXCEPT !.rendered = TRUE]
  <2>1. CASE x # id
    BY <1>2, <1>3, <2>1, WithReqValues
  <2>2. CASE x = id
    <3>1. reqs' = WithReq(x, [reqs[x] EXCEPT !.rendered = TRUE])
      BY <1>2, <1>3, <2>2
    <3> QED  BY <3>1, <1>3, WithReqValues
  <2> QED  BY <2>1, <2>2
<1> QED  BY <1>3, <1>4, Worked

(* flip_swap_req *)
LEMMA FlipSwapReqWork ==
  ASSUME TypeOK, LifeCycle, FlipSwapReq
  PROVE  \A x \in Elems(queue) : Work(reqs[x], reqs'[x])
<1>1. PICK id \in ReqIds : id = Head(stack).id
  BY RunningCall DEF FlipSwapReq
<1>2. PICK num : reqs' = WithReq(id, [reqs[id] EXCEPT !.issued = TRUE, !.num = num])
  BY <1>1 DEF FlipSwapReq
<1> SUFFICES ASSUME NEW x \in Elems(queue) PROVE Work(reqs[x], reqs'[x])
  OBVIOUS
<1>3. x \in ReqIds /\ reqs[x] \in SwapRequest
  BY DEF LifeCycle, QueueIsLive, TypeOK
<1>4. reqs'[x] = reqs[x] \/ reqs'[x] = [reqs[x] EXCEPT !.issued = TRUE, !.num = num]
  <2>1. CASE x # id
    BY <1>2, <1>3, <2>1, WithReqValues
  <2>2. CASE x = id
    BY <1>2, <1>3, <2>2, WithReqValues
  <2> QED  BY <2>1, <2>2
<1> QED  BY <1>3, <1>4, Worked

(* The rest of flip_handler: the flipped request leaves the queue. *)
LEMMA FlipDoneWork ==
  ASSUME TypeOK, LifeCycle, FlipDone
  PROVE  LET id == Head(stack).id
         IN  /\ id \in ReqIds /\ reqs[id].flipped
             /\ Elems(queue') = Elems(queue) \ {id}
             /\ \A x \in Elems(queue) \ {id} : Work(reqs[x], reqs'[x])
<1>1. PICK id \in ReqIds : id = Head(stack).id /\ Flipped(id)
  <2>1. Running("flip_done")
    BY DEF FlipDone
  <2> QED  BY <2>1, RunningCall DEF CallReady
<1>2. PICK c : reqs' = [i \in ReqIds |->
                          IF i = id THEN FreeRequest
                          ELSE IF i = c THEN [reqs[i] EXCEPT !.completed = TRUE] ELSE reqs[i]]
  BY <1>1 DEF FlipDone
<1>3. queue' = Unlink(queue, id) /\ reqs[id].flipped
  BY <1>1 DEF FlipDone, Flipped
<1>4. Elems(queue') = Elems(queue) \ {id}
  BY <1>3, UnlinkOrder DEF TypeOK, LifeCycle, QueueIsLive
<1>5. ASSUME NEW x \in Elems(queue), x # id PROVE Work(reqs[x], reqs'[x])
  <2>1. x \in ReqIds /\ reqs[x] \in SwapRequest
    BY DEF LifeCycle, QueueIsLive, TypeOK
  <2>2. reqs'[x] = reqs[x] \/ reqs'[x] = [reqs[x] EXCEPT !.completed = TRUE]
    BY <1>2, <1>5, <2>1
  <2> QED  BY <2>1, <2>2, Worked
<1> QED  BY <1>1, <1>3, <1>4, <1>5

(* Damage is merged into a request that was not flipped, or gets one of its own. *)
LEMMA ScheduleDamageWork ==
  ASSUME Joined, ScheduleDamage
  PROVE  /\ \A x \in Elems(queue) : x \in Elems(queue') /\ Work(reqs[x], reqs'[x])
         /\ QFlips' = QFlips
         /\ \A a \in Head(stack).region : \E x \in Elems(queue') : Carries(reqs'[x], a)
<1> DEFINE region == Head(stack).region
           id     == MergeInto(region)
<1>1. /\ NoRepeat(queue) /\ queue \in Seq(ReqIds) /\ Elems(queue) \subseteq ReqIds
      /\ reqs \in [ReqIds -> SwapRequest] /\ \A x \in Elems(queue) : reqs[x].used
      /\ TypeOK /\ LifeCycle
  BY DEF Joined, TypeOK, LifeCycle, QueueIsLive
<1>2. CASE id # 0 /\ reqs' = WithReq(id, [reqs[id] EXCEPT !.region = @ \cup region])
           /\ queue' = queue
  <2>1. PICK y \in ReqIds : y = id /\ y \in Elems(queue) /\ reqs[y].update = pf.front
    <3> DEFINE S == {i \in Used : reqs[i].update = pf.front}
    <3>1. FirstIn(queue, S) # 0 /\ id = FirstIn(queue, S)
      BY <1>2 DEF MergeInto, FindByUpdate
    <3>2. id \in Elems(queue) /\ id \in S
      BY <1>1, <3>1, FirstInFound
    <3> QED  BY <1>1, <3>2
  <2>2. ~reqs[y].flipped
    <3>1. CASE ~OnStack(y)
      BY <1>1, <2>1, <3>1 DEF LifeCycle, OthersRest, Resting
    <3>2. CASE OnStack(y)
      <4>1. PICK i \in 1 .. Len(stack) : stack[i].id = y
        BY <3>2 DEF OnStack
      <4>2. stack # <<>> /\ Len(stack) \in {1, 2} /\ Head(stack) = stack[1] /\ Head(stack).id = 0
        BY <1>1, RunningCall, StackApart DEF ScheduleDamage, LifeCycle
      <4>3. i = 2 /\ Len(stack) = 2
        BY <4>1, <4>2 DEF ReqIds
      <4>4. reqs[y].update = SWAP_INVALID_IDX
        BY <1>1, <4>1, <4>3 DEF LifeCycle, StackInOrder
      <4>5. pf.front \in Buf
        BY <1>1 DEF TypeOK, FlipState
      <4> QED  BY <2>1, <4>4, <4>5, FlipAssumption DEF SWAP_INVALID_IDX, Buf
    <3> QED  BY <3>1, <3>2
  <2>3. PICK v : v = reqs[y].region \cup region
    OBVIOUS
  <2>4. reqs'[y] = [reqs[y] EXCEPT !.region = v] /\ \A x \in ReqIds \ {y} : reqs'[x] = reqs[x]
    <3>1. PICK r : r = [reqs[y] EXCEPT !.region = v]
      OBVIOUS
    <3>2. reqs' = WithReq(y, r)
      BY <1>2, <2>1, <2>3, <3>1
    <3> QED  BY <1>1, <3>1, <3>2, WithReqValues
  <2>5. \A x \in Elems(queue) : Work(reqs[x], reqs'[x])
    <3>1. Work(reqs[y], reqs'[y])
      <4>1. reqs[y] \in SwapRequest /\ reqs[y].region \subseteq v
        BY <1>1, <2>3
      <4> QED  BY <2>4, <4>1, Worked
    <3>2. \A x \in ReqIds \ {y} : Work(reqs[x], reqs'[x])
      BY <1>1, <2>4, Worked
    <3> QED  BY <1>1, <3>1, <3>2
  <2>6. QFlips' = QFlips
    BY <1>2, <2>5 DEF QFlips, Work
  <2>7. \A a \in region : Carries(reqs'[y], a)
    <3>1. reqs'[y].region = v /\ ~reqs'[y].flipped
      BY <1>1, <2>2, <2>4 DEF SwapRequest
    <3> QED  BY <2>3, <3>1 DEF Carries
  <2> QED  BY <1>2, <2>1, <2>5, <2>6, <2>7
<1>3. ASSUME id = 0, Free # {}, reqs' = WithReq(NewId, NewUpdate(region)),
             queue' = Append(queue, NewId)
      PROVE  /\ \A x \in Elems(queue) : x \in Elems(queue') /\ Work(reqs[x], reqs'[x])
             /\ QFlips' = QFlips
             /\ \A a \in region : \E x \in Elems(queue') : Carries(reqs'[x], a)
  <2>1. PICK n \in ReqIds : n = NewId /\ ~reqs[n].used
    BY <1>1, <1>3, NewIdFree
  <2>2. reqs'[n] = NewUpdate(region) /\ \A x \in ReqIds \ {n} : reqs'[x] = reqs[x]
    BY <1>1, <1>3, <2>1, WithReqValues
  <2>3. n \notin Elems(queue) /\ \A x \in Elems(queue) : reqs'[x] = reqs[x]
    BY <1>1, <2>1, <2>2
  <2>4. Elems(queue') = Elems(queue) \cup {n}
    BY <1>1, <1>3, <2>1, <2>3, AppendOrder
  <2>5. reqs'[n].type = "extfb" /\ ~reqs'[n].flipped /\ reqs'[n].region = region
    BY <2>2 DEF NewUpdate
  <2>6. QFlips' = QFlips
    BY <2>3, <2>4, <2>5 DEF QFlips
  <2>7. \A x \in Elems(queue) : Work(reqs[x], reqs'[x])
    BY <1>1, <2>3, Worked
  <2>8. \A a \in region : Carries(reqs'[n], a)
    BY <2>5 DEF Carries
  <2> QED  BY <2>4, <2>6, <2>7, <2>8
<1> QED  BY <1>2, <1>3 DEF ScheduleDamage

-----------------------------------------------------------------------------
(* An outer call is left as it is when the innermost returns or calls another. *)
LEMMA StillOnStack ==
  ASSUME TypeOK, LifeCycle, stack # <<>>, NEW x, OnStack(x), x # Head(stack).id,
         stack' = Tail(stack) \/ \E f \in Frame : stack' = <<f>> \o Tail(stack)
  PROVE  OnStack(x)'
<1>1. PICK i \in 1 .. Len(stack) : stack[i].id = x
  BY DEF OnStack
<1>2. Len(stack) = 2 /\ stack[2].id = x
  <2>1. Len(stack) \in {1, 2} /\ Head(stack) = stack[1]
    BY StackApart DEF LifeCycle
  <2> QED  BY <1>1, <2>1
<1>3. Tail(stack) \in Seq(Frame) /\ Len(Tail(stack)) = 1 /\ Tail(stack)[1].id = x
  BY <1>2, StackSteps DEF TypeOK
<1>4. CASE stack' = Tail(stack)
  BY <1>3, <1>4 DEF OnStack
<1>5. ASSUME NEW f \in Frame, stack' = <<f>> \o Tail(stack) PROVE OnStack(x)'
  <2>1. Len(stack') = 2 /\ stack'[2].id = x
    BY <1>2, <1>5, ReplaceOne DEF TypeOK
  <2> QED  BY <2>1 DEF OnStack
<1> QED  BY <1>4, <1>5

(* A call that is pushed is on the stack. *)
LEMMA PushedOnStack ==
  ASSUME TypeOK, LifeCycle, stack # <<>>, NEW f \in Frame, stack' = <<f>> \o Tail(stack)
  PROVE  OnStack(f.id)' /\ stack' # <<>> /\ Head(stack') = f
<1>1. Len(stack') = Len(stack) /\ stack'[1] = f /\ Len(stack) \in {1, 2}
  BY ReplaceOne, StackApart DEF TypeOK, LifeCycle, StackInOrder
<1>2. stack' \in Seq(Frame)
  BY StackTypes DEF TypeOK
<1> QED  BY <1>1, <1>2 DEF OnStack

(* A flip of a window without vsync runs alone. *)
LEMMA RunsAlone ==
  ASSUME Joined, Up, ~VSync, FlipsRun, stack # <<>>, NEW id \in QFlips, id = Head(stack).id
  PROVE  Len(stack) = 1 /\ QFlips = {id} /\ reqs[id].update = SWAP_INVALID_IDX
<1>1. TypeOK /\ LifeCycle /\ reqs[id].update = SWAP_INVALID_IDX
  BY DEF Joined, Ring, FormsHold, Form, QFlips
<1>2. id \in ReqIds
  BY <1>1 DEF LifeCycle, QueueIsLive, QFlips
<1>3. Len(stack) \in {1, 2} /\ Head(stack) = stack[1] /\ stack[1] \in Frame
  BY <1>1, StackApart, StackSteps DEF TypeOK, LifeCycle, StackInOrder
<1>4. stack[1].call # "schedule_damage"
  BY <1>2, <1>3 DEF Frame, ReqIds
<1>5. Len(stack) = 1
  BY <1>1, <1>3, <1>4 DEF LifeCycle, StackInOrder
<1>6. QFlips = {id}
  BY <1>3, <1>5 DEF FlipsRun, OnStack
<1> QED  BY <1>1, <1>5, <1>6

(* The step of a flip that runs leaves it on the stack, or it leaves the queue. *)
LEMMA FlipsRunOn ==
  ASSUME Joined, Up, FlipsRun, alive' = alive, QFlips' \subseteq QFlips, stack # <<>>,
         \A x \in QFlips' : flipEv'[x] \subseteq flipEv[x] /\ reqs'[x].draw = reqs[x].draw,
         \/ stack' = Tail(stack) /\ Head(stack).id \notin QFlips'
         \/ \E f \in Frame : /\ stack' = <<f>> \o Tail(stack)
                             /\ Head(stack).id \in QFlips' => f.id = Head(stack).id
  PROVE  FlipsRun'
<1> SUFFICES ASSUME ~VSync, NEW x \in QFlips'
             PROVE  (OnStack(x))' /\ flipEv'[x] = {} /\ reqs'[x].draw \in alive
  BY DEF FlipsRun
<1>1. OnStack(x) /\ flipEv[x] = {} /\ reqs[x].draw \in alive
  BY DEF FlipsRun
<1>2. TypeOK /\ LifeCycle
  BY DEF Joined
<1>3. CASE x = Head(stack).id
  BY <1>1, <1>2, <1>3, PushedOnStack
<1>4. CASE x # Head(stack).id
  BY <1>1, <1>2, <1>4, StillOnStack
<1> QED  BY <1>1, <1>3, <1>4

(* Requests that go on to carry their damage, under a call that has none. *)
LEMMA CoverKept ==
  ASSUME Covered, stale' \subseteq stale, stack = <<>> \/ Head(stack).region = {},
         \A x \in Elems(queue) : \/ reqs[x].flipped
                                 \/ x \in Elems(queue') /\ Work(reqs[x], reqs'[x])
  PROVE  Covered'
<1> SUFFICES ASSUME NEW a \in stale
             PROVE  \E x \in Elems(queue') : Carries(reqs'[x], a)
  BY DEF Covered
<1>1. PICK x \in Elems(queue) : Carries(reqs[x], a)
  BY DEF Covered
<1>2. x \in Elems(queue') /\ Work(reqs[x], reqs'[x])
  BY <1>1 DEF Carries
<1> QED  BY <1>1, <1>2, WorkCarries

(* A call other than schedule_damage has no region. *)
LEMMA CallsWithout ==
  ASSUME TypeOK, LifeCycle, NEW call, Running(call), call # "schedule_damage"
  PROVE  stack # <<>> /\ Head(stack).region = {} /\ Head(stack) \in Frame /\ Up
<1>1. stack # <<>> /\ Head(stack).call = call
  BY DEF Running
<1>2. Head(stack) \in Frame
  BY <1>1, StackTypes DEF TypeOK
<1> QED  BY <1>1, <1>2 DEF Frame, Running

-----------------------------------------------------------------------------
(* sync_handler: without vsync it goes on with the flip that was rendered. *)
LEMMA SyncHandlerDamage ==
  ASSUME Joined, DamageKept, SyncHandler
  PROVE  DamageKept'
<1>1. PICK id \in ReqIds : id = Head(stack).id
  BY RunningCall DEF Joined, SyncHandler
<1> DEFINE r  == reqs[id]
           rs == WithReq(id, [r EXCEPT !.rendered = TRUE])
<1>2. /\ UNCHANGED <<alive, queue, flipEv, stale>>
      /\ reqs' = (IF r.dead THEN WithoutReq(id) ELSE rs)
      /\ stack' = IF ~r.dead /\ FindNextFlip(rs, queue, r) = id
                    THEN <<Call("flip_swap_req", id)>> \o Tail(stack)
                    ELSE Tail(stack)
  BY <1>1 DEF SyncHandler
<1>3. /\ TypeOK /\ LifeCycle /\ Up /\ Covered /\ FlipsRun /\ (stale # {} => ExtFB)
      /\ stack # <<>> /\ Head(stack).region = {}
  BY CallsWithout DEF Joined, SyncHandler, DamageKept, Running
<1>4. \A x \in Elems(queue) : Work(reqs[x], reqs'[x])
  BY <1>3, SyncHandlerWork
<1>5. QFlips' = QFlips /\ QFlips \subseteq Elems(queue)
  BY <1>2, <1>4 DEF QFlips, Work
<1>6. Covered'
  BY <1>2, <1>3, <1>4, CoverKept
<1>7. CASE VSync
  BY <1>2, <1>3, <1>6, <1>7 DEF DamageKept, FlipsRun
<1>8. CASE ~VSync /\ id \notin QFlips
  <2>1. \/ stack' = Tail(stack)
        \/ stack' = <<Call("flip_swap_req", id)>> \o Tail(stack)
    BY <1>2
  <2>2. \/ stack' = Tail(stack) /\ Head(stack).id \notin QFlips'
        \/ \E f \in Frame : stack' = <<f>> \o Tail(stack) /\ Head(stack).id \notin QFlips'
    BY <1>1, <1>5, <1>8, <2>1, FrameTypes
  <2>3. FlipsRun'
    BY <1>2, <1>3, <1>4, <1>5, <2>2, FlipsRunOn DEF Work
  <2> QED  BY <1>2, <1>3, <1>6, <2>3 DEF DamageKept
<1>9. CASE ~VSync /\ id \in QFlips
  <2>1. QFlips = {id} /\ r.update = SWAP_INVALID_IDX
    BY <1>1, <1>3, <1>9, RunsAlone
  <2>2. r \in SwapRequest /\ ~r.dead /\ queue \in Seq(ReqIds) /\ NoRepeat(queue)
        /\ Elems(queue) \subseteq ReqIds
    BY <1>3, <1>5, <1>9 DEF TypeOK, LifeCycle, QueueIsLive
  <2>3. rs[id].rendered /\ rs[id].update = r.update /\ \A x \in ReqIds \ {id} : rs[x] = reqs[x]
    <3>1. rs[id] = [r EXCEPT !.rendered = TRUE] /\ \A x \in ReqIds \ {id} : rs[x] = reqs[x]
      BY <1>3, WithReqValues
    <3> HIDE DEF rs
    <3> QED  BY <2>2, <3>1 DEF SwapRequest
  <2> HIDE DEF rs
  <2>4. FindNextFlip(rs, queue, r) = id
    <3> DEFINE S == {i \in ReqIds : SameClass(r, rs[i])}
    <3>1. \A x \in Elems(queue) \cap S : x = id
      <4> SUFFICES ASSUME NEW x \in Elems(queue), x \in S, x # id PROVE FALSE
        OBVIOUS
      <4>1. reqs[x].update = SWAP_INVALID_IDX
        BY <2>1, <2>2, <2>3 DEF SameClass
      <4>2. Form(reqs[x])
        BY <1>3 DEF Joined, Ring, FormsHold
      <4>3. x \in QFlips
        BY <4>1, <4>2 DEF Form, QFlips
      <4> QED  BY <2>1, <4>3
    <3>2. id \in Elems(queue) \cap S
      BY <1>5, <1>9, <2>3 DEF SameClass
    <3>3. \A y \in S : ~Before(queue, y, id)
      BY <2>2, <3>1, BeforeOrder
    <3>4. FirstIn(queue, S) = id
      BY <2>2, <3>2, <3>3, FirstInFinds
    <3>5. id # 0
      BY DEF ReqIds
    <3> QED  BY <2>3, <3>4, <3>5 DEF FindNextFlip
  <2>5. stack' = <<Call("flip_swap_req", id)>> \o Tail(stack)
    BY <1>2, <2>2, <2>4
  <2>6. Call("flip_swap_req", id) \in Frame /\ Call("flip_swap_req", id).id = id
    BY FrameTypes DEF Call
  <2>7. FlipsRun'
    BY <1>1, <1>2, <1>3, <1>4, <1>5, <2>5, <2>6, FlipsRunOn DEF Work
  <2> QED  BY <1>2, <1>3, <1>6, <2>7 DEF DamageKept
<1> QED  BY <1>7, <1>8, <1>9

(* flip_swap_req: a flip carries all that it damages. *)
LEMMA FlipSwapReqDamage ==
  ASSUME Joined, DamageKept, FlipSwapReq
  PROVE  DamageKept'
<1>1. PICK id \in ReqIds : id = Head(stack).id /\ FlipReady(id)
  BY RunningCall DEF Joined, FlipSwapReq, CallReady
<1> DEFINE r == reqs[id]
<1>2. /\ TypeOK /\ LifeCycle /\ Up /\ Covered /\ FlipsRun /\ (stale # {} => ExtFB)
      /\ stack # <<>> /\ Head(stack).region = {}
  BY CallsWithout DEF Joined, FlipSwapReq, DamageKept, Running
<1>3. PICK got \in SUBSET Awaited(r) :
        /\ flipEv' = [flipEv EXCEPT ![id] = got]
        /\ stack' = IF got = {} THEN <<Call("flip_handler", id)>> \o Tail(stack)
                    ELSE Tail(stack)
  BY <1>1 DEF FlipSwapReq
<1>4. /\ UNCHANGED <<alive, queue>>
      /\ stale' = IF r.back # SWAP_INVALID_IDX /\ ExtFB THEN Areas ELSE stale
  BY <1>1 DEF FlipSwapReq
<1>5. \A x \in Elems(queue) : Work(reqs[x], reqs'[x])
  BY <1>2, FlipSwapReqWork
<1>6. QFlips' = QFlips /\ QFlips \subseteq Elems(queue)
  BY <1>4, <1>5 DEF QFlips, Work
<1>7. id \in Elems(queue) /\ ~r.flipped /\ Form(r)
  BY <1>1, <1>2 DEF FlipReady, LifeCycle, QueueIsLive, Joined, Ring, FormsHold
<1>8. Covered' /\ (stale' # {} => ExtFB)
  <2>1. CASE r.back # SWAP_INVALID_IDX /\ ExtFB
    <3>1. r.type = "flip"
      BY <1>7, <2>1 DEF Form
    <3>2. reqs'[id].type = "flip" /\ ~reqs'[id].flipped
      BY <1>5, <1>7, <3>1 DEF Work
    <3>3. ExtFB'
      BY <2>1 DEF ExtFB
    <3> QED  BY <1>4, <1>7, <3>2, <3>3 DEF Covered, Carries
  <2>2. CASE ~(r.back # SWAP_INVALID_IDX /\ ExtFB)
    <3>1. stale' = stale
      BY <1>4, <2>2
    <3> QED  BY <1>2, <1>4, <1>5, <3>1, CoverKept
  <2> QED  BY <2>1, <2>2
<1>9. CASE VSync
  BY <1>8, <1>9 DEF DamageKept, FlipsRun
<1>10. CASE ~VSync /\ id \notin QFlips
  <2>1. \A x \in QFlips : flipEv'[x] = flipEv[x] /\ reqs'[x].draw = reqs[x].draw
    BY <1>2, <1>3, <1>5, <1>6, <1>10 DEF Work, TypeOK, LifeCycle, QueueIsLive
  <2>2. \/ stack' = Tail(stack) /\ Head(stack).id \notin QFlips'
        \/ \E f \in Frame : stack' = <<f>> \o Tail(stack) /\ Head(stack).id \notin QFlips'
    BY <1>1, <1>3, <1>6, <1>10, FrameTypes
  <2>3. FlipsRun'
    BY <1>2, <1>4, <1>6, <2>1, <2>2, FlipsRunOn
  <2> QED  BY <1>8, <2>3 DEF DamageKept
<1>11. CASE ~VSync /\ id \in QFlips
  <2>1. QFlips = {id} /\ r.update = SWAP_INVALID_IDX
    BY <1>1, <1>2, <1>11, RunsAlone
  <2>2. got = {}
    BY <1>3, <2>1 DEF Awaited
  <2>3. flipEv'[id] = {} /\ stack' = <<Call("flip_handler", id)>> \o Tail(stack)
    BY <1>2, <1>3, <2>2 DEF TypeOK
  <2>4. Call("flip_handler", id) \in Frame /\ Call("flip_handler", id).id = id
    BY FrameTypes DEF Call
  <2>5. \A x \in QFlips : flipEv'[x] \subseteq flipEv[x] /\ reqs'[x].draw = reqs[x].draw
    BY <1>5, <1>6, <2>1, <2>3 DEF Work
  <2>6. FlipsRun'
    BY <1>1, <1>2, <1>4, <1>6, <2>3, <2>4, <2>5, FlipsRunOn
  <2> QED  BY <1>8, <2>6 DEF DamageKept
<1> QED  BY <1>9, <1>10, <1>11

(* The rest of flip_handler removes a request that has nothing left to carry. *)
LEMMA FlipDoneDamage ==
  ASSUME Joined, DamageKept, FlipDone
  PROVE  DamageKept'
<1> DEFINE id == Head(stack).id
<1>0. Running("flip_done")
  BY DEF FlipDone
<1>1. /\ TypeOK /\ LifeCycle /\ Up /\ Covered /\ FlipsRun /\ (stale # {} => ExtFB)
      /\ stack # <<>> /\ Head(stack).region = {}
  BY <1>0, CallsWithout DEF Joined, DamageKept
<1>2. /\ id \in ReqIds /\ reqs[id].flipped
      /\ Elems(queue') = Elems(queue) \ {id}
      /\ \A x \in Elems(queue) \ {id} : Work(reqs[x], reqs'[x])
  BY <1>1, FlipDoneWork
<1>3. UNCHANGED <<alive, flipEv, stale>>
  BY DEF FlipDone
<1>4. PICK next \in ReqIds \cup {0} :
        stack' = IF next = 0 THEN Tail(stack)
                 ELSE <<Call("flip_swap_req", next)>> \o Tail(stack)
  <2>1. PICK rs, q, r :
          /\ q = Unlink(queue, id)
          /\ stack' = IF FindNextFlip(rs, q, r) = 0 THEN Tail(stack)
                      ELSE <<Call("flip_swap_req", FindNextFlip(rs, q, r))>> \o Tail(stack)
    BY DEF FlipDone
  <2>2. q \in Seq(ReqIds)
    BY <1>1, <2>1, UnlinkType DEF TypeOK
  <2> QED  BY <2>1, <2>2, FindTypes
<1>5. Covered'
  BY <1>1, <1>2, <1>3, CoverKept
<1>6. QFlips' = QFlips \ {id} /\ QFlips \subseteq Elems(queue)
  BY <1>2 DEF QFlips, Work
<1>7. \A x \in QFlips' : flipEv'[x] = flipEv[x] /\ reqs'[x].draw = reqs[x].draw
  BY <1>2, <1>3, <1>6 DEF Work
<1>8. \/ stack' = Tail(stack) /\ id \notin QFlips'
      \/ \E f \in Frame : stack' = <<f>> \o Tail(stack) /\ id \notin QFlips'
  <2>1. id \notin QFlips'
    BY <1>6
  <2> QED  BY <1>4, <2>1, FrameTypes
<1>9. FlipsRun'
  BY <1>1, <1>3, <1>6, <1>7, <1>8, FlipsRunOn
<1> QED  BY <1>1, <1>3, <1>5, <1>9 DEF DamageKept

(* What is damaged is carried by a request from now on. *)
LEMMA ScheduleDamageDamage ==
  ASSUME Joined, DamageKept, ScheduleDamage
  PROVE  DamageKept'
<1>1. /\ TypeOK /\ LifeCycle /\ Up /\ Covered /\ FlipsRun /\ (stale # {} => ExtFB)
      /\ stack # <<>> /\ Head(stack).id = 0
  BY RunningCall DEF Joined, ScheduleDamage, DamageKept, Running
<1>2. UNCHANGED <<alive, flipEv, stale>>
  BY DEF ScheduleDamage
<1>3. /\ \A x \in Elems(queue) : x \in Elems(queue') /\ Work(reqs[x], reqs'[x])
      /\ QFlips' = QFlips
      /\ \A a \in Head(stack).region : \E x \in Elems(queue') : Carries(reqs'[x], a)
  BY ScheduleDamageWork
<1>4. Covered'
  <2> SUFFICES ASSUME NEW a \in stale PROVE \E x \in Elems(queue') : Carries(reqs'[x], a)
    BY <1>2 DEF Covered
  <2>1. ASSUME NEW x \in Elems(queue), Carries(reqs[x], a)
        PROVE  x \in Elems(queue') /\ Carries(reqs'[x], a)
    BY <1>3, <2>1, WorkCarries
  <2> QED  BY <1>1, <1>3, <2>1 DEF Covered
<1>5. QFlips \subseteq ReqIds /\ QFlips \subseteq Elems(queue)
  BY <1>1 DEF QFlips, LifeCycle, QueueIsLive
<1>6. \/ stack' = Tail(stack) /\ Head(stack).id \notin QFlips'
      \/ \E f \in Frame : stack' = <<f>> \o Tail(stack) /\ Head(stack).id \notin QFlips'
  <2>1. Head(stack).id \notin QFlips'
    BY <1>1, <1>3, <1>5 DEF ReqIds
  <2>2. \/ stack' = Tail(stack)
        \/ NewId \in ReqIds /\ stack' = <<Call("flip_swap_req", NewId)>> \o Tail(stack)
    BY <1>1, NewIdFree DEF ScheduleDamage
  <2> QED  BY <2>1, <2>2, FrameTypes
<1>7. FlipsRun'
  BY <1>1, <1>2, <1>3, <1>5, <1>6, FlipsRunOn DEF Work
<1> QED  BY <1>1, <1>2, <1>4, <1>7 DEF DamageKept

(***************************************************************************)
(* flip_handler: all that was drawn is shown by a flip, and what its       *)
(* region names by an update.  A flip without vsync leaves it to the       *)
(* damage of its window, which still exists.                               *)
(***************************************************************************)
LEMMA FlipHandlerDamage ==
  ASSUME Joined, DamageKept, FlipHandler
  PROVE  DamageKept'
<1>1. Running("flip_handler")
  BY DEF FlipHandler
<1>2. PICK id \in ReqIds : id = Head(stack).id /\ Flipping(id)
  BY <1>1, RunningCall DEF Joined, CallReady
<1> DEFINE r == reqs[id]
<1>3. /\ TypeOK /\ LifeCycle /\ Up /\ Covered /\ FlipsRun /\ (stale # {} => ExtFB)
      /\ stack # <<>> /\ Head(stack).region = {}
  BY <1>1, CallsWithout DEF Joined, DamageKept
<1>4. UNCHANGED <<alive, queue, flipEv>>
  BY DEF FlipHandler
<1>5. r \in SwapRequest /\ Elems(queue) \subseteq ReqIds /\ QFlips \subseteq Elems(queue)
      /\ \A x \in Elems(queue) : reqs[x] \in SwapRequest /\ ~reqs[x].dead
  BY <1>3 DEF TypeOK, LifeCycle, QueueIsLive, QFlips
<1>6. ExtFB' = ExtFB
  BY DEF ExtFB
<1>7. CASE ~LastEvent(r) /\ reqs' = WithReq(id, [r EXCEPT !.num = @ - 1]) /\ stack' = Tail(stack)
           /\ stale' = stale
  <2>1. PICK n : n = r.num - 1
    OBVIOUS
  <2>2. reqs'[id] = [r EXCEPT !.num = n] /\ \A x \in ReqIds \ {id} : reqs'[x] = reqs[x]
    BY <1>3, <1>7, <2>1, WithReqValues
  <2>3. \A x \in Elems(queue) : Work(reqs[x], reqs'[x])
    <3>1. Work(r, reqs'[id])
      BY <1>5, <2>2, Worked
    <3>2. \A x \in Elems(queue) \ {id} : Work(reqs[x], reqs'[x])
      BY <1>5, <2>2, Worked
    <3> QED  BY <3>1, <3>2
  <2>4. Covered'
    BY <1>3, <1>4, <1>7, <2>3, CoverKept
  <2>5. QFlips' = QFlips
    BY <1>4, <2>3 DEF QFlips, Work
  <2>6. VSync \/ id \notin QFlips
    <3> SUFFICES ASSUME ~VSync, id \in QFlips PROVE FALSE
      OBVIOUS
    <3>1. flipEv[id] = {}
      BY <1>3 DEF FlipsRun
    <3>2. r.num = 0 + 1
      BY <1>2, <3>1, EventCount DEF Flipping
    <3> QED  BY <1>7, <3>2 DEF LastEvent
  <2>7. FlipsRun'
    <3>1. CASE VSync
      BY <3>1 DEF FlipsRun
    <3>2. CASE id \notin QFlips
      BY <1>2, <1>3, <1>4, <1>5, <1>7, <2>3, <2>5, <3>2, FlipsRunOn DEF Work
    <3> QED  BY <2>6, <3>1, <3>2
  <2> QED  BY <1>3, <1>6, <1>7, <2>4, <2>7 DEF DamageKept
<1>8. CASE r.dead /\ reqs' = WithReq(id, FreeRequest) /\ stack' = Tail(stack) /\ stale' = stale
  <2>1. id \notin Elems(queue) /\ \A x \in Elems(queue) : reqs'[x] = reqs[x]
    BY <1>3, <1>5, <1>8, WithReqValues
  <2>2. \A x \in Elems(queue) : Work(reqs[x], reqs'[x])
    BY <1>5, <2>1, Worked
  <2>3. Covered'
    BY <1>3, <1>4, <1>8, <2>2, CoverKept
  <2>4. QFlips' = QFlips /\ id \notin QFlips
    BY <1>4, <2>1 DEF QFlips
  <2>5. FlipsRun'
    BY <1>2, <1>3, <1>4, <1>5, <1>8, <2>2, <2>4, FlipsRunOn DEF Work
  <2> QED  BY <1>3, <1>6, <1>8, <2>3, <2>5 DEF DamageKept
<1>9. ASSUME LastEvent(r), ~r.dead,
             reqs' = WithReq(id, [r EXCEPT !.num = 0, !.flipped = TRUE]),
             stale' = IF r.update = SWAP_INVALID_IDX THEN stale
                      ELSE IF r.type = "extfb" THEN stale \ r.region ELSE {},
             stack' = (IF FlipDamages(r) THEN <<Damage(Areas)>> ELSE <<>>)
                        \o <<Call("flip_done", id)>> \o Tail(stack)
      PROVE  DamageKept'
  <2>1. reqs'[id] = [r EXCEPT !.num = 0, !.flipped = TRUE]
        /\ \A x \in ReqIds \ {id} : reqs'[x] = reqs[x]
    BY <1>3, <1>9, WithReqValues
  <2>2. reqs'[id].type = r.type /\ reqs'[id].draw = r.draw
    BY <1>5, <2>1 DEF SwapRequest
  <2>3. id \in Elems(queue) /\ Form(r)
    BY <1>2, <1>3, <1>9 DEF Flipping, LifeCycle, QueueIsLive, Joined, Ring, FormsHold
  <2>4. QFlips' = QFlips /\ \A x \in QFlips : reqs'[x].draw = reqs[x].draw
    BY <1>4, <1>5, <2>1, <2>2 DEF QFlips
  <2>5. Call("flip_done", id) \in Frame /\ Call("flip_done", id).id = id
    BY FrameTypes DEF Call
  <2>6. CASE FlipDamages(r)
    <3>1. id \in QFlips /\ r.update = SWAP_INVALID_IDX /\ ~VSync
      BY <2>3, <2>6, NextBufType DEF FlipDamages, QFlips, Form, SWAP_INVALID_IDX, Buf
    <3>2. Len(stack) = 1 /\ QFlips = {id}
      BY <1>2, <1>3, <3>1, RunsAlone
    <3>3. stack' = <<Damage(Areas)>> \o <<Call("flip_done", id)>> \o Tail(stack)
          /\ Damage(Areas) \in Frame /\ stack \in Seq(Frame)
      BY <1>3, <1>9, <2>6, FrameTypes DEF TypeOK
    <3>4. Len(stack') = 2 /\ stack'[1] = Damage(Areas) /\ stack'[2] = Call("flip_done", id)
          /\ stack' \in Seq(Frame)
      BY <1>3, <2>5, <3>2, <3>3, ReplaceTwo, StackTypes
    <3>5. (OnStack(id))' /\ stack' # <<>> /\ Head(stack').region = Areas
      BY <2>5, <3>4 DEF OnStack, Damage
    <3>6. stale' \subseteq Areas
      BY <1>3, <1>9, <3>1 DEF TypeOK
    <3>7. Covered'
      BY <3>5, <3>6 DEF Covered
    <3>8. FlipsRun'
      BY <1>3, <1>4, <2>4, <3>2, <3>5 DEF FlipsRun
    <3>9. ExtFB
      BY <2>6 DEF FlipDamages
    <3> QED  BY <1>6, <3>7, <3>8, <3>9 DEF DamageKept
  <2>7. CASE ~FlipDamages(r)
    <3>1. stack' = <<Call("flip_done", id)>> \o Tail(stack)
      <4>1. Tail(stack) \in Seq(Frame)
        BY <1>3, StackTypes DEF TypeOK
      <4>2. <<Call("flip_done", id)>> \o Tail(stack) \in Seq(Frame)
        BY <1>3, <2>5, StackTypes DEF TypeOK
      <4>3. <<>> \o <<Call("flip_done", id)>> \o Tail(stack) = <<Call("flip_done", id)>> \o Tail(stack)
        BY <2>5, <4>1
      <4> QED  BY <1>9, <2>7, <4>3
    <3>2. FlipsRun'
      BY <1>2, <1>3, <1>4, <2>4, <2>5, <3>1, FlipsRunOn
    <3>3. stale' \subseteq stale
      BY <1>9
    <3>4. Covered'
      <4> SUFFICES ASSUME NEW a \in stale'
                   PROVE  \E x \in Elems(queue') : Carries(reqs'[x], a)
        BY DEF Covered
      <4>1. PICK x \in Elems(queue) : Carries(reqs[x], a)
        BY <1>3, <3>3 DEF Covered
      <4>2. CASE x # id
        <5>1. reqs'[x] = reqs[x]
          BY <1>5, <2>1, <4>2
        <5> QED  BY <1>4, <4>1, <5>1
      <4>3. CASE x = id
        <5>1. CASE r.update # SWAP_INVALID_IDX
          BY <1>9, <4>1, <4>3, <5>1 DEF Carries
        <5>2. CASE r.update = SWAP_INVALID_IDX
          <6>1. r.type = "flip" /\ ~VSync
            BY <2>3, <5>2, NextBufType DEF Form, SWAP_INVALID_IDX, Buf
          <6>2. ExtFB /\ r.draw \in alive
            BY <1>3, <2>3, <3>3, <6>1 DEF FlipsRun, QFlips
          <6> QED  BY <2>7, <5>2, <6>1, <6>2 DEF FlipDamages
        <5> QED  BY <5>1, <5>2
      <4> QED  BY <4>2, <4>3
    <3> QED  BY <1>3, <1>6, <3>2, <3>3, <3>4 DEF DamageKept
  <2> QED  BY <2>6, <2>7
<1>10. \/ ~LastEvent(r) /\ reqs' = WithReq(id, [r EXCEPT !.num = @ - 1])
             /\ stack' = Tail(stack) /\ stale' = stale
       \/ r.dead /\ reqs' = WithReq(id, FreeRequest) /\ stack' = Tail(stack) /\ stale' = stale
       \/ /\ LastEvent(r) /\ ~r.dead
          /\ reqs' = WithReq(id, [r EXCEPT !.num = 0, !.flipped = TRUE])
          /\ stale' = IF r.update = SWAP_INVALID_IDX THEN stale
                      ELSE IF r.type = "extfb" THEN stale \ r.region ELSE {}
          /\ stack' = (IF FlipDamages(r) THEN <<Damage(Areas)>> ELSE <<>>)
                        \o <<Call("flip_done", id)>> \o Tail(stack)
  BY <1>2 DEF FlipHandler, WithReq, WithoutReq
<1> QED  BY <1>7, <1>8, <1>9, <1>10

(* With the stack empty no flip runs. *)
LEMMA NoneRuns ==
  ASSUME FlipsRun, stack = <<>>
  PROVE  VSync \/ QFlips = {}
BY DEF FlipsRun, OnStack

(* A step between requests that adds no damage. *)
LEMMA DamageUntouched ==
  ASSUME Joined, DamageKept, Idle, UNCHANGED <<reqs, queue, stale>>
  PROVE  DamageKept'
<1>1. Covered /\ FlipsRun /\ stack = <<>> /\ (stale # {} => ExtFB)
  BY DEF DamageKept, Idle
<1>2. Covered'
  BY <1>1 DEF Covered
<1>3. QFlips' = QFlips
  BY DEF QFlips
<1>4. FlipsRun'
  BY <1>1, <1>3, NoneRuns DEF FlipsRun
<1> QED  BY <1>1, <1>2, <1>4 DEF DamageKept, ExtFB

(* Without a flip the whole screen is copied to, and drawing damages a part. *)
LEMMA DrawnDamage ==
  ASSUME Joined, DamageKept, Idle, UNCHANGED <<reqs, queue>>,
         \/ stale' = stale /\ stack' = <<>>
         \/ ExtFB /\ stale' = Areas /\ stack' = <<Damage(Areas)>>
         \/ \E a \in Areas : ExtFB /\ stale' = stale \cup {a} /\ stack' = <<Damage({a})>>
  PROVE  DamageKept'
<1>1. Covered /\ FlipsRun /\ stack = <<>> /\ (stale # {} => ExtFB)
  BY DEF DamageKept, Idle
<1>2. Covered' /\ (stale' # {} => ExtFB)
  BY <1>1 DEF Covered, Damage
<1>3. QFlips' = QFlips
  BY DEF QFlips
<1>4. FlipsRun'
  BY <1>1, <1>3, NoneRuns DEF FlipsRun
<1> QED  BY <1>2, <1>4 DEF DamageKept, ExtFB

(* A new flip is called for at once, unless its render or vsync is waited for. *)
LEMMA SwapByFlipDamage ==
  ASSUME VSync \/ ~RenderSync, Joined, DamageKept,
         NEW draw \in Drawables, SwapByFlip(draw)
  PROVE  DamageKept'
<1>1. PICK now \in BOOLEAN : reqs' = WithReq(NewId, [NewFlip(draw) EXCEPT !.completed = now])
  BY SwapByFlipEffect DEF Joined
<1>2. /\ NoRepeat(queue) /\ queue \in Seq(ReqIds) /\ Elems(queue) \subseteq ReqIds
      /\ TypeOK /\ LifeCycle /\ \A x \in Elems(queue) : reqs[x].used /\ reqs[x] \in SwapRequest
  BY DEF Joined, TypeOK, LifeCycle, QueueIsLive
<1>3. /\ UNCHANGED <<alive, flipEv, stale>> /\ Free # {} /\ queue' = Append(queue, NewId)
      /\ RenderSync \/ stack' = <<Call("sync_handler", NewId)>>
      /\ draw \in alive /\ Idle
  BY RoomFree DEF SwapByFlip, Swappable
<1>4. Covered /\ FlipsRun /\ stack = <<>> /\ (stale # {} => ExtFB)
  BY <1>3 DEF DamageKept, Idle
<1>5. PICK n \in ReqIds : n = NewId /\ ~reqs[n].used /\ flipEv[n] = {}
  BY <1>2, <1>3, NewIdFree
<1>6. reqs'[n].draw = draw /\ \A x \in ReqIds \ {n} : reqs'[x] = reqs[x]
  <2>1. reqs'[n] = [NewFlip(draw) EXCEPT !.completed = now] /\ \A x \in ReqIds \ {n} : reqs'[x] = reqs[x]
    BY <1>1, <1>2, <1>5, WithReqValues
  <2> QED  BY <2>1 DEF NewFlip
<1>7. n \notin Elems(queue) /\ \A x \in Elems(queue) : reqs'[x] = reqs[x]
  BY <1>2, <1>5, <1>6
<1>8. Elems(queue') = Elems(queue) \cup {n}
  BY <1>2, <1>3, <1>5, <1>7, AppendOrder
<1>9. Covered'
  <2>1. \A x \in Elems(queue) : x \in Elems(queue') /\ Work(reqs[x], reqs'[x])
    BY <1>2, <1>7, <1>8, Worked
  <2> QED  BY <1>3, <1>4, <2>1, CoverKept
<1>10. FlipsRun'
  <2> SUFFICES ASSUME ~VSync, NEW x \in QFlips'
               PROVE  (OnStack(x))' /\ flipEv'[x] = {} /\ reqs'[x].draw \in alive
    BY <1>3 DEF FlipsRun
  <2>1. x = n
    BY <1>4, <1>7, <1>8, NoneRuns DEF QFlips
  <2>2. (OnStack(x))'
    BY <1>3, <1>5, <2>1 DEF OnStack, Call
  <2> QED  BY <1>3, <1>5, <1>6, <2>1, <2>2
<1> QED  BY <1>3, <1>4, <1>9, <1>10 DEF DamageKept, ExtFB

(* At the start nothing is drawn. *)
LEMMA InitDamage == Init => DamageKept
BY DEF Init, DamageKept, Covered, FlipsRun, QFlips, Elems

(* Every step. *)
LEMMA NextDamage ==
  ASSUME VSync \/ ~RenderSync
  PROVE  Joined /\ DamageKept /\ [Next]_vars => DamageKept'
<1> SUFFICES ASSUME Joined, DamageKept, [Next]_vars PROVE DamageKept'
  OBVIOUS
<1>1. CASE ServerCall
  BY <1>1, SyncHandlerDamage, FlipSwapReqDamage, FlipHandlerDamage, FlipDoneDamage,
     ScheduleDamageDamage DEF ServerCall
<1>2. CASE Client
  <2>1. ASSUME NEW d \in Drawables, NEW resized \in BOOLEAN,
               \/ GetBuffers(d, resized) \/ GetFrontBuffer(d, resized)
               \/ DestroyDrawable(d)
        PROVE  DamageKept'
    BY <2>1, DamageUntouched DEF GetBuffers, GetFrontBuffer, DestroyDrawable
  <2>2. ASSUME NEW d \in Drawables, SwapByCopy(d) PROVE DamageKept'
    BY <2>2, DrawnDamage DEF SwapByCopy, Swappable
  <2>3. ASSUME NEW d \in Drawables \cup {NoDraw}, SetFullscreen(d) PROVE DamageKept'
    BY <2>3, DamageUntouched DEF SetFullscreen
  <2>4. ASSUME NEW a \in Areas, DrawOnScreen(a) PROVE DamageKept'
    BY <2>4, DrawnDamage DEF DrawOnScreen
  <2> QED  BY <1>2, <2>1, <2>2, <2>3, <2>4, SwapByFlipDamage DEF Client
<1>3. CASE Kernel
  BY <1>3, DamageUntouched DEF Kernel, RenderDone, VBlank, TransferDone, FlipEvent
<1>4. CASE \E o \in Overlays : CrtcDpms(o)
  BY <1>4, DamageUntouched DEF CrtcDpms
<1>5. CASE ResizeScreen
  <2>1. queue' = <<>> /\ stale' = {}
    BY <1>5 DEF ResizeScreen
  <2> QED  BY <2>1 DEF DamageKept, Covered, FlipsRun, QFlips, Elems
<1>6. CASE UNCHANGED vars
  BY <1>6 DEF vars, DamageKept, Up, ExtFB, Covered, FlipsRun, QFlips, OnStack
<1> QED  BY <1>1, <1>2, <1>3, <1>4, <1>5, <1>6 DEF Next

(***************************************************************************)
(* Between events no drawn area is forgotten: a queued flip or update      *)
(* carries it, for every queue, and although updates are merged, events    *)
(* fail and overlays are switched.  Without vsync this takes flips that    *)
(* run at once: a window that is destroyed while its frame is rendered     *)
(* damages nothing.                                                        *)
(***************************************************************************)
THEOREM DamageStaysCovered == VSync \/ ~RenderSync => (Spec => []DamageCovered)
<1> SUFFICES ASSUME VSync \/ ~RenderSync PROVE Spec => []DamageCovered
  OBVIOUS
<1>1. Joined /\ DamageKept => DamageCovered
  BY DEF DamageCovered, DamageKept, Idle, Covered, Carries, Elems, InQueue
<1>2. Joined /\ DamageKept /\ [Next]_vars => DamageKept'
  BY NextDamage
<1> QED  BY <1>1, <1>2, ClaimsInOrder, InitDamage, PTL DEF Spec

-----------------------------------------------------------------------------
(* The flips in the queue are the chain of FlipChain. *)

(* How many elements of S come before x in the queue q. *)
Ahead(q, S, x) == Cardinality({y \in S : Before(q, y, x)})

(* Those of a queue can be counted, and each has its place among them. *)
LEMMA Places ==
  ASSUME NEW q \in Seq(ReqIds), NoRepeat(q), NEW S \in SUBSET Elems(q)
  PROVE  /\ IsFiniteSet(S) /\ Cardinality(S) \in Nat
         /\ \A x \in S : Ahead(q, S, x) \in 0 .. Cardinality(S) - 1
         /\ \A x, y \in S : Before(q, x, y) => Ahead(q, S, x) < Ahead(q, S, y)
         /\ \A i \in 1 .. Cardinality(S) :
              Nth(q, S, i) \in S /\ Ahead(q, S, Nth(q, S, i)) = i - 1
         /\ \A x \in S : Nth(q, S, Ahead(q, S, x) + 1) = x
<1> DEFINE A(x) == {y \in S : Before(q, y, x)}
           k == Cardinality(S)
<1>1. IsFiniteSet(S) /\ k \in Nat
  <2>1. S \subseteq ReqIds
    BY DEF Elems
  <2>2. IsFiniteSet(ReqIds)
    BY FS_Interval, SwapAssumption DEF ReqIds
  <2> QED  BY <2>1, <2>2, FS_Subset, FS_CardinalityType
<1>2. /\ \A x, y : Before(q, x, y) => ~Before(q, y, x) /\ x # y
      /\ \A x, y \in S : x = y \/ Before(q, x, y) \/ Before(q, y, x)
      /\ \A x, y, z : Before(q, x, y) /\ Before(q, y, z) => Before(q, x, z)
  BY BeforeOrder
<1>3. \A x : IsFiniteSet(A(x)) /\ Cardinality(A(x)) \in Nat
  <2> TAKE x
  <2>1. A(x) \in SUBSET S
    OBVIOUS
  <2> QED  BY <1>1, <2>1, FS_Subset, FS_CardinalityType
<1>4. ASSUME NEW x \in S PROVE Ahead(q, S, x) \in 0 .. k - 1
  <2>1. A(x) \in SUBSET S /\ x \notin A(x)
    BY <1>2
  <2>2. Cardinality(A(x)) <= k /\ Cardinality(A(x)) # k
    BY <1>1, <2>1, FS_Subset
  <2>3. Ahead(q, S, x) = Cardinality(A(x)) /\ Cardinality(A(x)) \in Nat
    BY <1>3 DEF Ahead
  <2> HIDE DEF A
  <2> QED  BY <1>1, <2>2, <2>3
<1>5. ASSUME NEW x \in S, NEW y \in S, Before(q, x, y)
      PROVE  Ahead(q, S, x) < Ahead(q, S, y)
  <2>1. A(x) \in SUBSET A(y) /\ x \notin A(x) /\ x \in A(y)
    BY <1>2, <1>5
  <2>2. Cardinality(A(x)) <= Cardinality(A(y)) /\ Cardinality(A(x)) # Cardinality(A(y))
    <3> HIDE DEF A
    <3> QED  BY <1>3, <2>1, FS_Subset
  <2>3. /\ Ahead(q, S, x) = Cardinality(A(x)) /\ Ahead(q, S, y) = Cardinality(A(y))
        /\ Cardinality(A(x)) \in Nat /\ Cardinality(A(y)) \in Nat
    BY <1>3 DEF Ahead
  <2> HIDE DEF A
  <2> QED  BY <2>2, <2>3
<1>6. \A x, y \in S : Ahead(q, S, x) = Ahead(q, S, y) => x = y
  BY <1>2, <1>4, <1>5
<1>7. \A j \in 0 .. k - 1 : \E x \in S : Ahead(q, S, x) = j
  <2> DEFINE f == [x \in S |-> Ahead(q, S, x)]
             T == 0 .. k - 1
  <2>1. f \in Injection(S, T)
    BY <1>4, <1>6 DEF Injection, IsInjective
  <2>2. IsFiniteSet(T) /\ Cardinality(T) = k
    <3>1. k \in Int /\ k - 1 \in Int /\ (IF 0 > k - 1 THEN 0 ELSE k - 1 - 0 + 1) = k
      BY <1>1
    <3> HIDE DEF k
    <3> QED  BY <3>1, FS_Interval
  <2>3. f \in Surjection(S, T)
    <3> HIDE DEF f, T
    <3> QED  BY <2>1, <2>2, FS_Injection
  <2> QED  BY <2>3 DEF Surjection
<1>8. ASSUME NEW i \in 1 .. k
      PROVE  Nth(q, S, i) \in S /\ Ahead(q, S, Nth(q, S, i)) = i - 1
  <2>1. i - 1 \in 0 .. k - 1
    BY <1>1
  <2>2. \E x \in S : Cardinality({y \in S : Before(q, y, x)}) = i - 1
    BY <1>7, <2>1 DEF Ahead
  <2> QED  BY <2>2 DEF Ahead, Nth
<1>9. ASSUME NEW x \in S PROVE Nth(q, S, Ahead(q, S, x) + 1) = x
  <2> DEFINE i == Ahead(q, S, x) + 1
  <2>1. i \in 1 .. k /\ i - 1 = Ahead(q, S, x)
    BY <1>1, <1>4
  <2> HIDE DEF i, k
  <2>2. Nth(q, S, i) \in S /\ Ahead(q, S, Nth(q, S, i)) = Ahead(q, S, x)
    BY <1>8, <2>1
  <2>3. Nth(q, S, i) = x
    BY <1>6, <2>2
  <2> QED  BY <2>3 DEF i
<1> QED  BY <1>1, <1>4, <1>5, <1>8, <1>9

(* Two queues with the same elements of S in the same order. *)
LEMMA SamePlaces ==
  ASSUME NEW q \in Seq(ReqIds), NoRepeat(q), NEW p \in Seq(ReqIds), NoRepeat(p),
         NEW S \in SUBSET (Elems(q) \cap Elems(p)),
         \A x, y \in S : Before(p, x, y) <=> Before(q, x, y)
  PROVE  \A i \in 1 .. Cardinality(S) : Nth(p, S, i) = Nth(q, S, i) /\ Nth(q, S, i) \in S
<1> TAKE i \in 1 .. Cardinality(S)
<1> DEFINE x == Nth(q, S, i)
<1>1. x \in S /\ Ahead(q, S, x) = i - 1
  BY Places
<1>2. {y \in S : Before(p, y, x)} = {y \in S : Before(q, y, x)}
  BY <1>1
<1>3. Ahead(p, S, x) = i - 1
  BY <1>1, <1>2 DEF Ahead
<1>4. Nth(p, S, i - 1 + 1) = x /\ Cardinality(S) \in Nat
  <2> HIDE DEF x
  <2> QED  BY <1>1, <1>3, Places
<1> QED  BY <1>1, <1>4

(* p has the elements S of q in the same order, and n after them. *)
LastComes(q, p, S, n) ==
  /\ q \in Seq(ReqIds) /\ NoRepeat(q) /\ p \in Seq(ReqIds) /\ NoRepeat(p)
  /\ S \in SUBSET Elems(q) /\ n \notin S /\ S \cup {n} \subseteq Elems(p)
  /\ \A x, y \in S : Before(p, x, y) <=> Before(q, x, y)
  /\ \A x \in S : Before(p, x, n)

(* An element that comes last has the last place. *)
LEMMA LastPlace ==
  ASSUME NEW q, NEW p, NEW S, NEW n, LastComes(q, p, S, n)
  PROVE  /\ Cardinality(S \cup {n}) = Cardinality(S) + 1 /\ Cardinality(S) \in Nat
         /\ Nth(p, S \cup {n}, Cardinality(S) + 1) = n
         /\ \A i \in 1 .. Cardinality(S) :
              Nth(p, S \cup {n}, i) = Nth(q, S, i) /\ Nth(q, S, i) \in S
<1> USE DEF LastComes
<1> DEFINE T == S \cup {n}
           k == Cardinality(S)
<1>1. Cardinality(T) = k + 1 /\ k \in Nat /\ T \in SUBSET Elems(p)
  BY Places, FS_AddElement
<1>2. \A x, y : Before(p, x, y) => ~Before(p, y, x) /\ x # y
  BY BeforeOrder
<1>3. Nth(p, T, k + 1) = n
  <2>1. {y \in T : Before(p, y, n)} = S
    BY <1>2
  <2>2. Ahead(p, T, n) = k
    BY <2>1 DEF Ahead
  <2> QED  BY <1>1, <2>2, Places
<1>4. ASSUME NEW i \in 1 .. k PROVE Nth(p, T, i) = Nth(q, S, i) /\ Nth(q, S, i) \in S
  <2> DEFINE x == Nth(q, S, i)
  <2>1. x \in S /\ Ahead(q, S, x) = i - 1
    BY Places
  <2>2. {y \in T : Before(p, y, x)} = {y \in S : Before(q, y, x)}
    BY <1>2, <2>1
  <2>3. Ahead(p, T, x) = i - 1 /\ x \in T
    BY <2>1, <2>2 DEF Ahead
  <2>4. Nth(p, T, i - 1 + 1) = x
    <3> HIDE DEF x, T
    <3> QED  BY <1>1, <2>3, Places
  <2> QED  BY <1>1, <2>1, <2>4
<1> QED  BY <1>1, <1>3, <1>4

(* n is the first of S in q, and p has the rest of S in the same order. *)
FirstGoes(q, p, S, n) ==
  /\ q \in Seq(ReqIds) /\ NoRepeat(q) /\ p \in Seq(ReqIds) /\ NoRepeat(p)
  /\ S \in SUBSET Elems(q) /\ n \in S /\ S \ {n} \subseteq Elems(p)
  /\ \A x, y \in S \ {n} : Before(p, x, y) <=> Before(q, x, y)
  /\ \A x \in S : x = n \/ Before(q, n, x)

(* When the first element goes, the others move up. *)
LEMMA FirstPlace ==
  ASSUME NEW q, NEW p, NEW S, NEW n, FirstGoes(q, p, S, n)
  PROVE  /\ Cardinality(S \ {n}) = Cardinality(S) - 1 /\ Cardinality(S) \in Nat \ {0}
         /\ Nth(q, S, 1) = n
         /\ \A i \in 1 .. Cardinality(S) - 1 :
              Nth(p, S \ {n}, i) = Nth(q, S, i + 1) /\ Nth(q, S, i + 1) \in S \ {n}
<1> USE DEF FirstGoes
<1> DEFINE T == S \ {n}
           k == Cardinality(S)
<1>1. Cardinality(T) = k - 1 /\ k \in Nat \ {0} /\ T \in SUBSET Elems(p)
  BY Places, FS_RemoveElement, FS_EmptySet
<1>2. \A x, y : Before(q, x, y) => ~Before(q, y, x) /\ x # y
  BY BeforeOrder
<1>3. Ahead(q, S, n) = 0 /\ Nth(q, S, 1) = n
  <2>1. {y \in S : Before(q, y, n)} = {}
    BY <1>2
  <2>2. Ahead(q, S, n) = 0
    BY <2>1, FS_EmptySet DEF Ahead
  <2>3. Nth(q, S, Ahead(q, S, n) + 1) = n
    BY Places
  <2> QED  BY <2>2, <2>3
<1>4. ASSUME NEW i \in 1 .. k - 1
      PROVE  Nth(p, T, i) = Nth(q, S, i + 1) /\ Nth(q, S, i + 1) \in T
  <2> DEFINE x == Nth(q, S, i + 1)
             B == {y \in S : Before(q, y, x)}
  <2>1. i + 1 \in 1 .. k /\ i + 1 - 1 = i /\ i # 0 /\ i - 1 + 1 = i
    BY <1>1
  <2>2. x \in S /\ Ahead(q, S, x) = i
    BY <2>1, Places
  <2>3. x \in T
    BY <1>3, <2>1, <2>2
  <2> HIDE DEF x
  <2>4. {y \in T : Before(p, y, x)} = B \ {n} /\ n \in B
    BY <2>3
  <2>5. IsFiniteSet(B) /\ Cardinality(B) = i
    <3>1. IsFiniteSet(S) /\ B \in SUBSET S
      BY Places
    <3> QED  BY <2>2, <3>1, FS_Subset DEF Ahead
  <2>6. Ahead(p, T, x) = i - 1
    <3> HIDE DEF B, T
    <3> QED  BY <2>4, <2>5, FS_RemoveElement DEF Ahead
  <2>7. Nth(p, T, Ahead(p, T, x) + 1) = x
    <3> HIDE DEF T
    <3> QED  BY <1>1, <2>3, Places
  <2> QED  BY <2>1, <2>3, <2>6, <2>7 DEF x
<1> QED  BY <1>1, <1>3, <1>4

-----------------------------------------------------------------------------
(* The queue of a state, and the flips in it. *)
LEMMA QueueForm ==
  ASSUME TypeOK, LifeCycle
  PROVE  queue \in Seq(ReqIds) /\ NoRepeat(queue) /\ QFlips \in SUBSET Elems(queue)
BY DEF TypeOK, LifeCycle, QueueIsLive, QFlips

(* The chain is a sequence of buffers. *)
LEMMA InFlightType ==
  ASSUME TypeOK, LifeCycle, Ring, Up
  PROVE  /\ Cardinality(QFlips) \in Nat /\ Len(InFlight) = Cardinality(QFlips)
         /\ InFlight \in Seq(Buf)
         /\ QFlips = {} <=> Cardinality(QFlips) = 0
<1> DEFINE k == Cardinality(QFlips)
<1>1. k \in Nat /\ (QFlips = {} <=> k = 0)
  BY QueueForm, Places, FS_EmptySet
<1>2. \A i \in 1 .. k : Nth(queue, QFlips, i) \in QFlips
  BY QueueForm, Places
<1>3. \A x \in QFlips : reqs[x].back \in Buf
  BY NextBufType DEF Ring, FormsHold, Form, QFlips
<1> HIDE DEF k
<1>4. InFlight = [i \in 1 .. k |-> reqs[Nth(queue, QFlips, i)].back]
  BY DEF InFlight, k
<1>5. InFlight \in Seq(Buf) /\ Len(InFlight) = k
  BY <1>1, <1>2, <1>3, <1>4
<1> QED  BY <1>1, <1>5 DEF k

(***************************************************************************)
(* Whatever is on the screen or on its way there is the last submitted     *)
(* buffer, or one that a flip in the queue has to replace.                 *)
(***************************************************************************)
LEMMA InUseIsOccupied ==
  ASSUME TypeOK, LifeCycle, Ring, Up
  PROVE  Chain!InUse \subseteq Occupied
<1> DEFINE k == Cardinality(QFlips)
<1>1. k \in Nat /\ Len(InFlight) = k /\ (QFlips = {} <=> k = 0)
  BY InFlightType
<1>2. \A i \in 1 .. k : Nth(queue, QFlips, i) \in QFlips
  BY QueueForm, Places
<1>3. Shown \in Occupied
  <2>1. CASE QFlips = {}
    BY <2>1 DEF Shown, Occupied
  <2>2. CASE QFlips # {}
    <3>1. 1 \in 1 .. k
      BY <1>1, <2>2
    <3> QED  BY <1>2, <2>2, <3>1 DEF Shown, Occupied
  <2> QED  BY <2>1, <2>2
<1>4. ASSUME NEW x \in QFlips PROVE reqs[x].back \in Occupied
  <2>1. PICK l \in QFlips : reqs[l].back = pf.front /\ \A y \in QFlips : ~Before(queue, l, y)
    BY <1>4 DEF Ring, Linked
  <2>2. x = l \/ Before(queue, x, l)
    BY <2>1, QueueForm, BeforeOrder
  <2>3. CASE Before(queue, x, l)
    <3>1. PICK z \in QFlips : Follows(x, z)
      BY <2>1, <2>3 DEF Ring, Linked
    <3> QED  BY <3>1 DEF Follows, Occupied
  <2> QED  BY <2>1, <2>2, <2>3 DEF Occupied
<1>5. \A i \in 1 .. k : InFlight[i] \in Occupied
  BY <1>2, <1>4 DEF InFlight
<1> HIDE DEF k
<1> QED  BY <1>1, <1>3, <1>5 DEF Chain!InUse

(* A step that leaves the flips in the queue as they are leaves the chain. *)
LEMMA ChainKept ==
  ASSUME TypeOK, TypeOK', LifeCycle, LifeCycle', pf'.front = pf.front, QFlips' = QFlips,
         \A x \in QFlips : reqs'[x].front = reqs[x].front /\ reqs'[x].back = reqs[x].back,
         \A x, y \in QFlips : Before(queue', x, y) <=> Before(queue, x, y)
  PROVE  Shown' = Shown /\ InFlight' = InFlight
<1> DEFINE k == Cardinality(QFlips)
<1>1. queue \in Seq(ReqIds) /\ NoRepeat(queue) /\ QFlips \in SUBSET Elems(queue)
  BY QueueForm
<1>2. queue' \in Seq(ReqIds) /\ NoRepeat(queue') /\ QFlips \in SUBSET Elems(queue')
  BY DEF TypeOK, LifeCycle, QueueIsLive, QFlips
<1>3. \A i \in 1 .. k : /\ Nth(queue', QFlips, i) = Nth(queue, QFlips, i)
                        /\ Nth(queue, QFlips, i) \in QFlips
  BY <1>1, <1>2, SamePlaces
<1>4. k \in Nat /\ (QFlips = {} <=> k = 0)
  BY <1>1, Places, FS_EmptySet
<1>5. Shown' = Shown
  BY <1>3, <1>4 DEF Shown
<1>6. \A i \in 1 .. k : reqs'[Nth(queue', QFlips, i)].back = reqs[Nth(queue, QFlips, i)].back
  BY <1>3
<1>7. InFlight' = InFlight
  BY <1>6 DEF InFlight
<1> QED  BY <1>5, <1>7

(* It is no step of the chain, unless a client gives up its buffer. *)
LEMMA ChainGivenUp ==
  ASSUME Shown' = Shown, InFlight' = InFlight, pf'.back = pf.back,
         pf'.reserved \subseteq pf.reserved
  PROVE  [Chain!Next]_Chain!vars
<1>1. CASE pf.back \in pf.reserved <=> pf'.back \in pf'.reserved
  BY <1>1 DEF Chain!vars
<1>2. CASE pf'.back \notin pf'.reserved
  BY <1>2 DEF Chain!Next, Chain!GiveUp
<1> QED  BY <1>1, <1>2

-----------------------------------------------------------------------------
(* The handlers reserve nothing and move no index. *)
LEMMA HandlersReserve ==
  ASSUME TypeOK, SyncHandler \/ FlipSwapReq \/ FlipHandler \/ FlipDone
  PROVE  pf'.reserved = pf.reserved /\ pf'.front = pf.front /\ pf'.back = pf.back
<1>1. pf'.front = pf.front /\ pf'.back = pf.back
  BY SyncHandlerSame, FlipSwapReqSame, FlipHandlerSame, FlipDoneSame DEF SameOwnership
<1>2. \E c : \/ pf' \in {pf, Require(pf, c)}
             \/ \E x : pf' = [Require(pf, c) EXCEPT !.flips = x]
             \/ \E x : pf' = [Require(pf, c) EXCEPT !.completes = x]
             \/ \E x : pf' = [Require(pf, c) EXCEPT !.busy = x]
             \/ \E x, y : pf' = [[Require(pf, c) EXCEPT !.busy = x] EXCEPT !.flips = y]
  <2>1. CASE SyncHandler
    BY <2>1 DEF SyncHandler
  <2>2. CASE FlipSwapReq
    BY <2>2 DEF FlipSwapReq, IssueFlip
  <2>3. CASE FlipHandler
    <3> DEFINE r == reqs[Head(stack).id]
    <3>1. PICK c : FlipChecked(pf, Head(stack).id) = Require(pf, c)
      BY DEF FlipChecked
    <3> DEFINE a == Require(pf, c)
               f == ReleaseFront(a, r)
    <3>2. pf' \in {pf, a, f} \/ \E y : pf' = [f EXCEPT !.flips = y]
      BY <2>3, <3>1 DEF FlipHandler
    <3>3. f = a \/ \E x : f = [a EXCEPT !.busy = x]
      BY DEF ReleaseFront
    <3> HIDE DEF r, f
    <3>4. CASE f = a
      <4> HIDE DEF f
      <4>1. pf' \in {pf, a} \/ \E y : pf' = [a EXCEPT !.flips = y]
        BY <3>2, <3>4
      <4> QED  BY <4>1
    <3>5. ASSUME NEW x, f = [a EXCEPT !.busy = x]
          PROVE  \/ pf' \in {pf, a} \/ pf' = [a EXCEPT !.busy = x]
                 \/ \E y : pf' = [[a EXCEPT !.busy = x] EXCEPT !.flips = y]
      BY <3>2, <3>5
    <3>6. CASE \E x : f = [a EXCEPT !.busy = x]
      <4>1. PICK x : f = [a EXCEPT !.busy = x]
        BY <3>6
      <4>2. \/ pf' \in {pf, a} \/ pf' = [a EXCEPT !.busy = x]
            \/ \E y : pf' = [[a EXCEPT !.busy = x] EXCEPT !.flips = y]
        BY <3>5, <4>1
      <4> QED  BY <4>2
    <3> QED  BY <3>3, <3>4, <3>6
  <2>4. CASE FlipDone
    BY <2>4 DEF FlipDone
  <2> QED  BY <2>1, <2>2, <2>3, <2>4
<1>3. PICK c : \/ pf' \in {pf, Require(pf, c)}
               \/ \E x : pf' = [Require(pf, c) EXCEPT !.flips = x]
               \/ \E x : pf' = [Require(pf, c) EXCEPT !.completes = x]
               \/ \E x : pf' = [Require(pf, c) EXCEPT !.busy = x]
               \/ \E x, y : pf' = [[Require(pf, c) EXCEPT !.busy = x] EXCEPT !.flips = y]
  BY <1>2
<1> DEFINE a == Require(pf, c)
<1>4. a \in FlipState /\ a.reserved = pf.reserved
  BY RequireType, RequireSame DEF TypeOK
<1> HIDE DEF a
<1>5. pf' \in {pf, a} \/ pf'.reserved = a.reserved
  BY <1>3, <1>4 DEF a, FlipState
<1> QED  BY <1>1, <1>4, <1>5

(* The same buffers are replaced and shown. *)
SameFrame(r, q) == q.type = r.type /\ q.front = r.front /\ q.back = r.back

(* What the handlers write to a request of the queue is no part of its frame. *)
LEMMA HandlerFrames ==
  ASSUME TypeOK, LifeCycle, SyncHandler \/ FlipSwapReq \/ FlipHandler
  PROVE  queue' = queue /\ \A x \in Elems(queue) : SameFrame(reqs[x], reqs'[x])
<1>1. PICK id \in ReqIds : id = Head(stack).id
  <2>1. PICK call \in {"sync_handler", "flip_swap_req", "flip_handler"} : Running(call)
    BY DEF SyncHandler, FlipSwapReq, FlipHandler
  <2>2. Head(stack).id \in ReqIds
    BY <2>1, RunningCall
  <2> QED  BY <2>2
<1> DEFINE r == reqs[id]
<1>2. \E q : /\ reqs' = WithReq(id, q)
             /\ \/ r.dead \/ q = [r EXCEPT !.rendered = TRUE]
                \/ \E n : q = [r EXCEPT !.issued = TRUE, !.num = n]
                \/ \E n : q = [r EXCEPT !.num = n]
                \/ \E n : q = [r EXCEPT !.num = n, !.flipped = TRUE]
  <2>1. CASE SyncHandler
    BY <1>1, <2>1 DEF SyncHandler, WithReq, WithoutReq
  <2>2. CASE FlipSwapReq
    BY <1>1, <2>2 DEF FlipSwapReq
  <2>3. CASE FlipHandler
    BY <1>1, <2>3 DEF FlipHandler, WithReq, WithoutReq
  <2> QED  BY <2>1, <2>2, <2>3
<1>3. PICK q : /\ reqs' = WithReq(id, q)
               /\ \/ r.dead \/ q = [r EXCEPT !.rendered = TRUE]
                  \/ \E n : q = [r EXCEPT !.issued = TRUE, !.num = n]
                  \/ \E n : q = [r EXCEPT !.num = n]
                  \/ \E n : q = [r EXCEPT !.num = n, !.flipped = TRUE]
  BY <1>2
<1>4. reqs'[id] = q /\ \A x \in ReqIds \ {id} : reqs'[x] = reqs[x]
  <2>1. reqs' = WithReq(id, q)
    BY <1>3
  <2> QED  BY <2>1, WithReqValues
<1>5. Elems(queue) \subseteq ReqIds /\ (id \in Elems(queue) => ~r.dead) /\ r \in SwapRequest
  BY DEF TypeOK, LifeCycle, QueueIsLive
<1> HIDE DEF r
<1>6. ~r.dead => SameFrame(r, q)
  <2> SUFFICES ASSUME ~r.dead PROVE SameFrame(r, q)
    OBVIOUS
  <2>1. CASE q = [r EXCEPT !.rendered = TRUE]
    BY <1>5, <2>1, FieldsKept DEF SameFrame
  <2>2. ASSUME NEW n, \/ q = [r EXCEPT !.issued = TRUE, !.num = n]
                      \/ q = [r EXCEPT !.num = n]
                      \/ q = [r EXCEPT !.num = n, !.flipped = TRUE]
        PROVE  SameFrame(r, q)
    BY <1>5, <2>2 DEF SameFrame, SwapRequest
  <2> QED  BY <1>3, <2>1, <2>2
<1>7. queue' = queue
  BY DEF SyncHandler, FlipSwapReq, FlipHandler
<1>8. ASSUME NEW x \in Elems(queue) PROVE SameFrame(reqs[x], reqs'[x])
  <2>1. CASE x = id
    BY <1>4, <1>5, <1>6, <2>1 DEF r
  <2>2. CASE x # id
    BY <1>4, <1>5, <2>2 DEF SameFrame
  <2> QED  BY <2>1, <2>2
<1> QED  BY <1>7, <1>8

(* They change nothing in the chain, *)
LEMMA HandlerChain ==
  ASSUME TypeOK, TypeOK', LifeCycle, LifeCycle', SyncHandler \/ FlipSwapReq \/ FlipHandler
  PROVE  [Chain!Next]_Chain!vars
<1>1. pf'.reserved = pf.reserved /\ pf'.front = pf.front /\ pf'.back = pf.back
  BY HandlersReserve
<1>2. queue' = queue /\ \A x \in Elems(queue) : SameFrame(reqs[x], reqs'[x])
  BY HandlerFrames
<1>3. QFlips' = QFlips
  BY <1>2 DEF QFlips, SameFrame
<1>4. \A x \in QFlips : reqs'[x].front = reqs[x].front /\ reqs'[x].back = reqs[x].back
  BY <1>2 DEF QFlips, SameFrame
<1>5. Shown' = Shown /\ InFlight' = InFlight
  BY <1>1, <1>2, <1>3, <1>4, ChainKept
<1> QED  BY <1>1, <1>5, ChainGivenUp

(* and nor does damage, which is of another type. *)
LEMMA DamageChain ==
  ASSUME TypeOK, TypeOK', LifeCycle, LifeCycle', ScheduleDamage
  PROVE  [Chain!Next]_Chain!vars
<1> DEFINE region == Head(stack).region
           id     == MergeInto(region)
<1>1. pf' = pf
  BY DEF ScheduleDamage
<1>2. /\ queue \in Seq(ReqIds) /\ NoRepeat(queue) /\ Elems(queue) \subseteq ReqIds
      /\ reqs \in [ReqIds -> SwapRequest] /\ \A x \in Elems(queue) : reqs[x].used
  BY DEF TypeOK, LifeCycle, QueueIsLive
<1>3. /\ \A x \in Elems(queue) : SameFrame(reqs[x], reqs'[x])
      /\ QFlips' = QFlips
      /\ \A x, y \in Elems(queue) : Before(queue', x, y) <=> Before(queue, x, y)
  <2>1. CASE id # 0 /\ reqs' = WithReq(id, [reqs[id] EXCEPT !.region = @ \cup region])
             /\ queue' = queue
    <3>1. PICK y \in ReqIds : y = id
      BY <2>1, FirstInType DEF MergeInto, FindByUpdate, TypeOK
    <3>2. PICK v : v = reqs[y].region \cup region
      OBVIOUS
    <3>3. PICK r : r = [reqs[y] EXCEPT !.region = v]
      OBVIOUS
    <3>4. reqs' = WithReq(y, r)
      BY <2>1, <3>1, <3>2, <3>3
    <3>5. reqs'[y] = r /\ \A x \in ReqIds \ {y} : reqs'[x] = reqs[x]
      BY <3>4, WithReqValues
    <3>6. SameFrame(reqs[y], r)
      BY <1>2, <3>3, FieldsKept DEF SameFrame
    <3>7. \A x \in Elems(queue) : SameFrame(reqs[x], reqs'[x])
      BY <1>2, <3>5, <3>6 DEF SameFrame
    <3>8. QFlips' = QFlips
      BY <2>1, <3>7 DEF QFlips, SameFrame
    <3> QED  BY <2>1, <3>7, <3>8
  <2>2. CASE /\ Free # {} /\ reqs' = WithReq(NewId, NewUpdate(region))
             /\ queue' = Append(queue, NewId)
    <3>1. PICK n \in ReqIds : n = NewId /\ ~reqs[n].used
      BY <2>2, NewIdFree
    <3>2. reqs'[n] = NewUpdate(region) /\ \A x \in ReqIds \ {n} : reqs'[x] = reqs[x]
      BY <2>2, <3>1, WithReqValues
    <3>3. n \notin Elems(queue) /\ \A x \in Elems(queue) : reqs'[x] = reqs[x]
      BY <1>2, <3>1, <3>2
    <3>4. /\ Elems(queue') = Elems(queue) \cup {n}
          /\ \A x, y : Before(queue', x, y) <=> Before(queue, x, y) \/ (x \in Elems(queue) /\ y = n)
      BY <1>2, <2>2, <3>1, <3>3, AppendOrder
    <3>5. QFlips' = QFlips
      BY <3>2, <3>3, <3>4 DEF QFlips, NewUpdate
    <3> QED  BY <3>3, <3>4, <3>5 DEF SameFrame
  <2> QED  BY <2>1, <2>2 DEF ScheduleDamage
<1>4. QFlips \subseteq Elems(queue)
  BY DEF QFlips
<1>5. Shown' = Shown /\ InFlight' = InFlight
  BY <1>1, <1>3, <1>4, ChainKept DEF SameFrame
<1> QED  BY <1>1, <1>5, ChainGivenUp

(***************************************************************************)
(* A flip that leaves the queue is the first one there: its buffer is the  *)
(* one shown, and the next flip replaces it.                               *)
(***************************************************************************)
LEMMA FlipDoneChain ==
  ASSUME TypeOK, TypeOK', LifeCycle, LifeCycle', Ring, FlipDone
  PROVE  [Chain!Next]_Chain!vars
<1>1. PICK id \in ReqIds : id = Head(stack).id /\ Flipped(id) /\ Up
  <2>1. Running("flip_done")
    BY DEF FlipDone
  <2> QED  BY <2>1, RunningCall DEF CallReady, Running
<1> DEFINE c  == IF CompletesPending(reqs[id]) THEN FindFirstPendingFlip(reqs, queue) ELSE 0
           rs == [i \in ReqIds |->
                    IF i = id THEN FreeRequest
                    ELSE IF i = c THEN [reqs[i] EXCEPT !.completed = TRUE] ELSE reqs[i]]
           Q  == Elems(queue)
           k  == Cardinality(QFlips)
<1>2. queue' = Unlink(queue, id) /\ reqs' = rs
  BY <1>1 DEF FlipDone
<1>3. /\ NoRepeat(queue) /\ queue \in Seq(ReqIds) /\ Q \subseteq ReqIds /\ id \in Q
      /\ reqs[id].issued /\ reqs[id].flipped
  BY <1>1 DEF LifeCycle, QueueIsLive, Flipped, TypeOK
<1>4. /\ Elems(queue') = Q \ {id}
      /\ \A x, y : Before(queue', x, y) <=> Before(queue, x, y) /\ x # id /\ y # id
  BY <1>2, <1>3, UnlinkOrder
<1>5. pf'.reserved = pf.reserved /\ pf'.front = pf.front /\ pf'.back = pf.back
  BY HandlersReserve
<1>6. \A x \in Q \ {id} : SameFrame(reqs[x], reqs'[x])
  <2> HIDE DEF c
  <2> SUFFICES ASSUME NEW x \in Q \ {id} PROVE SameFrame(reqs[x], reqs'[x])
    OBVIOUS
  <2>1. reqs[x] \in SwapRequest
    BY <1>3 DEF TypeOK
  <2>2. reqs'[x] \in {reqs[x], [reqs[x] EXCEPT !.completed = TRUE]}
    BY <1>2, <1>3
  <2> QED  BY <2>1, <2>2, FieldsKept DEF SameFrame
<1> HIDE DEF rs
<1>7. QFlips' = QFlips \ {id} /\ QFlips \subseteq Q
  BY <1>4, <1>6 DEF QFlips, SameFrame
<1>8. CASE id \notin QFlips
  <2>1. QFlips' = QFlips /\ \A x \in QFlips : SameFrame(reqs[x], reqs'[x])
    BY <1>6, <1>7, <1>8
  <2>2. \A x, y \in QFlips : Before(queue', x, y) <=> Before(queue, x, y)
    BY <1>4, <1>8
  <2>3. Shown' = Shown /\ InFlight' = InFlight
    BY <1>5, <2>1, <2>2, ChainKept DEF SameFrame
  <2> QED  BY <1>5, <2>3, ChainGivenUp
<1>9. CASE id \in QFlips
  <2>1. \A x \in QFlips : x = id \/ Before(queue, id, x)
    BY <1>1, <1>3, <1>9, IssuedLeads
  <2>2. queue' \in Seq(ReqIds) /\ NoRepeat(queue')
    BY DEF TypeOK, LifeCycle, QueueIsLive
  <2>3. /\ Cardinality(QFlips \ {id}) = k - 1 /\ k \in Nat \ {0}
        /\ Nth(queue, QFlips, 1) = id
        /\ \A i \in 1 .. k - 1 : /\ Nth(queue', QFlips \ {id}, i) = Nth(queue, QFlips, i + 1)
                                 /\ Nth(queue, QFlips, i + 1) \in QFlips \ {id}
    <3>1. \A x, y \in QFlips \ {id} : Before(queue', x, y) <=> Before(queue, x, y)
      BY <1>4
    <3>2. QFlips \ {id} \subseteq Elems(queue')
      BY <1>4, <1>7
    <3>3. PICK q, p, S : q = queue /\ p = queue' /\ S = QFlips
      OBVIOUS
    <3>4. FirstGoes(q, p, S, id)
      BY <1>3, <1>7, <1>9, <2>1, <2>2, <3>1, <3>2, <3>3 DEF FirstGoes
    <3>5. /\ Cardinality(S \ {id}) = Cardinality(S) - 1 /\ Cardinality(S) \in Nat \ {0}
          /\ Nth(q, S, 1) = id
          /\ \A i \in 1 .. Cardinality(S) - 1 :
               Nth(p, S \ {id}, i) = Nth(q, S, i + 1) /\ Nth(q, S, i + 1) \in S \ {id}
      BY <3>4, FirstPlace
    <3> QED  BY <3>3, <3>5
  <2>4. InFlight \in Seq(Buf) /\ Len(InFlight) = k
    BY <1>1, InFlightType
  <2>5. InFlight # <<>> /\ Head(InFlight) = reqs[id].back
    <3>1. InFlight[1] = reqs[Nth(queue, QFlips, 1)].back
      BY <2>3 DEF InFlight
    <3> HIDE DEF k
    <3> QED  BY <2>3, <2>4, <3>1
  <2>6. InFlight' = [i \in 1 .. k - 1 |-> reqs[Nth(queue, QFlips, i + 1)].back]
    <3>1. InFlight' = [i \in 1 .. k - 1 |-> reqs'[Nth(queue', QFlips \ {id}, i)].back]
      BY <1>7, <2>3 DEF InFlight
    <3>2. \A i \in 1 .. k - 1 : reqs'[Nth(queue', QFlips \ {id}, i)].back
                                  = reqs[Nth(queue, QFlips, i + 1)].back
      BY <1>6, <1>7, <2>3 DEF SameFrame
    <3> HIDE DEF k
    <3> QED  BY <3>1, <3>2
  <2>7. InFlight' = Tail(InFlight)
    <3>1. \A i \in 1 .. k - 1 : i + 1 \in 1 .. k /\ InFlight[i + 1] = reqs[Nth(queue, QFlips, i + 1)].back
      BY <2>3 DEF InFlight
    <3>2. /\ Tail(InFlight) \in Seq(Buf) /\ Len(Tail(InFlight)) = k - 1
          /\ \A i \in 1 .. k - 1 : Tail(InFlight)[i] = InFlight[i + 1]
      <4> HIDE DEF k
      <4> QED  BY <2>4, <2>5, HeadTailProperties
    <3> HIDE DEF k
    <3>3. InFlight' \in Seq(Buf) /\ Len(InFlight') = k - 1
      <4>1. \A i \in 1 .. k - 1 : InFlight[i + 1] \in Buf
        BY <2>3, <2>4, <3>1
      <4> QED  BY <2>3, <2>6, <3>1, <4>1
    <3> QED  BY <2>6, <3>1, <3>2, <3>3, SeqEqual
  <2>8. Shown' = reqs[id].back
    <3>1. CASE QFlips' = {}
      <4>1. PICK l \in QFlips : reqs[l].back = pf.front
        BY <1>1, <1>9 DEF Ring, Linked
      <4> QED  BY <1>5, <1>7, <3>1, <4>1 DEF Shown
    <3>2. CASE QFlips' # {}
      <4> DEFINE w == Nth(queue', QFlips', 1)
      <4>1. k - 1 \in Nat /\ k - 1 # 0
        BY <1>7, <2>3, <3>2, FS_EmptySet, QueueForm, Places
      <4>2. w = Nth(queue, QFlips, 2) /\ w \in QFlips \ {id}
        BY <1>7, <2>3, <4>1
      <4>3. /\ queue' \in Seq(ReqIds) /\ NoRepeat(queue') /\ QFlips' \in SUBSET Elems(queue')
            /\ 1 \in 1 .. Cardinality(QFlips')
        BY <1>4, <1>7, <2>2, <2>3, <4>1
      <4>4. ASSUME NEW x \in QFlips' PROVE ~Before(queue', x, w)
        <5>1. Ahead(queue', QFlips', w) = 0
          BY <4>3, Places
        <5>2. Ahead(queue', QFlips', x) \in Nat
          BY <4>3, Places
        <5>3. w \in QFlips'
          BY <1>7, <4>2
        <5> HIDE DEF w
        <5> QED  BY <4>3, <5>1, <5>2, <5>3, Places
      <4> HIDE DEF w
      <4>5. Before(queue, id, w)
        BY <2>1, <4>2
      <4>6. PICK z \in QFlips : Follows(id, z)
        BY <1>1, <1>9, <4>2, <4>5 DEF Ring, Linked
      <4>7. z # id /\ z = w
        <5>1. z # id
          BY <1>3, <4>6, BeforeOrder DEF Follows
        <5>2. ~Before(queue, z, w)
          BY <1>4, <1>7, <4>2, <4>4, <5>1
        <5>3. ~Before(queue, w, z)
          BY <4>2, <4>5, <4>6 DEF Follows
        <5> QED  BY <1>3, <1>7, <4>2, <5>1, <5>2, <5>3, BeforeOrder
      <4>8. reqs'[w].front = reqs[id].back
        BY <1>6, <1>7, <4>2, <4>6, <4>7 DEF SameFrame, Follows
      <4>9. Shown' = reqs'[w].front
        BY <3>2 DEF Shown, w
      <4> QED  BY <4>8, <4>9
    <3> QED  BY <3>1, <3>2
  <2>9. Chain!Show
    BY <1>5, <2>5, <2>7, <2>8 DEF Chain!Show
  <2> QED  BY <2>9 DEF Chain!Next
<1> QED  BY <1>8, <1>9

-----------------------------------------------------------------------------
(***************************************************************************)
(* A hook moves nothing in the ring, and reserves at most the back buffer, *)
(* which is then neither shown nor on its way to the screen.               *)
(***************************************************************************)
Grabs(s, t) ==
  SameRing(s, t) /\ t.reserved \subseteq s.reserved \cup ({s.back} \ s.busy)

(* Two such hooks are one. *)
LEMMA GrabsTransitive ==
  ASSUME NEW s, NEW t, NEW u, Grabs(s, t), Grabs(t, u)
  PROVE  Grabs(s, u)
<1>1. SameRing(s, u)
  BY SameRingTransitive DEF Grabs
<1> QED  BY <1>1 DEF Grabs, SameRing

(* The parts of the hooks that reserve nothing, *)
LEMMA PartsReserve ==
  ASSUME NEW s \in FlipState, NEW b \in DRI2Buffer, NEW draw \in Drawables
  PROVE  /\ \A cond : Require(s, cond).reserved = s.reserved
         /\ GetNonSysBuf(s, b).reserved = s.reserved
         /\ GetSysBuf(s, b).reserved = s.reserved
         /\ HandOut(s, b).reserved = s.reserved
         /\ MigrateFromFs(s).reserved \subseteq s.reserved
         /\ TakeOver(s, draw).reserved \subseteq s.reserved
<1>1. \A cond : Require(s, cond).reserved = s.reserved
  BY DEF Require, FlipState
<1>2. GetNonSysBuf(s, b).reserved = s.reserved /\ GetSysBuf(s, b).reserved = s.reserved
  BY DEF GetNonSysBuf, GetSysBuf, FlipState
<1>3. HandOut(s, b).reserved = s.reserved
  BY DEF HandOut, FlipState
<1>4. MigrateFromFs(s).reserved \subseteq s.reserved
  <2> DEFINE f == s.user[s.front]
             c == s.user[s.back]
             r == Require(s, f[2] = "front" /\ c[2] = "back" /\ s.front \notin s.reserved)
  <2>1. CASE NoBuffer \in {f, c}
    BY <2>1 DEF MigrateFromFs, FlipState
  <2>2. CASE NoBuffer \notin {f, c}
    <3>1. r \in FlipState /\ r.reserved = s.reserved
      BY <1>1, RequireType
    <3>2. PICK n, u, o : MigrateFromFs(s) = [r EXCEPT !.name = n, !.reserved = @ \ {s.back},
                                                      !.user = u, !.owner = o]
      BY <2>2 DEF MigrateFromFs
    <3> HIDE DEF r
    <3>3. MigrateFromFs(s).reserved = r.reserved \ {s.back}
      BY <3>1, <3>2 DEF FlipState
    <3> QED  BY <3>1, <3>3
  <2> QED  BY <2>1, <2>2
<1>5. TakeOver(s, draw).reserved \subseteq s.reserved
  <2> DEFINE m == IF s.owner \in {NoDraw, draw} THEN s ELSE MigrateFromFs(s)
  <2>1. m \in FlipState /\ m.reserved \subseteq s.reserved
    BY <1>4, MigrateFromFsType
  <2>2. TakeOver(s, draw) = [m EXCEPT !.owner = draw]
    BY DEF TakeOver
  <2> HIDE DEF m
  <2> QED  BY <2>1, <2>2 DEF FlipState
<1> QED  BY <1>1, <1>2, <1>3, <1>4, <1>5

(* and the one that reserves the back buffer, which is tested first. *)
LEMMA PartsGrab ==
  ASSUME NEW s \in FlipState, NEW b \in DRI2Buffer, NEW draw \in Drawables
  PROVE  /\ Grabs(s, s)
         /\ \A cond : Grabs(s, Require(s, cond))
         /\ Grabs(s, GetNonSysBuf(s, b)) /\ Grabs(s, GetSysBuf(s, b))
         /\ Grabs(s, HandOut(s, b)) /\ Grabs(s, MigrateFromFs(s)) /\ Grabs(s, TakeOver(s, draw))
         /\ s.back \notin s.busy => Grabs(s, Reserve(s, b))
<1>1. Grabs(s, s)
  BY DEF Grabs, SameRing
<1>2. \A cond : Grabs(s, Require(s, cond))
  BY RequireRing, PartsReserve DEF Grabs
<1>3. /\ Grabs(s, GetNonSysBuf(s, b)) /\ Grabs(s, GetSysBuf(s, b))
      /\ Grabs(s, HandOut(s, b)) /\ Grabs(s, MigrateFromFs(s)) /\ Grabs(s, TakeOver(s, draw))
  BY HookPartsRing, PartsReserve DEF Grabs
<1>4. s.back \notin s.busy => Grabs(s, Reserve(s, b))
  <2>1. SameRing(s, Reserve(s, b))
    BY HookPartsRing
  <2>2. Reserve(s, b).reserved \subseteq s.reserved \cup {s.back}
    BY DEF Reserve, FlipState
  <2> QED  BY <2>1, <2>2 DEF Grabs
<1> QED  BY <1>1, <1>2, <1>3, <1>4

(* create_buf, *)
LEMMA CreateBufGrabs ==
  ASSUME NEW s \in FlipState, NEW b \in DRI2Buffer
  PROVE  Grabs(s, CreateBuf(s, b, fs))
<1> DEFINE n == [s EXCEPT !.held = @ \cup {b}, !.got = @ \ {b}]
           t == TakeOver(n, b[1])
           g == GetSysBuf(t, b)
           r == Reserve(g, b)
           p == GetNonSysBuf(n, b)
           poss == PageFlipPossible(n, b[1], fs)
<1>1. n \in FlipState /\ b[1] \in Drawables /\ SameRing(s, n) /\ n.reserved = s.reserved
  BY OtherFieldsRing DEF FlipState, DRI2Buffer
<1>2. CreateBuf(s, b, fs) = HandOut(IF poss THEN r ELSE p, b)
  BY DEF CreateBuf
<1>3. poss => n.back \notin n.busy
  BY DEF PageFlipPossible
<1> HIDE DEF n, poss
<1>4. Grabs(s, n)
  BY <1>1 DEF Grabs
<1>5. t \in FlipState /\ Grabs(n, t)
  BY <1>1, TakeOverType, PartsGrab
<1>6. p \in FlipState /\ Grabs(n, p)
  BY <1>1, GetNonSysBufType, PartsGrab
<1> HIDE DEF t, p
<1>7. g \in FlipState /\ Grabs(t, g)
  BY <1>1, <1>5, GetSysBufType, PartsGrab
<1> HIDE DEF g
<1>8. poss => g.back \notin g.busy
  BY <1>3, <1>5, <1>7 DEF Grabs, SameRing
<1>9. r \in FlipState /\ (poss => Grabs(g, r))
  BY <1>1, <1>7, <1>8, ReserveType, PartsGrab
<1> HIDE DEF r
<1>10. Grabs(s, p) /\ (poss => Grabs(s, r))
  BY <1>4, <1>5, <1>6, <1>7, <1>9, GrabsTransitive
<1>11. Grabs(r, HandOut(r, b)) /\ Grabs(p, HandOut(p, b))
  BY <1>1, <1>6, <1>9, PartsGrab
<1> QED  BY <1>2, <1>10, <1>11, GrabsTransitive

(* reuse_buf, *)
LEMMA ReuseBufGrabs ==
  ASSUME NEW s \in FlipState, NEW b \in DRI2Buffer
  PROVE  Grabs(s, ReuseBuf(s, b, fs))
<1> DEFINE m == LeaveIfNotCapable(s, b, fs)
           t == TakeOver(m, b[1])
           g == IF IsFs(t, b) THEN t ELSE GetSysBuf(t, b)
           r == Reserve(g, b)
           poss == PageFlipPossible(m, b[1], fs)
<1>1. b[1] \in Drawables /\ m \in FlipState
  BY LeaveType DEF DRI2Buffer
<1>2. Grabs(s, m)
  <2> DEFINE q == Require(s, IsFs(s, b))
  <2>1. q \in FlipState /\ Grabs(s, q) /\ Grabs(s, s)
    BY <1>1, RequireType, PartsGrab
  <2>2. m \in {s, MigrateFromFs(q)}
    BY DEF LeaveIfNotCapable
  <2> HIDE DEF q, m
  <2>3. Grabs(q, MigrateFromFs(q))
    BY <1>1, <2>1, PartsGrab
  <2> QED  BY <2>1, <2>2, <2>3, GrabsTransitive
<1>3. ReuseBuf(s, b, fs) = HandOut(IF poss THEN r ELSE m, b)
  BY DEF ReuseBuf
<1>4. poss => m.back \notin m.busy
  BY DEF PageFlipPossible
<1> HIDE DEF m, poss
<1>5. t \in FlipState /\ Grabs(m, t)
  BY <1>1, TakeOverType, PartsGrab
<1> HIDE DEF t
<1>6. g \in FlipState /\ Grabs(t, g)
  <2>1. GetSysBuf(t, b) \in FlipState /\ Grabs(t, GetSysBuf(t, b)) /\ Grabs(t, t)
    BY <1>1, <1>5, GetSysBufType, PartsGrab
  <2> QED  BY <1>5, <2>1
<1> HIDE DEF g
<1>7. poss => g.back \notin g.busy
  BY <1>4, <1>5, <1>6 DEF Grabs, SameRing
<1>8. r \in FlipState /\ (poss => Grabs(g, r))
  BY <1>1, <1>6, <1>7, ReserveType, PartsGrab
<1> HIDE DEF r
<1>9. poss => Grabs(s, r)
  BY <1>2, <1>5, <1>6, <1>8, GrabsTransitive
<1>10. Grabs(r, HandOut(r, b)) /\ Grabs(m, HandOut(m, b))
  BY <1>1, <1>8, PartsGrab
<1> QED  BY <1>2, <1>3, <1>9, <1>10, GrabsTransitive

(* destroy_buf, which gives up, *)
LEMMA DropGivesUp ==
  ASSUME NEW s \in FlipState, NEW b
  PROVE  /\ DropBuf(s, b) \in FlipState /\ DropBuf(s, b).reserved \subseteq s.reserved
         /\ Grabs(s, DropBuf(s, b))
<1>1. CASE b \notin s.held
  BY <1>1 DEF DropBuf, Grabs, SameRing
<1>2. CASE b \in s.held
  <2>1. b \in DRI2Buffer /\ DropBuf(s, b) = DestroyBuf(s, b)
    BY <1>2 DEF DropBuf, FlipState
  <2> DEFINE at == {i \in {s.front, s.back} : s.owner = b[1] /\ s.user[i] = b}
             r  == Require(s, s.front \in at => s.front \notin s.reserved)
             t  == DestroyBuf(s, b)
  <2>2. r \in FlipState /\ r.reserved = s.reserved
    BY RequireType DEF Require, FlipState
  <2>3. PICK u, o, v : /\ v = IF s.back \in at THEN r.reserved \ {s.back} ELSE r.reserved
                       /\ t = [r EXCEPT !.user = u, !.reserved = v, !.owner = o,
                                        !.held = @ \ {b}, !.got = @ \ {b}, !.name[b] = Private]
    <3>1. \A u, v : /\ [r EXCEPT !.user = u].reserved = r.reserved
                    /\ [r EXCEPT !.user = u, !.reserved = v].owner = r.owner
      <4> HIDE DEF r
      <4> QED  BY <2>2 DEF FlipState
    <3> QED  BY <3>1 DEF DestroyBuf
  <2> HIDE DEF r, at, t
  <2>4. t.reserved = v
    BY <2>2, <2>3 DEF FlipState
  <2>5. t \in FlipState /\ SameRing(s, t)
    BY <2>1, DestroyBufType, DestroyBufRing DEF t
  <2>6. t.reserved \subseteq s.reserved
    BY <2>2, <2>3, <2>4
  <2> QED  BY <2>1, <2>5, <2>6 DEF Grabs, t
<1> QED  BY <1>1, <1>2

(* and what the DRI2 module makes of the hooks. *)
LEMMA ModuleGrabs ==
  ASSUME pf \in FlipState, NEW s \in FlipState, NEW draw \in Drawables
  PROVE  /\ \A att \in Attachment, resized \in BOOLEAN : Grabs(s, Provide(s, draw, att, resized))
         /\ \A keepBack, resized \in BOOLEAN : Grabs(s, DropOld(s, draw, keepBack, resized))
         /\ Grabs(s, Settle(s, draw))
<1>1. ASSUME NEW att \in Attachment, NEW resized \in BOOLEAN
      PROVE  Grabs(s, Provide(s, draw, att, resized))
  <2>1. <<draw, att, 0>> \in DRI2Buffer /\ <<draw, att, 1>> \in DRI2Buffer
    BY DEF DRI2Buffer
  <2>2. BufferOf(pf, draw, att) = NoBuffer \/ BufferOf(pf, draw, att) \in DRI2Buffer
    BY <2>1 DEF BufferOf
  <2>3. Grabs(s, CreateBuf(s, <<draw, att, 0>>, fs)) /\ Grabs(s, CreateBuf(s, <<draw, att, 1>>, fs))
    BY <2>1, CreateBufGrabs
  <2>4. BufferOf(pf, draw, att) # NoBuffer => Grabs(s, ReuseBuf(s, BufferOf(pf, draw, att), fs))
    BY <2>2, ReuseBufGrabs
  <2> QED  BY <2>3, <2>4 DEF Provide
<1>2. ASSUME NEW keepBack \in BOOLEAN, NEW resized \in BOOLEAN
      PROVE  Grabs(s, DropOld(s, draw, keepBack, resized))
  <2> DEFINE b == BufferOf(pf, draw, "back")
             f == BufferOf(pf, draw, "front")
             t == IF resized \/ ~keepBack THEN DropBuf(s, b) ELSE s
  <2>1. DropOld(s, draw, keepBack, resized) = IF resized THEN DropBuf(t, f) ELSE t
    BY DEF DropOld
  <2>2. Grabs(s, s)
    BY DEF Grabs, SameRing
  <2>3. t \in FlipState /\ Grabs(s, t)
    BY <2>2, DropGivesUp
  <2> HIDE DEF t, f
  <2>4. Grabs(t, DropBuf(t, f))
    BY <2>3, DropGivesUp
  <2> QED  BY <2>1, <2>3, <2>4, GrabsTransitive
<1>3. Grabs(s, Settle(s, draw))
  <2>1. PICK u, h, g, n : Settle(s, draw) = [s EXCEPT !.user = u, !.held = h, !.got = g, !.name = n]
    BY DEF Settle
  <2>2. Settle(s, draw).reserved = s.reserved
    BY <2>1 DEF FlipState
  <2> QED  BY <2>2, ModuleRing DEF Grabs
<1> QED  BY <1>1, <1>2, <1>3

(* So a client that asks for its buffers, *)
LEMMA GetBuffersGrabs ==
  ASSUME TypeOK, NEW draw \in Drawables, NEW resized \in BOOLEAN,
         GetBuffers(draw, resized) \/ GetFrontBuffer(draw, resized)
  PROVE  Grabs(pf, pf')
<1> DEFINE b == Provide(pf, draw, "back", resized)
           g == Provide(b, draw, "front", resized)
           h == Provide(pf, draw, "front", resized)
<1>1. pf \in FlipState /\ "back" \in Attachment /\ "front" \in Attachment
  BY DEF TypeOK, Attachment
<1>2. b \in FlipState /\ Grabs(pf, b) /\ h \in FlipState /\ Grabs(pf, h)
  BY <1>1, ProvideType, ModuleGrabs
<1>3. PICK u \in {g, h} : \E keep \in BOOLEAN : pf' = Settle(DropOld(u, draw, keep, resized), draw)
  BY DEF GetBuffers, GetFrontBuffer
<1> HIDE DEF b
<1>4. g \in FlipState /\ Grabs(b, g)
  BY <1>1, <1>2, ProvideType, ModuleGrabs
<1>5. u \in FlipState /\ Grabs(pf, u)
  BY <1>2, <1>3, <1>4, GrabsTransitive
<1>6. PICK keep \in BOOLEAN : pf' = Settle(DropOld(u, draw, keep, resized), draw)
  BY <1>3
<1> DEFINE w == DropOld(u, draw, keep, resized)
<1>7. w \in FlipState /\ Grabs(u, w)
  BY <1>1, <1>5, DropOldType, ModuleGrabs
<1> HIDE DEF w
<1>8. Grabs(w, pf')
  BY <1>1, <1>6, <1>7, ModuleGrabs DEF w
<1> QED  BY <1>5, <1>7, <1>8, GrabsTransitive

(* one that destroys its window, *)
LEMMA DestroyDrawableGrabs ==
  ASSUME TypeOK, NEW draw \in Drawables, DestroyDrawable(draw)
  PROVE  Grabs(pf, pf')
<1> DEFINE s == DropBuf(pf, BufferOf(pf, draw, "back"))
<1>1. s \in FlipState /\ Grabs(pf, s)
  BY DropGivesUp DEF TypeOK
<1>2. pf' = DropBuf(s, BufferOf(pf, draw, "front"))
  BY DEF DestroyDrawable
<1> HIDE DEF s
<1>3. Grabs(s, pf')
  BY <1>1, <1>2, DropGivesUp
<1> QED  BY <1>1, <1>3, GrabsTransitive

(* and one whose swap is a copy take at most a buffer that is free. *)
LEMMA SwapByCopyGrabs ==
  ASSUME TypeOK, NEW draw \in Drawables, SwapByCopy(draw)
  PROVE  Grabs(pf, pf')
<1> DEFINE b == BufferOf(pf, draw, "back")
           q == Require(pf, pf.front \notin pf.reserved /\ pf.back \in pf.reserved)
           v == q.reserved \ {pf.back}
           a == IF pf.owner = draw THEN [q EXCEPT !.reserved = v] ELSE pf
           r == Require(a, b \in a.got)
<1>1. pf \in FlipState
  BY DEF TypeOK
<1>2. q \in FlipState /\ q.reserved = pf.reserved
  BY <1>1, RequireType DEF Require, FlipState
<1>3. pf' = [r EXCEPT !.got = @ \ {b}]
  BY DEF SwapByCopy, EndReservation
<1> HIDE DEF q
<1>4. a \in FlipState /\ a.reserved \subseteq pf.reserved
  <2>1. v \in SUBSET Buf
    BY <1>2 DEF FlipState
  <2> HIDE DEF v
  <2>2. [q EXCEPT !.reserved = v] \in FlipState /\ [q EXCEPT !.reserved = v].reserved = v
    BY <1>2, <2>1 DEF FlipState
  <2> QED  BY <1>1, <1>2, <2>2 DEF v
<1> HIDE DEF a
<1>5. r \in FlipState /\ r.reserved = a.reserved
  BY <1>4, RequireType DEF Require, FlipState
<1> HIDE DEF r
<1>6. pf'.reserved = r.reserved
  BY <1>3, <1>5 DEF FlipState
<1> QED  BY <1>4, <1>5, <1>6, SwapByCopyUnmoved DEF Grabs

(* The chain sees the client take the buffer, or give it up. *)
LEMMA GrabbedChain ==
  ASSUME Joined, TypeOK', LifeCycle', Idle, Grabs(pf, pf'), queue' = queue, reqs' = reqs
  PROVE  [Chain!Next]_Chain!vars
<1>1. pf'.front = pf.front /\ pf'.back = pf.back
  BY DEF Grabs, SameRing
<1>2. QFlips' = QFlips
  BY DEF QFlips
<1>3. Shown' = Shown /\ InFlight' = InFlight
  BY <1>1, <1>2, ChainKept DEF Joined
<1>4. CASE pf'.back \notin pf'.reserved \/ pf.back \in pf.reserved
  BY <1>1, <1>3, <1>4 DEF Chain!Next, Chain!GiveUp, Chain!vars
<1>5. CASE pf'.back \in pf'.reserved /\ pf.back \notin pf.reserved
  <2>1. pf.back \notin pf.busy
    BY <1>1, <1>5 DEF Grabs
  <2>2. pf.back \notin Chain!InUse
    BY <2>1, InUseIsOccupied, NoneFlipped DEF Joined, Idle
  <2> QED  BY <1>1, <1>3, <1>5, <2>2 DEF Chain!Next, Chain!Acquire
<1> QED  BY <1>4, <1>5

LEMMA ClientChain ==
  ASSUME Joined, TypeOK', LifeCycle', NEW draw \in Drawables, NEW resized \in BOOLEAN,
         \/ GetBuffers(draw, resized) \/ GetFrontBuffer(draw, resized)
         \/ DestroyDrawable(draw) \/ SwapByCopy(draw)
  PROVE  [Chain!Next]_Chain!vars
<1>1. Grabs(pf, pf')
  BY GetBuffersGrabs, DestroyDrawableGrabs, SwapByCopyGrabs DEF Joined
<1>2. Idle /\ queue' = queue /\ reqs' = reqs
  BY DEF GetBuffers, GetFrontBuffer, DestroyDrawable, SwapByCopy, Swappable
<1> QED  BY <1>1, <1>2, GrabbedChain

-----------------------------------------------------------------------------
(* What is submitted is not reserved any more, *)
LEMMA PreparedReserves ==
  ASSUME NEW s \in FlipState, NEW draw \in Drawables, NEW f \in DRI2Buffer, NEW b \in DRI2Buffer,
         s.back \notin s.busy
  PROVE  /\ PrepareFlip(s, draw, f, b) \in FlipState
         /\ PrepareFlip(s, draw, f, b).reserved \subseteq s.reserved \ {s.back}
<1> DEFINE a == Require(s, s.owner \in {NoDraw, draw} \/ s.back \notin s.reserved)
           t == TakeOver(a, draw)
           g == GetSysBuf(t, f)
           h == GetSysBuf(g, b)
           r == Reserve(h, b)
           m == IF s.owner = draw THEN s ELSE r
           q == Require(m, b \in m.got /\ m.front \notin m.reserved /\ m.back \in m.reserved)
           p == PrepareFlip(s, draw, f, b)
<1>1. a \in FlipState /\ Grabs(s, a) /\ Grabs(s, s)
  BY RequireType, PartsGrab
<1>2. p = [q EXCEPT !.got = @ \ {b}, !.reserved = @ \ {m.back}]
  BY DEF PrepareFlip
<1>3. p \in FlipState
  BY PrepareFlipType
<1> HIDE DEF a, p
<1>4. t \in FlipState /\ Grabs(a, t)
  BY <1>1, TakeOverType, PartsGrab
<1> HIDE DEF t
<1>5. g \in FlipState /\ Grabs(t, g)
  BY <1>4, GetSysBufType, PartsGrab
<1> HIDE DEF g
<1>6. h \in FlipState /\ Grabs(g, h)
  BY <1>5, GetSysBufType, PartsGrab
<1> HIDE DEF h
<1>7. Grabs(s, h) /\ h.back \notin h.busy
  <2>1. Grabs(s, h)
    BY <1>1, <1>4, <1>5, <1>6, GrabsTransitive
  <2> QED  BY <2>1 DEF Grabs, SameRing
<1>8. r \in FlipState /\ Grabs(h, r)
  BY <1>6, <1>7, ReserveType, PartsGrab
<1> HIDE DEF r
<1>9. m \in FlipState /\ Grabs(s, m)
  BY <1>1, <1>7, <1>8, GrabsTransitive
<1> HIDE DEF m
<1>10. q \in FlipState /\ q.reserved = m.reserved
  BY <1>9, RequireType DEF Require, FlipState
<1> HIDE DEF q
<1>11. p.reserved = q.reserved \ {m.back}
  BY <1>2, <1>10 DEF FlipState
<1> QED  BY <1>3, <1>9, <1>10, <1>11 DEF Grabs, SameRing, p

(* nor does the submission reserve another buffer. *)
LEMMA SubmitReserves ==
  ASSUME NEW s \in FlipState, NEW f \in DRI2Buffer, NEW b \in DRI2Buffer
  PROVE  Submit(s, f, b) \in FlipState /\ Submit(s, f, b).reserved = s.reserved
<1> DEFINE r == Require(s, s.name[f] = s.front /\ s.name[b] = s.back /\ s.back \notin s.busy)
           v == r.busy \cup {s.back}
           n == r.completes + 1
           r1 == [r EXCEPT !.busy = v]
           q == [r1 EXCEPT !.completes = n]
           x == Require(q, q.name[f] = q.front /\ q.name[b] = q.back)
           t == ExchangeBufs(q, f, b)
<1>1. r \in FlipState /\ r.reserved = s.reserved
  BY RequireType DEF Require, FlipState
<1> HIDE DEF r
<1>2. v \in SUBSET Buf /\ n \in Int /\ r1.completes = r.completes
  BY <1>1 DEF FlipState
<1>3. Submit(s, f, b) = t
  BY <1>2 DEF Submit, r
<1> HIDE DEF v, n
<1>4. r1 \in FlipState /\ r1.reserved = s.reserved
  BY <1>1, <1>2 DEF FlipState
<1> HIDE DEF r1
<1>5. q \in FlipState /\ q.reserved = s.reserved
  BY <1>2, <1>4 DEF FlipState
<1> HIDE DEF q
<1>6. x \in FlipState /\ x.reserved = s.reserved
  BY <1>5, RequireType DEF Require, FlipState
<1>7. PICK fr, ba, nm, us : t = [x EXCEPT !.front = fr, !.back = ba, !.name = nm, !.user = us]
  <2>1. \A fr, ba, nm :
          /\ [x EXCEPT !.front = fr, !.back = ba].name = x.name
          /\ [x EXCEPT !.front = fr, !.back = ba, !.name = nm].user = x.user
    <3> HIDE DEF x
    <3> QED  BY <1>6 DEF FlipState
  <2> QED  BY <2>1 DEF ExchangeBufs
<1>8. t \in FlipState
  BY <1>5, ExchangeBufsType
<1> HIDE DEF x, t
<1>9. t.reserved = x.reserved
  BY <1>6, <1>7 DEF FlipState
<1> QED  BY <1>3, <1>6, <1>8, <1>9

LEMMA SwapByFlipReserves ==
  ASSUME Joined, NEW draw \in Drawables, SwapByFlip(draw)
  PROVE  pf'.reserved = {}
<1> DEFINE f    == BufferOf(pf, draw, "front")
           b    == BufferOf(pf, draw, "back")
           p    == PrepareFlip(pf, draw, f, b)
           sub  == Submit(p, f, b)
           now  == CompleteAtOnce(sub)
           n    == sub.completes - 1
           done == IF now THEN [sub EXCEPT !.completes = n] ELSE sub
<1>1. f \in DRI2Buffer /\ b \in DRI2Buffer /\ pf \in FlipState
  BY DEF SwapByFlip, Swappable, Joined, TypeOK, FlipState
<1>2. pf' = Require(done, done.completes < 2)
  BY DEF SwapByFlip
<1>3. pf.back \notin pf.busy /\ pf.reserved \subseteq {pf.back}
  <2>1. ReservedExact(pf)
    BY DEF SwapByFlip, Swappable, Idle, Up, Joined, Claims, Claim
  <2> QED  BY <2>1 DEF ReservedExact, SwapByFlip, PageFlipPossible
<1> HIDE DEF f, b
<1>4. p \in FlipState /\ p.reserved = {}
  BY <1>1, <1>3, PreparedReserves
<1> HIDE DEF p
<1>5. sub \in FlipState /\ sub.reserved = {}
  BY <1>1, <1>4, SubmitReserves
<1> HIDE DEF sub, now
<1>6. done \in FlipState /\ done.reserved = {}
  <2>1. n \in Int
    BY <1>5 DEF FlipState
  <2> HIDE DEF n
  <2> QED  BY <1>5, <2>1 DEF FlipState
<1> HIDE DEF done
<1> QED  BY <1>2, <1>6 DEF Require, FlipState

(***************************************************************************)
(* A swap by a flip appends the buffer that was drawn to the chain, and    *)
(* goes on to the next one of the ring.                                    *)
(***************************************************************************)
LEMMA SwapByFlipChain ==
  ASSUME Joined, TypeOK', LifeCycle', NEW draw \in Drawables, SwapByFlip(draw)
  PROVE  [Chain!Next]_Chain!vars
<1> DEFINE B == pf.back
           k == Cardinality(QFlips)
<1>1. PICK now \in BOOLEAN :
        /\ pf'.front = B /\ pf'.back = NextBuf(B)
        /\ reqs' = WithReq(NewId, [NewFlip(draw) EXCEPT !.completed = now])
  BY SwapByFlipEffect DEF Joined
<1>2. /\ Idle /\ Up /\ B \notin pf.busy /\ B \in Buf /\ Free # {}
      /\ queue' = Append(queue, NewId) /\ pf'.reserved = {}
  BY RoomFree, SwapByFlipReserves
    DEF SwapByFlip, Swappable, PageFlipPossible, Idle, Joined, TypeOK, FlipState
<1>3. PICK n \in ReqIds : n = NewId /\ ~reqs[n].used
  BY <1>2, NewIdFree DEF Joined
<1>4. /\ reqs'[n].type = "flip" /\ reqs'[n].front = pf.front /\ reqs'[n].back = B
      /\ \A x \in ReqIds \ {n} : reqs'[x] = reqs[x]
  <2>1. /\ reqs'[n] = [NewFlip(draw) EXCEPT !.completed = now]
        /\ \A x \in ReqIds \ {n} : reqs'[x] = reqs[x]
    BY <1>1, <1>3, WithReqValues DEF Joined
  <2> QED  BY <2>1 DEF NewFlip
<1>5. Elems(queue) \subseteq ReqIds /\ queue \in Seq(ReqIds) /\ NoRepeat(queue)
      /\ (\A x \in Elems(queue) : reqs[x].used) /\ queue' \in Seq(ReqIds) /\ NoRepeat(queue')
  BY DEF Joined, LifeCycle, QueueIsLive, TypeOK
<1>6. n \notin Elems(queue) /\ \A x \in Elems(queue) : reqs'[x] = reqs[x]
  BY <1>3, <1>4, <1>5
<1>7. /\ Elems(queue') = Elems(queue) \cup {n}
      /\ \A x, y : Before(queue', x, y) <=> Before(queue, x, y) \/ (x \in Elems(queue) /\ y = n)
  BY <1>2, <1>3, <1>5, <1>6, AppendOrder
<1>8. /\ QFlips' = QFlips \cup {n} /\ QFlips \subseteq Elems(queue) /\ n \notin QFlips
      /\ \A x \in QFlips : reqs'[x] = reqs[x]
  BY <1>4, <1>6, <1>7 DEF QFlips
<1>9. /\ Cardinality(QFlips') = k + 1 /\ k \in Nat
      /\ Nth(queue', QFlips', k + 1) = n
      /\ \A i \in 1 .. k : /\ Nth(queue', QFlips', i) = Nth(queue, QFlips, i)
                           /\ Nth(queue, QFlips, i) \in QFlips
  <2>1. PICK q, p, S : q = queue /\ p = queue' /\ S = QFlips
    OBVIOUS
  <2>2. LastComes(q, p, S, n)
    BY <1>5, <1>6, <1>7, <1>8, <2>1 DEF LastComes
  <2>3. /\ Cardinality(S \cup {n}) = Cardinality(S) + 1 /\ Cardinality(S) \in Nat
        /\ Nth(p, S \cup {n}, Cardinality(S) + 1) = n
        /\ \A i \in 1 .. Cardinality(S) :
             Nth(p, S \cup {n}, i) = Nth(q, S, i) /\ Nth(q, S, i) \in S
    BY <2>2, LastPlace
  <2> QED  BY <1>8, <2>1, <2>3
<1>10. InFlight \in Seq(Buf) /\ Len(InFlight) = k /\ (QFlips = {} <=> k = 0)
  BY <1>2, InFlightType DEF Joined
<1>11. InFlight' = Append(InFlight, B)
  <2>1. InFlight' = [i \in 1 .. k + 1 |-> reqs'[Nth(queue', QFlips', i)].back]
    BY <1>9 DEF InFlight
  <2>2. \A i \in 1 .. k : /\ reqs'[Nth(queue', QFlips', i)].back = reqs[Nth(queue, QFlips, i)].back
                          /\ InFlight[i] = reqs[Nth(queue, QFlips, i)].back
    BY <1>8, <1>9 DEF InFlight
  <2>3. reqs'[Nth(queue', QFlips', k + 1)].back = B
    BY <1>4, <1>9
  <2> HIDE DEF k
  <2>4. /\ Append(InFlight, B) \in Seq(Buf) /\ Len(Append(InFlight, B)) = k + 1
        /\ \A i \in 1 .. k : Append(InFlight, B)[i] = InFlight[i]
        /\ Append(InFlight, B)[k + 1] = B
    BY <1>2, <1>9, <1>10
  <2>5. \A i \in 1 .. k + 1 : InFlight'[i] = Append(InFlight, B)[i]
    <3>1. \A i \in 1 .. k + 1 : i \in 1 .. k \/ i = k + 1
      BY <1>9
    <3> QED  BY <2>1, <2>2, <2>3, <2>4, <3>1
  <2>6. InFlight' \in Seq(Buf) /\ Len(InFlight') = k + 1
    <3>1. \A i \in 1 .. k + 1 : Append(InFlight, B)[i] \in Buf
      BY <1>9, <2>4
    <3>2. \A i \in 1 .. k + 1 : reqs'[Nth(queue', QFlips', i)].back \in Buf
      BY <2>1, <2>5, <3>1
    <3> QED  BY <1>9, <2>1, <3>2
  <2> QED  BY <2>4, <2>5, <2>6, SeqEqual
<1>12. Shown' = Shown
  <2>1. QFlips' # {} /\ Shown' = reqs'[Nth(queue', QFlips', 1)].front
    BY <1>8 DEF Shown
  <2>2. CASE k = 0
    BY <1>4, <1>9, <1>10, <2>1, <2>2 DEF Shown
  <2>3. CASE k # 0
    <3>1. 1 \in 1 .. k
      BY <1>9, <2>3
    <3> HIDE DEF k
    <3> QED  BY <1>8, <1>9, <1>10, <2>1, <2>3, <3>1 DEF Shown
  <2> QED  BY <2>2, <2>3
<1>13. B \notin Chain!InUse
  BY <1>2, InUseIsOccupied, NoneFlipped DEF Joined
<1>14. pf'.back = Chain!After(pf.back)
  BY <1>1 DEF NextBuf, Chain!After, Chain!Plus
<1>15. Chain!SubmitFrame
  BY <1>2, <1>11, <1>12, <1>13, <1>14 DEF Chain!SubmitFrame
<1> QED  BY <1>15 DEF Chain!Next

-----------------------------------------------------------------------------
(* Without a flip in the queue the chain is empty. *)
LEMMA EmptyInFlight ==
  /\ QFlips = {} => InFlight = <<>>
  /\ QFlips' = {} => InFlight' = <<>>
<1>1. \A f : [i \in 1 .. 0 |-> f[i]] = <<>>
  <2> SUFFICES ASSUME NEW f PROVE [i \in 1 .. 0 |-> f[i]] = <<>>
    OBVIOUS
  <2>1. [i \in 1 .. 0 |-> f[i]] \in Seq({}) /\ Len([i \in 1 .. 0 |-> f[i]]) = 0
    OBVIOUS
  <2> QED  BY <2>1, EmptySeq
<1>2. Cardinality({}) = 0
  BY FS_EmptySet
<1> QED  BY <1>1, <1>2 DEF InFlight

(* A resize drops what is in flight and starts the ring again. *)
LEMMA ResizeScreenChain ==
  ASSUME ResizeScreen
  PROVE  [Chain!Next]_Chain!vars
<1> DEFINE k == KillChecked(pf)
           r == RecreateFlip(k)
<1>1. queue' = <<>>
  BY DEF ResizeScreen
<1>2. pf'.front = 0 /\ pf'.back = NextBuf(0) /\ pf'.reserved = {}
  <2>1. PICK px, sv, nm : r = [FreshFlip EXCEPT !.held = k.held, !.got = k.got, !.name = nm,
                                                !.pixmaps = px, !.server = sv]
    BY DEF RecreateFlip
  <2>2. pf' = r \/ pf' = [r EXCEPT !.server = "segfault"]
    BY DEF ResizeScreen, UpdateFlipPixmaps
  <2>3. r.front = 0 /\ r.back = NextBuf(0) /\ r.reserved = {}
    BY <2>1 DEF FreshFlip
  <2>4. \A x : LET q == [r EXCEPT !.server = x]
               IN  q.front = r.front /\ q.back = r.back /\ q.reserved = r.reserved
    BY <2>1 DEF FreshFlip
  <2> QED  BY <2>2, <2>3, <2>4
<1>3. QFlips' = {}
  BY <1>1 DEF Elems, QFlips
<1>4. Shown' = 0 /\ InFlight' = <<>>
  BY <1>2, <1>3, EmptyInFlight DEF Shown
<1>5. NextBuf(0) = Chain!After(0)
  BY DEF NextBuf, Chain!After, Chain!Plus
<1>6. Chain!Reset
  BY <1>2, <1>4, <1>5 DEF Chain!Reset
<1> QED  BY <1>6 DEF Chain!Next

(* The server starts with an empty chain. *)
LEMMA InitChain == Init => Chain!Init
<1> SUFFICES ASSUME Init PROVE Chain!Init
  OBVIOUS
<1>1. QFlips = {}
  BY DEF Init, Elems, QFlips
<1>2. pf.front = 0 /\ pf.back = NextBuf(0) /\ pf.reserved = {}
  BY DEF Init, FreshFlip
<1>3. Shown = 0 /\ InFlight = <<>>
  BY <1>1, <1>2, EmptyInFlight DEF Shown
<1> QED  BY <1>2, <1>3 DEF Chain!Init, Chain!After, Chain!Plus, NextBuf

(* Every step is one of the chain, or does not show there. *)
LEMMA NextChain == Joined /\ TypeOK' /\ LifeCycle' /\ [Next]_vars => [Chain!Next]_Chain!vars
<1> SUFFICES ASSUME Joined, TypeOK', LifeCycle', [Next]_vars PROVE [Chain!Next]_Chain!vars
  OBVIOUS
<1>1. TypeOK /\ LifeCycle /\ Ring
  BY DEF Joined
<1>2. ASSUME UNCHANGED <<pf, queue>>, reqs' = reqs PROVE [Chain!Next]_Chain!vars
  <2>1. QFlips' = QFlips
    BY <1>2 DEF QFlips
  <2>2. Shown' = Shown /\ InFlight' = InFlight
    BY <1>2, <2>1 DEF Shown, InFlight
  <2> QED  BY <1>2, <2>2 DEF Chain!vars
<1>3. CASE ServerCall
  BY <1>1, <1>3, HandlerChain, FlipDoneChain, DamageChain DEF ServerCall
<1>4. CASE Client
  <2>1. ASSUME NEW d \in Drawables \cup {NoDraw}, SetFullscreen(d)
        PROVE  [Chain!Next]_Chain!vars
    BY <1>2, <2>1 DEF SetFullscreen
  <2>2. ASSUME NEW a \in Areas, DrawOnScreen(a) PROVE [Chain!Next]_Chain!vars
    BY <1>2, <2>2 DEF DrawOnScreen
  <2> QED  BY <1>4, <2>1, <2>2, ClientChain, SwapByFlipChain DEF Client
<1>5. CASE Kernel
  BY <1>2, <1>5 DEF Kernel, RenderDone, VBlank, TransferDone, FlipEvent
<1>6. CASE \E o \in Overlays : CrtcDpms(o)
  BY <1>2, <1>6 DEF CrtcDpms
<1>7. CASE ResizeScreen
  BY <1>7, ResizeScreenChain
<1>8. CASE UNCHANGED vars
  BY <1>2, <1>8 DEF vars
<1> QED  BY <1>3, <1>4, <1>5, <1>6, <1>7, <1>8 DEF Next

(***************************************************************************)
(* The queue, the buffer flags and the throttling together implement the   *)
(* ring of FlipChain, for every number of flip buffers, windows, overlays  *)
(* and requests, and whatever fails: frames are shown in the order of the  *)
(* swaps, and none is drawn over one that is in flight.                    *)
(***************************************************************************)
THEOREM ImplementsFlipChain == Spec => ImplementsChain
<1>1. Joined => TypeOK /\ LifeCycle
  BY DEF Joined
<1> QED  BY <1>1, InitChain, NextChain, ClaimsInOrder, PTL DEF Spec, ImplementsChain, Chain!Spec
=============================================================================
