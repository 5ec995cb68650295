----------------------------- MODULE VideoPort -----------------------------
(***************************************************************************)
(* The Xv ports (omap_video.c) and the CRTCs (crtc.c), which compete for   *)
(* the overlays of module Overlays and share one of them when a video is   *)
(* cloned: the overlay of the other CRTC then scans the port's framebuffer *)
(* and every frame of the port goes through that CRTC's set_mode_major.    *)
(*                                                                         *)
(* Every request runs to its end in the one thread of the X server, so it  *)
(* is one action; its steps are operators from state to state, in the      *)
(* order of the code.  Within a request the steps of one kind may fail.    *)
(* The images are always double buffered and waited for (the defaults).    *)
(* The rotations are those of module VideoGeometry.                        *)
(***************************************************************************)
EXTENDS Overlays, VideoGeometry

CONSTANTS
  Ports,       \* the video ports in use, among 0 and 1
  Attributes,  \* the attributes that clients set
  Stackings,   \* and the values they give to that of stacking
  Faults,      \* the steps that may fail
  Clones,      \* the CRTCs whose output has XvClones set
  DpmsCrtcs,   \* the CRTCs that DPMS switches off while they are in use
  Rotations,   \* the rotations that clients and RandR ask for
  Rotated,     \* the CRTCs for which RandR does
  Display      \* what the display of each CRTC can do itself: mirror, rotate

ASSUME VideoPortAssumption ==
  /\ ScreenSize \in Sizes
  /\ Ports \subseteq 0 .. 1
  /\ Attributes \subseteq {"reserve", "clone", "colorkey", "disable_colorkey", "sync", "rotation"}
  /\ Rotations \subseteq Rotation /\ Rotated \subseteq Crtc
  /\ Display \in [Crtc -> [mirror : BOOLEAN, rotate : BOOLEAN]]
  /\ Stackings \subseteq {"XV", "XV1", "XV2"}
  /\ Faults \subseteq Fault \ {"none"}
  /\ Clones \subseteq Crtc /\ DpmsCrtcs \subseteq Crtc

VARIABLE dev

NoPort == -1

(* setup_adaptor: the ports take the framebuffers from the last one down. *)
VideoFb(v) == 2 - v

FreshPort ==
  [state |-> "stopped", kind |-> "video", ovl |-> NoOverlay, crtc |-> NoCrtc,
   clone |-> TRUE, cloneCrtc |-> NoCrtc, updateClone |-> FALSE, allocated |-> FALSE,
   dirty |-> FALSE, reserved |-> FALSE, stacking |-> "XV", noKey |-> FALSE,
   timer |-> FALSE, rotation |-> Rotate0, turn |-> Rotate0]

Ovl(s, v) == s.port[v].ovl
Active(s, v) == s.port[v].state = "active"

-----------------------------------------------------------------------------
(* Taking and giving back an overlay, for a CRTC and for a port. *)

(* A free overlay is given a framebuffer, or goes back to the pool. *)
PoolGet(s, o, use, f) ==
  LET a == FbAssignOverlay([s EXCEPT !.usage[o] = use], f, o) IN
  IF o = NoOverlay THEN [s EXCEPT !.failed = TRUE]
  ELSE IF a.failed THEN [PoolPut(a, o) EXCEPT !.failed = TRUE] ELSE a

GetCrtcOverlay(s, c) ==
  LET o == PoolChoice(s, c)
      got == PoolGet(s, o, c, 0)
  IN IF s.failed \/ s.crtcOvl[c] # NoOverlay THEN s
     ELSE IF got.failed THEN got ELSE [got EXCEPT !.crtcOvl[c] = o]

(* mutant: the CRTC keeps its pointer to the overlay. *)
PutCrtcOverlayOnly(s, c) ==
  IF s.crtcOvl[c] = NoOverlay THEN s ELSE PoolPut(s, s.crtcOvl[c])

PutCrtcOverlay(s, c) ==
  IF s.crtcOvl[c] = NoOverlay THEN s
  ELSE [PoolPut(s, s.crtcOvl[c]) EXCEPT !.crtcOvl[c] = NoOverlay]

GetOverlay(s, v) ==
  LET use == s.port[v].stacking
      o == PoolChoice(s, use)
      got == PoolGet(s, o, use, VideoFb(v))
  IN IF Ovl(s, v) # NoOverlay THEN s
     ELSE IF got.failed THEN got
     ELSE [got EXCEPT !.port[v].ovl = o, !.port[v].dirty = TRUE]

PutOverlay(s, v) ==
  IF Ovl(s, v) = NoOverlay THEN s
  ELSE [PoolPut(s, Ovl(s, v)) EXCEPT !.port[v].ovl = NoOverlay]

-----------------------------------------------------------------------------
(* Setting a mode, which is also how a clone starts, follows and ends. *)

(* get_clone_info: the first port whose video may be cloned. *)
CloneInfo(s) ==
  LET cloned == {v \in Ports : s.port[v].clone /\ Active(s, v)}
  IN IF cloned = {} THEN NoPort ELSE CHOOSE v \in cloned : \A w \in cloned : v =< w

CloneActive(s, c) == CloneInfo(s) # NoPort /\ s.port[CloneInfo(s)].cloneCrtc = c

Lit(s, c) == s.enabled[c] /\ s.dpms[c]

(* Give the CRTC's overlay the framebuffer f, with the overlay switched off. *)
SwitchFb(s, c, f) ==
  IF s.failed \/ s.fb[s.crtcOvl[c]] = f THEN s
  ELSE FbAssignOverlay(OverlayDisable(s, s.crtcOvl[c]), f, s.crtcOvl[c])

(* mutant: the clone never starts. *)
ChooseScreen(s, c) == IF s.failed THEN s ELSE SwitchFb(s, c, 0)

(* The video of the cloned port, or else the screen. *)
ChooseSource(s, c) ==
  LET cloned == SwitchFb(s, c, VideoFb(CloneInfo(s)))
  IN IF s.failed THEN s
     ELSE IF ~(c \in Clones /\ CloneActive(s, c)) THEN SwitchFb(s, c, 0)
     ELSE IF cloned.failed THEN SwitchFb(Ignoring(cloned), c, 0) ELSE cloned

(* What is left to a port's overlay of the rotation of the CRTC it is on. *)
CrtcTurn(s, c) == IF c = NoCrtc THEN Rotate0 ELSE LeftToOverlay(Display[c], s.rotation[c])

(* update_rotation; turn stands for the rotate and mirror that it stores. *)
UpdateRotation(s, v) ==
  [s EXCEPT !.port[v].turn = update_rotation(s.port[v].rotation, CrtcTurn(s, s.port[v].crtc)),
            !.port[v].dirty = TRUE]

(* mutant: the port keeps the rotation of before. *)
UpdateCrtcDirty(s, c) ==
  [s EXCEPT !.port = [v \in Ports |->
     IF s.port[v].crtc = c THEN [s.port[v] EXCEPT !.dirty = TRUE, !.updateClone = TRUE]
     ELSE s.port[v]]]

(* omap_video_update_crtc *)
UpdateCrtc(s, c) ==
  [s EXCEPT !.port = [v \in Ports |->
     IF s.port[v].crtc = c THEN [UpdateRotation(s, v).port[v] EXCEPT !.updateClone = TRUE]
     ELSE s.port[v]]]

(* mutant: a CRTC whose mode was refused goes on as if it were on. *)
GiveUpModeLit(s, c) ==
  [PutCrtcOverlay(OverlayDisable(Ignoring(s), s.crtcOvl[c]), c) EXCEPT !.failed = TRUE]

(* error_put_overlay *)
GiveUpMode(s, c) ==
  LET off == PutCrtcOverlay(OverlayDisable(Ignoring(s), s.crtcOvl[c]), c)
  IN [off EXCEPT !.dpms[c] = FALSE, !.failed = TRUE]

(* All that the mode needs of the overlay o and of its display. *)
LightUp(s, c, o) ==
  OverlayEnable(OverlaySetup(OutputAssignOverlay(ChooseSource(s, c), c, o), o), o)

EndMode(s, c) == IF s.failed THEN GiveUpMode(s, c) ELSE UpdateCrtc(s, c)

SetModeOn(s, c) ==
  IF s.failed THEN [s EXCEPT !.dpms[c] = FALSE]
  ELSE EndMode(LightUp(s, c, s.crtcOvl[c]), c)

(***************************************************************************)
(* crtc_set_mode_major.  "setup" stands for the TV standard, the timings   *)
(* and the set-up of output and overlay, "enable" for switching on overlay *)
(* or output: each of them leads to error_put_overlay.                     *)
(***************************************************************************)
SetModeMajor(s, c) ==
  IF ~s.enabled[c] THEN s
  ELSE SetModeOn(GetCrtcOverlay([s EXCEPT !.dpms[c] = TRUE], c), c)

CloneUpdate(s) ==
  LET v == CloneInfo(s)
      c == s.port[v].cloneCrtc
  IN IF v = NoPort \/ ~s.port[v].updateClone \/ c = NoCrtc \/ ~Lit(s, c) THEN Ignoring(s)
     ELSE [Ignoring(SetModeMajor(Ignoring(s), c)) EXCEPT !.port[v].updateClone = FALSE]

(* mutant: the CRTC is left with the port's framebuffer. *)
CloneForget(s, v) == [s EXCEPT !.port[v].cloneCrtc = NoCrtc]

CloneStop(s, v) ==
  LET c == s.port[v].cloneCrtc
      r == [s EXCEPT !.port[v].cloneCrtc = NoCrtc]
  IN IF c = NoCrtc \/ ~Lit(s, c) THEN r ELSE Ignoring(SetModeMajor(r, c))

(* Wait for the clone's last frame: the overlay of its CRTC is needed. *)
CloneSync(s) ==
  LET v == CloneInfo(s)
      c == s.port[v].cloneCrtc
  IN IF v = NoPort \/ c = NoCrtc \/ ~Lit(s, c) THEN s
     ELSE OverlayWait(s, s.crtcOvl[c], "sync")

GetCloneCrtc(s, v) ==
  IF s.port[v].crtc = NoCrtc \/ ~s.port[v].clone THEN NoCrtc
  ELSE CHOOSE c \in Crtc : c # s.port[v].crtc

-----------------------------------------------------------------------------
(* Memory, mapping and life of a port. *)

Map(s, v) == IF s.mapped[VideoFb(v)] THEN s ELSE FbMap(s, VideoFb(v))

(* No plane may scan, and no program map, memory that is to change. *)
Idle(s, v) ==
  IF Active(s, v) THEN FbUnmap(Ignoring(OverlayDisable(s, Ovl(s, v))), VideoFb(v)) ELSE s

AllocMem(s, v, n) ==
  LET got == FbAlloc(Idle(s, v), VideoFb(v), n)
  IN IF s.failed \/ (s.port[v].allocated /\ FbCheckSize(s, VideoFb(v), n)) THEN s
     ELSE IF got.failed THEN got
     ELSE [got EXCEPT !.port[v].allocated = TRUE, !.port[v].dirty = TRUE]

FreeMem(s, v) ==
  LET freed == FbFree(s, VideoFb(v)) IN
  IF ~s.port[v].allocated THEN s
  ELSE IF freed.failed THEN Ignoring(freed)
  ELSE [freed EXCEPT !.port[v].allocated = FALSE]

(* stop_video, which also runs when a step before it has failed *)
Stop(s, v) ==
  [FreeMem(Idle(Ignoring(s), v), v) EXCEPT
     !.port[v].state = "stopped", !.port[v].crtc = NoCrtc, !.port[v].timer = FALSE]

GiveUp(s, v) == PutOverlay(Stop(s, v), v)

(* setup_colorkey: only the output the port is shown on is told. *)
SetupColorkey(s, v, on) ==
  IF s.port[v].crtc = NoCrtc THEN s ELSE OutputColorKey(s, s.port[v].crtc, on)

RearmTimer(s, v) == [s EXCEPT !.port[v].timer = s.port[v].noKey]

(* The clone ends and the overlay goes dark before it is moved. *)
LeaveCrtc(s, v) ==
  [Ignoring(OverlayDisable(CloneStop(s, v), Ovl(s, v))) EXCEPT
     !.port[v].dirty = TRUE, !.port[v].updateClone = TRUE]

AssignDisplay(s, v, c) == IF c = NoCrtc THEN s ELSE OutputAssignOverlay(s, c, Ovl(s, v))

Arrive(s, v, c) ==
  IF s.failed THEN s ELSE UpdateRotation([s EXCEPT !.port[v].crtc = c], v)

ChooseClone(s, v) ==
  IF s.failed THEN s ELSE [s EXCEPT !.port[v].cloneCrtc = GetCloneCrtc(s, v)]

(* mutant: the overlay stays on its old display. *)
RetargetInPlace(s, v, c) ==
  IF s.failed THEN s
  ELSE ChooseClone(IF c = s.port[v].crtc THEN s ELSE Arrive(LeaveCrtc(s, v), v, c), v)

(* Move the port to the CRTC the clipping has found, and choose the clone's. *)
Retarget(s, v, c) ==
  IF s.failed THEN s
  ELSE ChooseClone(IF c = s.port[v].crtc THEN s
                   ELSE Arrive(AssignDisplay(LeaveCrtc(s, v), v, c), v, c), v)

(* start_video: an image is mapped, the memory of a video belongs to a client. *)
StartVideo(s, v) ==
  LET placed == Ignoring(OverlaySetup(s, Ovl(s, v)))
      ready == IF s.port[v].kind = "image" THEN Map(placed, v) ELSE placed
  IN IF s.failed \/ ready.failed THEN ready
     ELSE [ready EXCEPT !.port[v].dirty = FALSE, !.port[v].state = "active",
                        !.port[v].updateClone = TRUE]

(* The next buffer is written, then shown. *)
FillAndFlip(s, v) ==
  LET waited == OverlayWait(CloneSync(s), Ovl(s, v), "overlay")
      filled == Require(waited, s.mapped[VideoFb(v)], "copy")
      flipped == OverlaySetup(filled, Ovl(s, v))
  IN IF flipped.failed THEN Ignoring(flipped)
     ELSE [flipped EXCEPT !.port[v].updateClone = TRUE]

Show(s, v, enable) ==
  LET armed == RearmTimer(s, v) IN
  IF s.failed \/ ~enable THEN armed
  ELSE Ignoring(OverlayEnable(SetupColorkey(armed, v, ~s.port[v].noKey), Ovl(s, v)))

(* An active port whose picture is new, or moved, is set up again. *)
Restart(s, v, moved) == IF s.port[v].dirty \/ moved THEN StartVideo(s, v) ELSE s

Fill(s, v, enable, buf) ==
  IF s.failed THEN GiveUp(s, v)
  ELSE Show(IF buf THEN FillAndFlip(s, v) ELSE s, v, enable)

(* An image that is seen on no CRTC is not shown, and not copied either. *)
PutImageOn(s, v, moved, buf) ==
  IF s.failed THEN GiveUp(s, v)
  ELSE IF s.port[v].crtc = NoCrtc THEN s
  ELSE Fill(Restart(s, v, moved), v, s.port[v].dirty \/ moved, buf)

AsKind(s, v, kind) == IF s.failed THEN s ELSE [s EXCEPT !.port[v].kind = kind]

PlaceImage(s, v, n, c, moved, buf) ==
  IF s.failed THEN s
  ELSE PutImageOn(Retarget(AsKind(AllocMem(s, v, n), v, "image"), v, c), v, moved, buf)

(***************************************************************************)
(* omap_video_putimage for an image of size n that the clipping leaves on  *)
(* CRTC c, or on none; moved: has a coordinate changed?  Without buf it is *)
(* a ReputImage.                                                           *)
(***************************************************************************)
PutImage(s, v, n, c, moved, buf) ==
  CloneUpdate(PlaceImage(GetOverlay(s, v), v, n, c, moved, buf))

(* enable: was the port dirty, or on another CRTC, before the request? *)
PutVideoOn(s, v, moved, enable) ==
  IF s.failed THEN Stop(s, v)
  ELSE IF s.port[v].crtc = NoCrtc THEN s
  ELSE Show(Restart(s, v, moved), v, enable)

PutVideo(s, v, c, moved) ==
  LET info == AsKind(FbRefresh(s, VideoFb(v), Ovl(s, v)), v, "video") IN
  CloneUpdate(
    IF ~s.port[v].reserved THEN s
    ELSE PutVideoOn(Retarget(info, v, c), v, moved,
                    s.port[v].dirty \/ c # s.port[v].crtc))

(* mutant: the memory is freed while the clone still scans it. *)
StopBeforeClone(s, v, exit) ==
  LET stopped == [CloneStop(Stop(s, v), v) EXCEPT
                    !.port[v].dirty = TRUE, !.port[v].updateClone = TRUE]
  IN CloneUpdate(PutOverlay(stopped, v))

(* The client has gone: the port is left as it was at first. *)
Reset(s, v, exit) ==
  IF ~exit THEN s
  ELSE [Ignoring(FbFree(s, VideoFb(v))) EXCEPT !.port[v] =
          [@ EXCEPT !.noKey = FALSE, !.clone = TRUE, !.rotation = Rotate0,
                    !.stacking = "XV", !.reserved = FALSE]]

PutUnreserved(s, v) == IF s.port[v].reserved THEN s ELSE PutOverlay(s, v)

(* omap_video_stop *)
StopVideo(s, v, exit) ==
  LET stopped == [Stop(CloneStop(s, v), v) EXCEPT
                    !.port[v].dirty = TRUE, !.port[v].updateClone = TRUE]
  IN CloneUpdate(PutUnreserved(Reset(stopped, v, exit), v))

-----------------------------------------------------------------------------
(* omap_video_set_attribute, for the attributes that do more than store. *)

SetReserve(s, v, value) ==
  LET taken == GetOverlay(Require(s, Ovl(s, v) = NoOverlay, "reserve"), v)
      given == PutOverlay(Ignoring(FbFree(Require(s, Ovl(s, v) # NoOverlay, "release"),
                                          VideoFb(v))), v)
  IN IF Active(s, v) THEN s
     ELSE IF ~value THEN [given EXCEPT !.port[v].reserved = FALSE]
     ELSE IF taken.failed THEN Ignoring(taken)
     ELSE [taken EXCEPT !.port[v].reserved = TRUE]

SetClone(s, v, value) ==
  [s EXCEPT !.port[v].clone = value, !.port[v].crtc = NoCrtc]

SetColorkey(s, v) == SetupColorkey(s, v, ~s.port[v].noKey)

SetDisableColorkey(s, v, value) ==
  RearmTimer(SetupColorkey([s EXCEPT !.port[v].noKey = value], v, ~value), v)

(* The client of a reserved port waits until its frame is shown. *)
SyncVideo(s, v) == OverlayWait(CloneSync(s), Ovl(s, v), "overlay")

SetRotation(s, v, r) == UpdateRotation([s EXCEPT !.port[v].rotation = r], v)

(* mutant: the timer only asks for a new set-up. *)
KeyTimerDirty(s, v) == [s EXCEPT !.port[v].timer = FALSE, !.port[v].dirty = TRUE]

(* ckey_timer *)
KeyTimer(s, v) ==
  [SetupColorkey(s, v, TRUE) EXCEPT !.port[v].timer = FALSE, !.port[v].dirty = TRUE]

-----------------------------------------------------------------------------
(* The hooks through which RandR, DPMS and page flips reach the CRTCs. *)

(* mutant: an unused CRTC gives back its overlay before it is off. *)
SetDpmsEarly(s, c, on) ==
  LET r == [s EXCEPT !.dpms[c] = on]
      got == GetCrtcOverlay(r, c)
  IN IF on THEN Ignoring(IF got.failed THEN got ELSE OverlayEnable(got, got.crtcOvl[c]))
     ELSE IF s.crtcOvl[c] = NoOverlay \/ s.enabled[c] THEN r
     ELSE PutCrtcOverlay(r, c)

SetDpms(s, c, on) ==
  LET r == [s EXCEPT !.dpms[c] = on]
      got == GetCrtcOverlay(r, c)
      off == OverlayDisable(r, s.crtcOvl[c])
  IN IF on THEN Ignoring(IF got.failed THEN got ELSE OverlayEnable(got, got.crtcOvl[c]))
     ELSE IF s.crtcOvl[c] = NoOverlay THEN r
     ELSE IF s.enabled[c] THEN off ELSE PutCrtcOverlay(off, c)

SetOrigin(s, c) ==
  IF c \in Clones /\ CloneActive(s, c) THEN s
  ELSE UpdateCrtc(OverlayPan(s, s.crtcOvl[c]), c)

(* fbdev_flip_crtcs *)
FlipCrtcs(s) ==
  LET shown == {c \in Crtc : Lit(s, c) /\ ~(c \in Clones /\ CloneActive(s, c))}
      first == IF "CRTC0" \in shown THEN OverlayPan(s, s.crtcOvl["CRTC0"]) ELSE s
  IN IF "CRTC1" \in shown THEN OverlayPan(first, s.crtcOvl["CRTC1"]) ELSE first

(* RandR switches the CRTC back to what it was when the mode is refused. *)
SetCrtcMode(s, c, r) ==
  LET set == SetModeMajor([s EXCEPT !.enabled[c] = TRUE, !.rotation[c] = r], c)
  IN IF set.failed
     THEN [Ignoring(set) EXCEPT !.enabled[c] = s.enabled[c], !.rotation[c] = s.rotation[c]]
     ELSE set

DisableCrtc(s, c) == SetDpms([s EXCEPT !.enabled[c] = FALSE], c, FALSE)

(* realloc_fb: without a mapping of the screen the server cannot go on. *)
ReallocFb(s, n) ==
  LET lit == {o \in s.on : s.usage[o] \in Crtc}
      got == FbAlloc([FbUnmap(s, 0) EXCEPT !.on = @ \ lit], 0, n)
      back == FbMap(Ignoring(got), 0)
  IN IF back.failed THEN Require(Ignoring(back), FALSE, "fatal")
     ELSE [back EXCEPT !.on = @ \cup (IF Fails(s, "enable") THEN {} ELSE lit)]

-----------------------------------------------------------------------------
(* Overlays and framebuffers have been opened; CRTCs and ports have no overlay. *)
Opened(kernel) ==
  LET ovls == OpenedOverlays
      fbs == OpenedFbs(kernel)
  IN [usage |-> [o \in Overlay |-> "NONE"],
      fb |-> ovls.fb, out |-> ovls.out, on |-> ovls.on, key |-> ovls.key,
      mem |-> fbs.mem, size |-> fbs.size, buffered |-> fbs.buffered, mapped |-> fbs.mapped,
      fault |-> "none", failed |-> FALSE, server |-> "up",
      port |-> [v \in Ports |-> FreshPort],
      enabled |-> [c \in Crtc |-> FALSE],
      dpms |-> [c \in Crtc |-> FALSE],
      rotation |-> [c \in Crtc |-> Rotate0],
      crtcOvl |-> [c \in Crtc |-> NoOverlay]]

(* FBDevScreenInit has allocated the screen, whatever memory the kernel held. *)
Init ==
  \E kernel \in [Fb -> Sizes \cup {0}] :
    dev = ReallocFb(PreInit(Opened(kernel)), ScreenSize)

(* A request runs to its end, or the server dies in it. *)
Ended(s) ==
  IF s.server = "up" THEN [s EXCEPT !.fault = "none"] ELSE [dev EXCEPT !.server = s.server]

RequestUnder(faults, step(_)) ==
  /\ dev.server = "up"
  /\ \E f \in faults : dev' = Ended(step([dev EXCEPT !.fault = f]))

Request(step(_)) == RequestUnder(Faults \cup {"none"}, step)

(* A request that makes no call that may fail, or makes nothing of it. *)
PlainRequest(step(_)) == RequestUnder({"none"}, step)

(* The clipping finds no CRTC, or one that is enabled. *)
ClipResult == {NoCrtc} \cup {c \in Crtc : dev.enabled[c]}

(* New coordinates make no difference to a port that is dirty anyway. *)
Moves(v) == IF dev.port[v].dirty THEN {FALSE} ELSE BOOLEAN

XvPutImage ==
  \E v \in Ports, n \in Sizes, c \in ClipResult :
    \E moved \in Moves(v) : Request(LAMBDA s : PutImage(s, v, n, c, moved, TRUE))

(* The server repeats an image after its window has moved or been clipped. *)
XvReputImage ==
  \E v \in Ports, c \in ClipResult :
    /\ dev.port[v].kind = "image" /\ dev.size[VideoFb(v)] # 0
    /\ Request(LAMBDA s : PutImage(s, v, dev.size[VideoFb(v)], c, TRUE, FALSE))

XvPutVideo ==
  \E v \in Ports, c \in ClipResult :
    \E moved \in Moves(v) : Request(LAMBDA s : PutVideo(s, v, c, moved))

XvStopVideo ==
  \E v \in Ports, exit \in BOOLEAN : Request(LAMBDA s : StopVideo(s, v, exit))

(* An attribute that has the value already is not set again. *)
XvSetPortAttribute ==
  \E v \in Ports, value \in BOOLEAN :
    \/ /\ "reserve" \in Attributes /\ value # dev.port[v].reserved
       /\ Request(LAMBDA s : SetReserve(s, v, value))
    \/ /\ "clone" \in Attributes /\ value # dev.port[v].clone
       /\ PlainRequest(LAMBDA s : SetClone(s, v, value))
    \/ /\ "disable_colorkey" \in Attributes /\ value # dev.port[v].noKey
       /\ PlainRequest(LAMBDA s : SetDisableColorkey(s, v, value))

XvSetColorkey ==
  \E v \in Ports : "colorkey" \in Attributes /\ PlainRequest(LAMBDA s : SetColorkey(s, v))

XvSyncVideo ==
  \E v \in Ports :
    /\ "sync" \in Attributes /\ dev.port[v].reserved /\ Active(dev, v)
    /\ PlainRequest(LAMBDA s : SyncVideo(s, v))

XvSetRotation ==
  \E v \in Ports, r \in Rotations :
    /\ "rotation" \in Attributes /\ r # dev.port[v].rotation
    /\ PlainRequest(LAMBDA s : SetRotation(s, v, r))

XvSetStacking ==
  \E v \in Ports, use \in Stackings \cup {"XV"} :
    /\ use # dev.port[v].stacking
    /\ PlainRequest(LAMBDA s : [s EXCEPT !.port[v].stacking = use])

KeyTimerFires ==
  \E v \in Ports : dev.port[v].timer /\ PlainRequest(LAMBDA s : KeyTimer(s, v))

RandRSetMode ==
  \E c \in Crtc : \E r \in IF c \in Rotated THEN Rotations ELSE {Rotate0} :
    Request(LAMBDA s : SetCrtcMode(s, c, r))

RandRDisable == \E c \in Crtc : dev.enabled[c] /\ Request(LAMBDA s : DisableCrtc(s, c))

RandRPan == \E c \in Crtc : dev.enabled[c] /\ PlainRequest(LAMBDA s : SetOrigin(s, c))

RandRResize == \E n \in Sizes : Request(LAMBDA s : ReallocFb(s, n))

DpmsSet ==
  \E c \in DpmsCrtcs, on \in BOOLEAN :
    /\ dev.enabled[c]
    /\ Request(LAMBDA s : SetDpms(s, c, on))

PageFlip == PlainRequest(FlipCrtcs)

(* The client that has reserved a port allocates through /dev/fbN. *)
ClientAlloc ==
  \E v \in Ports, n \in Sizes :
    /\ dev.port[v].reserved /\ ~MemBusy(dev, VideoFb(v))
    /\ PlainRequest(LAMBDA s : [s EXCEPT !.mem[VideoFb(v)] = n])

Next ==
  \/ XvPutImage \/ XvReputImage \/ XvPutVideo \/ XvStopVideo
  \/ XvSetPortAttribute \/ XvSetColorkey \/ XvSyncVideo \/ XvSetRotation
  \/ XvSetStacking \/ KeyTimerFires
  \/ RandRSetMode \/ RandRDisable \/ RandRPan \/ RandRResize
  \/ DpmsSet \/ PageFlip \/ ClientAlloc

Spec == Init /\ [][Next]_dev

-----------------------------------------------------------------------------
Port ==
  [state : {"stopped", "active"}, kind : {"image", "video"},
   ovl : Overlay \cup {NoOverlay}, crtc : Crtc \cup {NoCrtc}, clone : BOOLEAN,
   cloneCrtc : Crtc \cup {NoCrtc}, updateClone : BOOLEAN, allocated : BOOLEAN,
   dirty : BOOLEAN, reserved : BOOLEAN, stacking : {"XV", "XV1", "XV2"},
   noKey : BOOLEAN, timer : BOOLEAN, rotation : Rotation, turn : Rotation]

Device ==
  [usage : [Overlay -> Usage], fb : [Overlay -> Fb \cup {NoFb}],
   out : [Overlay -> Crtc \cup {NoCrtc}], on : SUBSET Overlay, key : [Crtc -> BOOLEAN],
   mem : [Fb -> Sizes \cup {0}], size : [Fb -> Sizes \cup {0}],
   buffered : [Fb -> BOOLEAN], mapped : [Fb -> BOOLEAN],
   fault : Fault, failed : BOOLEAN, server : Death, port : [Ports -> Port],
   enabled : [Crtc -> BOOLEAN], dpms : [Crtc -> BOOLEAN], rotation : [Crtc -> Rotation],
   crtcOvl : [Crtc -> Overlay \cup {NoOverlay}]]

(***************************************************************************)
(* The tables of overlays, framebuffers, displays, CRTCs and ports hold    *)
(* what their C types say, and no request leaves a failure half handled.   *)
(***************************************************************************)
TypeOK == dev \in Device /\ dev.fault = "none" /\ ~dev.failed

(***************************************************************************)
(* The pool of fbdev.c and its users agree: an overlay is marked as taken  *)
(* exactly when the CRTC or the one video port it is marked for holds it,  *)
(* whatever step of a request has failed (fbdev_get_overlay,               *)
(* fbdev_put_overlay, and the get_overlay and put_overlay of their users). *)
(***************************************************************************)
PoolExact ==
  \A o \in Overlay :
    /\ \A c \in Crtc : dev.usage[o] = c <=> dev.crtcOvl[c] = o
    /\ dev.usage[o] \in {"XV", "XV1", "XV2"} <=> \E v \in Ports : Ovl(dev, v) = o
    /\ \A v, w \in Ports : Ovl(dev, v) = o /\ Ovl(dev, w) = o => v = w

(***************************************************************************)
(* "Only overlays used as CRTCs need to be disabled" before the screen's   *)
(* memory is changed (realloc_fb, fbdev.c): no other overlay that is on    *)
(* scans it, whichever way it came to the framebuffer.                     *)
(***************************************************************************)
ScreenScannedByCrtcs == \A o \in dev.on : dev.fb[o] = 0 => dev.usage[o] \in Crtc

(***************************************************************************)
(* No step of a request disables, enables, sets up or assigns an overlay   *)
(* that the port or the CRTC has given back, waits for one that the port   *)
(* has given back, maps memory that does not exist, or writes an image     *)
(* through a mapping that is gone (the assertions of omap.c, and that      *)
(* calc_mem of omap_video.c has memory to write to), however images,       *)
(* videos, reservations, mode changes and failing steps alternate.  It     *)
(* says nothing of four steps for which this does not hold in general:     *)
(* panning a CRTC, the wait for a clone (CloneWaitsSafe), and PutVideo and *)
(* the release on a reserved port that a failed PutImage has left without  *)
(* overlay ("pan", "sync", "refresh", "release").                          *)
(***************************************************************************)
PlaneStepsSafe == dev.server \notin {"overlay", "map", "copy"}

(***************************************************************************)
(* "assert(ovl != NULL)" (omap_overlay_wait, omap.c:1811) in clone_sync:   *)
(* the CRTC that clones a port has an overlay to wait for whenever it      *)
(* counts as on, although modes set by RandR and by the clone are refused  *)
(* at any step, and ports have taken the overlay in between.  DPMS of that *)
(* CRTC is not in it: crtc_dpms sets dpms before it asks for an overlay,   *)
(* and leaves it set when the pool has none; then the claim fails.         *)
(***************************************************************************)
CloneWaitsSafe == dev.server # "sync"

(***************************************************************************)
(* A video overlay that is on feeds the display of the CRTC the port was   *)
(* clipped to (omap_video_putimage and omap_video_putvideo).               *)
(***************************************************************************)
PortShownOnItsDisplay ==
  \A v \in Ports : Ovl(dev, v) \in dev.on /\ dev.port[v].crtc # NoCrtc
    => dev.out[Ovl(dev, v)] = dev.port[v].crtc

(***************************************************************************)
(* Whatever the user, the client and the clipping have turned or moved     *)
(* since, and whoever has stopped the port in between: an active port      *)
(* hands its overlay the rotation that takes every point of the image      *)
(* where the rotation of the port and that of its CRTC take it ("Add up Xv *)
(* and CRTC rotations", update_rotation).                                  *)
(***************************************************************************)
PictureUpright ==
  \A v \in Ports, c \in Crtc : Active(dev, v) /\ dev.port[v].crtc = c =>
    \A w, h \in Lengths : \A x \in 0 .. w, y \in 0 .. h :
      LET xv == dev.port[v].rotation
          p == Turned(xv, w, h, x, y)
      IN Scanned(OmapSetup(dev.port[v].turn), w, h, x, y)
           = Turned(CrtcTurn(dev, c), ModeWidth(xv, w, h), ModeHeight(xv, w, h), p[1], p[2])

(***************************************************************************)
(* As long as an active port knows its CRTC, and its client wants no       *)
(* colour key there, the key of that display is on or the timer is armed,  *)
(* through moves, mode sets and stops (rearm_ckey_timer, setup_colorkey).  *)
(* A client that sets the clone attribute takes the CRTC from the port:    *)
(* what then becomes of the key is the matter of KeyReturns.               *)
(***************************************************************************)
KeyGuarded ==
  \A v \in Ports, c \in Crtc :
    Active(dev, v) /\ dev.port[v].crtc = c /\ dev.port[v].noKey
      => dev.key[c] \/ dev.port[v].timer

(***************************************************************************)
(* "so that a misbehaving client can't prevent popup notifications         *)
(* indefinitely" (ckey_timer, omap_video.c:445): as long as the overlay of *)
(* a port whose client wants no colour key is on, the key of the display   *)
(* which that overlay feeds is on, or the timer is armed.                  *)
(***************************************************************************)
KeyReturns ==
  \A v \in Ports, c \in Crtc :
    Ovl(dev, v) \in dev.on /\ dev.out[Ovl(dev, v)] = c /\ dev.port[v].noKey
      => dev.key[c] \/ dev.port[v].timer

(***************************************************************************)
(* When a request has ended, the CRTC that is to clone a port scans that   *)
(* port's framebuffer (clone_update of omap_video.c).                      *)
(***************************************************************************)
CloneShown ==
  \A v \in Ports, c \in Clones :
    v = CloneInfo(dev) /\ c = dev.port[v].cloneCrtc /\ Lit(dev, c)
      /\ ~dev.port[v].updateClone
      => dev.crtcOvl[c] # NoOverlay /\ dev.fb[dev.crtcOvl[c]] = VideoFb(v)

(***************************************************************************)
(* A CRTC that clones nothing shows the screen again, and not the memory   *)
(* of a video that has ended (clone_stop of omap_video.c).                 *)
(***************************************************************************)
CrtcShowsScreen ==
  \A c \in Crtc :
    dev.crtcOvl[c] \in dev.on /\ ~CloneActive(dev, c) => dev.fb[dev.crtcOvl[c]] = 0

(***************************************************************************)
(* A port that has given its overlay back has given back its memory too:   *)
(* stops, moves, mode sets and failures of a port never leave an overlay,  *)
(* that of a clone included, that still scans it, so that the kernel would *)
(* refuse (stop_video, put_overlay).  It is not claimed of a client that   *)
(* sets the clone attribute or asks for a larger image, nor when DPMS has  *)
(* switched off the CRTC that clones.                                      *)
(***************************************************************************)
MemoryReturned ==
  \A v \in Ports : Ovl(dev, v) = NoOverlay
    => dev.size[VideoFb(v)] = 0 /\ dev.mem[VideoFb(v)] = 0

(***************************************************************************)
(* "assert(!video_info->ovl)" (omap_video.c:1122): a port that is neither  *)
(* active nor reserved holds no overlay when a client reserves it.         *)
(***************************************************************************)
ReserveFindsNoOverlay == dev.server # "reserve"
=============================================================================
