------------------------------ MODULE Overlays ------------------------------
(***************************************************************************)
(* The three overlays of the display controller, the framebuffers they     *)
(* scan and the displays they feed (omap.c), and the pool from which CRTCs *)
(* and video ports take them (fbdev.c), as operators from state to state.  *)
(*                                                                         *)
(* The part of a state that this module reads and writes is                *)
(*   usage     ovl_usage: what each overlay of the pool is taken for       *)
(*   fb, out   the framebuffer and the display of each overlay             *)
(*   on        the overlays that are enabled                               *)
(*   key       is the colour key of each display on?                       *)
(*   mem       the memory of each framebuffer in the kernel, 0 for none    *)
(*   size      the memory the driver remembers (fb->mem_info)              *)
(*   buffered  has the driver laid it out in two buffers? (num_buffers)    *)
(*   mapped    the framebuffers the driver has mapped (fb->map_ptr)        *)
(*   fault     the kind of step that fails during the request that runs    *)
(*   failed    has a step of the sequence that runs failed?                *)
(*   server    "up", or how the process died                               *)
(* Overlay i and framebuffer i belong together in the pool.  Overlay 0 is  *)
(* GFX, the others are VID1 and VID2.  A step that fails sets failed, and  *)
(* the steps behind it do nothing: the "goto error" of the code.           *)
(***************************************************************************)
EXTENDS Integers

CONSTANTS
  Sizes,      \* sizes an image may have
  NoOverlay,  \* a NULL struct omap_overlay *
  NoFb,       \* a NULL struct omap_fb *
  NoCrtc      \* a NULL xf86CrtcPtr or struct omap_output *

ASSUME OverlaysAssumption ==
  /\ Sizes \subseteq Nat \ {0}
  /\ NoOverlay \notin Int /\ NoFb \notin Int
  /\ NoCrtc \notin {"CRTC0", "CRTC1"}

Overlay == 0 .. 2
Fb == 0 .. 2
Crtc == {"CRTC0", "CRTC1"}
Usage == Crtc \cup {"NONE", "XV", "XV1", "XV2"}
Fault == {"none", "alloc", "free", "assign", "output", "refresh", "setup", "map", "enable"}
Death ==
  {"up", "overlay", "reserve", "release", "refresh", "pan", "sync", "map", "copy", "fatal"}
ScreenSize == 1

(* assert, and the NULL pointers that are followed: how says which one. *)
Require(s, cond, how) ==
  IF cond \/ s.server # "up" THEN s ELSE [s EXCEPT !.server = how, !.failed = TRUE]

(* mutant: a failure that the code ignores ends the sequence. *)
MindingIt(s) == s

(* A call whose result the code ignores: what ran before has not failed. *)
Ignoring(s) == [s EXCEPT !.failed = s.server # "up"]

Fails(s, step) == s.fault = step

(***************************************************************************)
(* The kernel does not change memory that is mapped or scanned, and does   *)
(* not enable a plane without memory.                                      *)
(***************************************************************************)
MemBusy(s, f) == s.mapped[f] \/ \E o \in s.on : s.fb[o] = f

HasMem(s, o) == s.fb[o] # NoFb /\ s.mem[s.fb[o]] # 0

(* An overlay through which the framebuffer can be reached. *)
FbReachable(s, f) == \E o \in Overlay : s.fb[o] = f

OverlayDisable(s, o) ==
  IF s.failed THEN s
  ELSE [Require(s, o # NoOverlay, "overlay") EXCEPT !.on = @ \ {o}]

(* Panning shows another part of the framebuffer, or another buffer. *)
OverlayPan(s, o) ==
  Ignoring(Require(s, o # NoOverlay /\ s.fb[o] # NoFb, "pan"))

OverlayEnable(s, o) ==
  LET r == Require(s, o # NoOverlay, "overlay") IN
  IF r.failed \/ o \in r.on THEN r
  ELSE IF Fails(r, "enable") \/ ~HasMem(r, o) THEN [r EXCEPT !.failed = TRUE]
  ELSE [r EXCEPT !.on = @ \cup {o}]

(* Position, source and destination; on failure the old ones are put back. *)
OverlaySetup(s, o) ==
  IF s.failed THEN s
  ELSE LET r == Require(s, o # NoOverlay /\ s.fb[o] # NoFb, "overlay")
       IN [r EXCEPT !.failed = @ \/ Fails(r, "setup")]

(* The old association is gone even when the new one cannot be made. *)
FbAssignOverlay(s, f, o) ==
  IF s.failed \/ s.fb[o] = f THEN s
  ELSE IF Fails(s, "assign") THEN [s EXCEPT !.fb[o] = NoFb, !.failed = TRUE]
  ELSE [s EXCEPT !.fb[o] = f]

(***************************************************************************)
(* Displays are changed with the overlay off.  A failure leaves it off,    *)
(* and so does one to enable it again, which the code ignores.             *)
(***************************************************************************)
AssignDevice(s, c, o) ==
  IF s.failed \/ s.out[o] = c THEN s
  ELSE IF Fails(s, "output")
       THEN [s EXCEPT !.out[o] = NoCrtc, !.on = @ \ {o}, !.failed = TRUE]
  ELSE [s EXCEPT !.out[o] = c, !.on = IF Fails(s, "enable") THEN @ \ {o} ELSE @]

OutputAssignOverlay(s, c, o) == AssignDevice(Require(s, o # NoOverlay, "overlay"), c, o)

(* SETUP_MEM is skipped when the size is the one the driver remembers. *)
FbAlloc(s, f, n) ==
  IF s.failed THEN s
  ELSE IF ~FbReachable(s, f) \/ (s.size[f] # n /\ (MemBusy(s, f) \/ Fails(s, "alloc")))
       THEN [s EXCEPT !.failed = TRUE]
  ELSE IF s.size[f] = n THEN [s EXCEPT !.buffered[f] = TRUE]
  ELSE [s EXCEPT !.mem[f] = n, !.size[f] = n, !.buffered[f] = TRUE]

FbFree(s, f) ==
  IF s.failed THEN s
  ELSE IF ~FbReachable(s, f) \/ (s.size[f] # 0 /\ (MemBusy(s, f) \/ Fails(s, "free")))
       THEN [s EXCEPT !.failed = TRUE]
  ELSE IF s.size[f] = 0 THEN [s EXCEPT !.buffered[f] = FALSE]
  ELSE [s EXCEPT !.mem[f] = 0, !.size[f] = 0, !.buffered[f] = FALSE]

FbCheckSize(s, f, n) == s.buffered[f] /\ s.size[f] = n

(* mutant: the layout is taken to be still that of the last image. *)
FbRefreshSize(s, f, o) ==
  LET r == Require(s, o # NoOverlay, "refresh") IN
  IF r.failed THEN r
  ELSE IF r.fb[o] # f THEN [r EXCEPT !.failed = TRUE]
  ELSE [r EXCEPT !.size[f] = r.mem[f]]

(***************************************************************************)
(* omap_fb_refresh_info reads back what a client of /dev/fbN has done.  An *)
(* overlay that is NULL is found in a free slot of fb->ovls.               *)
(***************************************************************************)
FbRefresh(s, f, o) ==
  LET r == Require(s, o # NoOverlay, "refresh") IN
  IF r.failed THEN r
  ELSE IF r.fb[o] # f \/ Fails(r, "refresh") THEN [r EXCEPT !.failed = TRUE]
  ELSE [r EXCEPT !.size[f] = r.mem[f], !.buffered[f] = FALSE]

FbMap(s, f) ==
  IF s.failed \/ s.mapped[f] THEN s
  ELSE LET r == Require(s, HasMem([s EXCEPT !.fb = [o \in Overlay |-> f]], 0), "map") IN
       IF r.failed \/ Fails(r, "map") \/ ~FbReachable(r, f)
       THEN [r EXCEPT !.failed = TRUE]
       ELSE [r EXCEPT !.mapped[f] = TRUE]

FbUnmap(s, f) == [s EXCEPT !.mapped[f] = FALSE]

(* The free overlays in the order in which fbdev_get_overlay prefers them. *)
Preference(use) ==
  CASE use = "CRTC0" -> <<0, 1, 2>>
    [] use = "CRTC1" -> <<1, 2>>
    [] use = "XV"    -> <<2, 1>>
    [] use = "XV1"   -> <<1>>
    [] use = "XV2"   -> <<2>>

PoolChoice(s, use) ==
  LET order == Preference(use)
      free == {i \in DOMAIN order : s.usage[order[i]] = "NONE"}
  IN IF free = {} THEN NoOverlay
     ELSE order[CHOOSE i \in free : \A j \in free : i =< j]

PoolPut(s, o) ==
  Ignoring(FbAssignOverlay([Ignoring(s) EXCEPT !.usage[o] = "NONE"], o, o))

(* The colour key of a display can be set only through an overlay it has. *)
OutputColorKey(s, c, on) ==
  IF \E o \in Overlay : s.out[o] = c THEN [s EXCEPT !.key[c] = on] ELSE s

(* The frame that was set up last is shown: the overlay has to be there. *)
OverlayWait(s, o, how) == Require(s, o # NoOverlay, how)

-----------------------------------------------------------------------------
(* omap_overlay_open disables whatever the boot loader has left. *)
OpenedOverlays ==
  [fb |-> [o \in Overlay |-> NoFb], out |-> [o \in Overlay |-> NoCrtc], on |-> {},
   key |-> [c \in Crtc |-> FALSE]]

(* omap_fb_open takes over the memory that the framebuffers have. *)
OpenedFbs(kernel) ==
  [mem |-> kernel, size |-> kernel,
   buffered |-> [f \in Fb |-> FALSE], mapped |-> [f \in Fb |-> FALSE]]

(***************************************************************************)
(* omap_preinit: the framebuffers of the video overlays are freed, each    *)
(* through the first overlay, that of the screen is left as it is.         *)
(***************************************************************************)
PreInit(s) ==
  LET Freed(t, f) == FbFree(FbAssignOverlay(t, f, 0), f)
      Unkeyed(t, c) == OutputColorKey(OutputAssignOverlay(t, c, 0), c, FALSE)
      Shown(t, o) == OutputAssignOverlay(t, "CRTC0", o)
      paired == FbAssignOverlay(FbAssignOverlay(FbAssignOverlay(s, 0, 0), 1, 1), 2, 2)
      freed == Freed(Freed(Shown(Shown(Shown(paired, 0), 1), 2), 1), 2)
      keyed == Unkeyed(Unkeyed(FbAssignOverlay(freed, 0, 0), "CRTC0"), "CRTC1")
  IN Shown(keyed, 0)
=============================================================================
