--------------------------- MODULE VideoPortProofs ---------------------------
(***************************************************************************)
(* Whatever requests Xv clients, RandR, DPMS and page flips make of the    *)
(* ports and CRTCs of module VideoPort, and whichever of their steps fail: *)
(* the pool stays exact, no step is taken on an overlay or on memory that  *)
(* is gone, what is shown is on its display and upright, a CRTC that shows *)
(* no clone shows the screen, and a port that is given up has no memory.   *)
(*                                                                         *)
(* A request is a sequence of steps, and the proof follows them.  A step   *)
(* for a CRTC (CrtcSteps) keeps what the ports and CRTCs share (Shared)    *)
(* and leaves every port its overlay and its place; a step for a port      *)
(* (PortSteps) does so for all ports but its own, which is fine again      *)
(* (PortFine) at the end of the request.  A sequence that fails in the     *)
(* middle ends in stop_video, in put_overlay or in error_put_overlay,      *)
(* from where the port or the CRTC is at rest.                             *)
(*                                                                         *)
(* What the CRTCs' overlays scan (ScreenOnly) is inductive on its own      *)
(* beside that, and kept by every single step (Seen), so its proof needs   *)
(* no more of a request than its steps.                                    *)
(*                                                                         *)
(* Where no client reserves a port, the memory of the ports is in order    *)
(* (Neat) between any two of the operators that a request is made of; most *)
(* of them leave it alone (Unmoved).                                       *)
(***************************************************************************)
EXTENDS VideoPort, VideoGeometryProofs

-----------------------------------------------------------------------------
(* What every step of a request keeps: the types, and that a dead server does nothing. *)

(* An overlay, or the NULL pointer of one who has none. *)
OrNone == Overlay \cup {NoOverlay}

(* A request under way: after the server has died every step is refused. *)
Running == {s \in Device : s.server # "up" => s.failed}

(* What every step of a request does. *)
Steps(s, t) ==
  /\ t \in Running
  /\ t.fault = s.fault
  /\ s.server # "up" => t.server = s.server

(* Two such steps are one. *)
LEMMA StepsAgain ==
  ASSUME NEW s, NEW t, NEW u, Steps(s, t), Steps(t, u)
  PROVE  Steps(s, u)
  BY DEF Steps

(* No step is one too. *)
LEMMA StepsNot ==
  ASSUME NEW s \in Running
  PROVE  Steps(s, s)
  BY DEF Steps

(* A port may be given any value a port can have. *)
LEMMA SetPort ==
  ASSUME NEW s \in Running, NEW v \in Ports, NEW q \in Port
  PROVE  Steps(s, [s EXCEPT !.port[v] = q])
  BY DEF Device, Steps, Running

(* The ports of a running server are ports. *)
LEMMA PortOf ==
  ASSUME NEW s \in Running, NEW v \in Ports
  PROVE  s.port[v] \in Port
  BY DEF Device, Running

(* A step may fail at any time. *)
LEMMA SetFailed ==
  ASSUME NEW s \in Running
  PROVE  Steps(s, [s EXCEPT !.failed = TRUE])
  BY DEF Device, Steps, Running

(* An assertion ends the server or does nothing. *)
LEMMA RequireType ==
  ASSUME NEW s \in Running, NEW cond, NEW how \in Death
  PROVE  Steps(s, Require(s, cond, how))
  BY DEF Device, Require, Death, Steps, Running

(* Ignoring a failure does not bring a dead server back. *)
LEMMA IgnoringType ==
  ASSUME NEW s \in Device
  PROVE  Ignoring(s) \in Running /\ (s \in Running => Steps(s, Ignoring(s)))
  BY DEF Device, Ignoring, Steps, Running

(* Each call of omap.c leaves the tables well typed, and a dead server dead. *)
LEMMA DisableType ==
  ASSUME NEW s \in Running, NEW o \in OrNone
  PROVE  Steps(s, OverlayDisable(s, o))
  BY ZenonT(40) DEF OverlayDisable, Require, Device, Death, Steps, Running

(* An overlay is there or the step was refused. *)
LEMMA RequireOverlay ==
  ASSUME NEW s \in Running, NEW o \in OrNone, NEW how \in Death \ {"up"}
  PROVE  LET r == Require(s, o # NoOverlay, how) IN
         Steps(s, r) /\ (r.failed \/ o \in Overlay)
  BY DEF Device, Require, Death, Steps, Running, OrNone

(* The same of omap_overlay_enable. *)
LEMMA EnableType ==
  ASSUME NEW s \in Running, NEW o \in OrNone
  PROVE  Steps(s, OverlayEnable(s, o))
<1> DEFINE r == Require(s, o # NoOverlay, "overlay")
<1>1. Steps(s, r) /\ (r.failed \/ o \in Overlay)
  BY RequireOverlay DEF Death
<1>2. CASE r.failed \/ o \in r.on
  BY <1>1, <1>2 DEF OverlayEnable
<1>3. CASE ~(r.failed \/ o \in r.on)
  <2>1. OverlayEnable(s, o) \in {[r EXCEPT !.failed = TRUE], [r EXCEPT !.on = @ \cup {o}]}
    BY <1>3 DEF OverlayEnable
  <2>2. Steps(r, [r EXCEPT !.failed = TRUE])
    BY <1>1, SetFailed DEF Steps
  <2>3. Steps(r, [r EXCEPT !.on = @ \cup {o}])
    <3> HIDE DEF r
    <3> QED BY <1>1, <1>3 DEF Steps, Device, Running
  <2> QED  BY <1>1, <2>1, <2>2, <2>3, StepsAgain
<1> QED  BY <1>2, <1>3

(* Of omap_overlay_setup. *)
LEMMA SetupType ==
  ASSUME NEW s \in Running, NEW o \in OrNone
  PROVE  Steps(s, OverlaySetup(s, o))
<1> DEFINE r == Require(s, o # NoOverlay /\ s.fb[o] # NoFb, "overlay")
           b == r.failed \/ Fails(r, "setup")
<1>1. Steps(s, r)
  BY RequireType DEF Death
<1>2. Steps(r, [r EXCEPT !.failed = b])
  <2> HIDE DEF r
  <2> QED  BY <1>1 DEF Steps, Device, Running
<1> QED  BY <1>1, <1>2, StepsNot, StepsAgain DEF OverlaySetup

(* Of omap_fb_assign_overlay. *)
LEMMA FbAssignType ==
  ASSUME NEW s \in Running, NEW f \in Fb, NEW o \in OrNone
  PROVE  Steps(s, FbAssignOverlay(s, f, o))
<1>1. Steps(s, [s EXCEPT !.fb[o] = NoFb, !.failed = TRUE])
  BY DEF Steps, Device, Running
<1>2. Steps(s, [s EXCEPT !.fb[o] = f])
  BY DEF Steps, Device, Running
<1> QED  BY <1>1, <1>2, StepsNot DEF FbAssignOverlay

(* Of the part of omap_output_assign_overlay that has an overlay. *)
LEMMA AssignDeviceType ==
  ASSUME NEW s \in Running, NEW c \in Crtc, NEW o, s.failed \/ o \in Overlay
  PROVE  Steps(s, AssignDevice(s, c, o))
<1>1. CASE ~s.failed
  <2>1. Steps(s, [s EXCEPT !.out[o] = NoCrtc, !.on = @ \ {o}, !.failed = TRUE])
    BY <1>1 DEF Steps, Device, Running
  <2>2. Steps(s, [s EXCEPT !.out[o] = c, !.on = @ \ {o}])
    BY <1>1 DEF Steps, Device, Running
  <2>3. Steps(s, [s EXCEPT !.out[o] = c, !.on = @])
    BY <1>1 DEF Steps, Device, Running
  <2> QED  BY <2>1, <2>2, <2>3, StepsNot DEF AssignDevice
<1> QED  BY <1>1, StepsNot DEF AssignDevice

(* Of the whole. *)
LEMMA OutputAssignType ==
  ASSUME NEW s \in Running, NEW c \in Crtc, NEW o \in OrNone
  PROVE  Steps(s, OutputAssignOverlay(s, c, o))
<1> DEFINE r == Require(s, o # NoOverlay, "overlay")
<1>1. Steps(s, r) /\ (r.failed \/ o \in Overlay)
  BY RequireOverlay DEF Death
<1>2. Steps(r, AssignDevice(r, c, o))
  <2> HIDE DEF r
  <2> QED  BY <1>1, AssignDeviceType DEF Steps
<1> QED  BY <1>1, <1>2, StepsAgain DEF OutputAssignOverlay

(* Of omap_fb_alloc. *)
LEMMA FbAllocType ==
  ASSUME NEW s \in Running, NEW f \in Fb, NEW n \in Sizes
  PROVE  Steps(s, FbAlloc(s, f, n))
<1>1. Steps(s, [s EXCEPT !.failed = TRUE])
  BY SetFailed
<1>2. Steps(s, [s EXCEPT !.buffered[f] = TRUE])
  BY DEF Steps, Device, Running
<1>3. Steps(s, [s EXCEPT !.mem[f] = n, !.size[f] = n, !.buffered[f] = TRUE])
  BY DEF Steps, Device, Running
<1> QED  BY <1>1, <1>2, <1>3, StepsNot DEF FbAlloc

(* Of omap_fb_free. *)
LEMMA FbFreeType ==
  ASSUME NEW s \in Running, NEW f \in Fb
  PROVE  Steps(s, FbFree(s, f))
<1>1. Steps(s, [s EXCEPT !.failed = TRUE])
  BY SetFailed
<1>2. Steps(s, [s EXCEPT !.buffered[f] = FALSE])
  BY DEF Steps, Device, Running
<1>3. Steps(s, [s EXCEPT !.mem[f] = 0, !.size[f] = 0, !.buffered[f] = FALSE])
  BY DEF Steps, Device, Running
<1> QED  BY <1>1, <1>2, <1>3, StepsNot DEF FbFree

(* Of omap_fb_refresh_info. *)
LEMMA FbRefreshType ==
  ASSUME NEW s \in Running, NEW f \in Fb, NEW o \in OrNone
  PROVE  Steps(s, FbRefresh(s, f, o))
<1> DEFINE r == Require(s, o # NoOverlay, "refresh")
<1>1. Steps(s, r)
  BY RequireOverlay DEF Death
<1> HIDE DEF r
<1>2. Steps(r, [r EXCEPT !.failed = TRUE])
  BY <1>1, SetFailed DEF Steps
<1>3. Steps(r, [r EXCEPT !.size[f] = r.mem[f], !.buffered[f] = FALSE])
  BY <1>1 DEF Steps, Device, Running
<1> QED  BY <1>1, <1>2, <1>3, StepsAgain DEF FbRefresh, r

(* Of omap_fb_map. *)
LEMMA FbMapType ==
  ASSUME NEW s \in Running, NEW f \in Fb
  PROVE  Steps(s, FbMap(s, f))
<1> DEFINE r == Require(s, HasMem([s EXCEPT !.fb = [o \in Overlay |-> f]], 0), "map")
<1>1. Steps(s, r)
  BY RequireType DEF Death
<1> HIDE DEF r
<1>2. Steps(r, [r EXCEPT !.failed = TRUE])
  BY <1>1, SetFailed DEF Steps
<1>3. Steps(r, [r EXCEPT !.mapped[f] = TRUE])
  BY <1>1 DEF Steps, Device, Running
<1> QED  BY <1>1, <1>2, <1>3, StepsAgain, StepsNot DEF FbMap, r

(* Of omap_fb_unmap. *)
LEMMA FbUnmapType ==
  ASSUME NEW s \in Running, NEW f \in Fb
  PROVE  Steps(s, FbUnmap(s, f))
  BY DEF FbUnmap, Steps, Device, Running

(* Of omap_output_color_key. *)
LEMMA ColorKeyType ==
  ASSUME NEW s \in Running, NEW c \in Crtc, NEW b \in BOOLEAN
  PROVE  Steps(s, OutputColorKey(s, c, b))
  BY DEF OutputColorKey, Steps, Device, Running

(* An overlay may be marked for any use. *)
LEMMA SetUsage ==
  ASSUME NEW s \in Running, NEW o \in Overlay, NEW use \in Usage
  PROVE  Steps(s, [s EXCEPT !.usage[o] = use])
  BY DEF Steps, Device, Running

(* Of fbdev_put_overlay. *)
LEMMA PoolPutType ==
  ASSUME NEW s \in Running, NEW o \in Overlay
  PROVE  Steps(s, PoolPut(s, o))
<1> DEFINE a == Ignoring(s)
           b == [a EXCEPT !.usage[o] = "NONE"]
           d == FbAssignOverlay(b, o, o)
<1>1. Steps(s, a)
  BY IgnoringType DEF Running
<1>2. Steps(a, b)
  BY <1>1, SetUsage DEF Steps, Usage
<1>3. Steps(b, d)
  BY <1>2, FbAssignType DEF Steps, Overlay, Fb, OrNone
<1>4. Steps(d, Ignoring(d))
  BY <1>3, IgnoringType DEF Steps, Running
<1> HIDE DEF a, b, d
<1> QED  BY <1>1, <1>2, <1>3, <1>4, StepsAgain DEF PoolPut, a, b, d

-----------------------------------------------------------------------------
(* The choices of the pool and of the clone. *)

(* The uses a video port has for an overlay. *)
Xv == {"XV", "XV1", "XV2"}

(* The pool hands out an overlay that nobody has; a port never gets the first. *)
LEMMA PoolChoiceFree ==
  ASSUME NEW s, NEW use \in Crtc \cup Xv, PoolChoice(s, use) # NoOverlay
  PROVE  /\ PoolChoice(s, use) \in Overlay
         /\ s.usage[PoolChoice(s, use)] = "NONE"
         /\ PoolChoice(s, use) = 0 => use = "CRTC0"
<1> DEFINE order == Preference(use)
           free == {i \in DOMAIN order : s.usage[order[i]] = "NONE"}
           k == CHOOSE i \in free : \A j \in free : i =< j
<1>1. order \in {<<0, 1, 2>>, <<1, 2>>, <<2, 1>>, <<1>>, <<2>>}
      /\ (use # "CRTC0" => order # <<0, 1, 2>>)
  BY DEF Preference, Crtc, Xv
<1>2. DOMAIN order \subseteq 1 .. 3
  BY <1>1
<1>3. \A i \in DOMAIN order : order[i] \in Overlay /\ (order[i] = 0 => use = "CRTC0")
  BY <1>1 DEF Overlay
<1>4. free # {}
  BY DEF PoolChoice
<1>5. \E i \in free : \A j \in free : i =< j
  <2>1. free \subseteq 1 .. 3
    BY <1>2
  <2> HIDE DEF free
  <2>2. CASE 1 \in free
    BY <2>1, <2>2
  <2>3. CASE 1 \notin free /\ 2 \in free
    <3>1. \A j \in free : 2 =< j
      BY <2>1, <2>3
    <3> QED  BY <2>3, <3>1
  <2>4. CASE 1 \notin free /\ 2 \notin free
    <3>1. \A j \in free : j = 3
      BY <2>1, <2>4
    <3> QED  BY <1>4, <3>1
  <2> QED  BY <2>2, <2>3, <2>4
<1>6. k \in free
  <2> HIDE DEF free
  <2> QED  BY <1>5
<1>7. PoolChoice(s, use) = order[k]
  BY <1>4 DEF PoolChoice
<1> QED  BY <1>3, <1>6, <1>7

(* Or it hands out none. *)
LEMMA PoolChoiceType ==
  ASSUME NEW s, NEW use \in Crtc \cup Xv
  PROVE  PoolChoice(s, use) \in OrNone
  BY PoolChoiceFree DEF OrNone

(* The port that is cloned is one of the ports. *)
LEMMA CloneInfoIs ==
  ASSUME NEW s
  PROVE  CloneInfo(s) = NoPort \/
         /\ CloneInfo(s) \in Ports /\ CloneInfo(s) # NoPort
         /\ s.port[CloneInfo(s)].clone /\ Active(s, CloneInfo(s))
         /\ \A w \in Ports : s.port[w].clone /\ Active(s, w) => CloneInfo(s) =< w
<1> DEFINE cloned == {v \in Ports : s.port[v].clone /\ Active(s, v)}
           k == CHOOSE v \in cloned : \A w \in cloned : v =< w
<1>1. CASE cloned = {}
  BY <1>1 DEF CloneInfo
<1>2. CASE cloned # {}
  <2>1. Ports \subseteq 0 .. 1 /\ cloned \subseteq Ports
    BY VideoPortAssumption
  <2>2. \E v \in cloned : \A w \in cloned : v =< w
    <3> HIDE DEF cloned
    <3>1. CASE 0 \in cloned
      BY <2>1, <3>1
    <3>2. CASE 0 \notin cloned
      <4>1. \A w \in cloned : w = 1
        BY <2>1, <3>2
      <4> QED  BY <1>2, <4>1
    <3> QED  BY <3>1, <3>2
  <2>3. k \in cloned /\ \A w \in cloned : k =< w
    <3> HIDE DEF cloned
    <3> QED  BY <2>2
  <2>4. CloneInfo(s) = k
    BY <1>2 DEF CloneInfo
  <2> QED  BY <2>1, <2>3, <2>4 DEF NoPort
<1> QED  BY <1>1, <1>2

(* The framebuffers of the ports. *)
LEMMA VideoFbIs ==
  ASSUME NEW v \in Ports
  PROVE  /\ VideoFb(v) \in Fb /\ VideoFb(v) # 0
         /\ \A w \in Ports : VideoFb(w) = VideoFb(v) => w = v
  BY VideoPortAssumption DEF VideoFb, Fb

(* What the fields of a port and of a CRTC can be. *)
LEMMA PortFields ==
  ASSUME NEW s \in Running, NEW v \in Ports
  PROVE  /\ Ovl(s, v) \in OrNone /\ s.port[v].stacking \in Xv
         /\ s.port[v].crtc \in Crtc \cup {NoCrtc} /\ s.port[v].cloneCrtc \in Crtc \cup {NoCrtc}
         /\ s.port[v].rotation \in Rotation /\ s.port[v].noKey \in BOOLEAN
  BY PortOf DEF Port, Ovl, OrNone, Xv

(* The same for a CRTC. *)
LEMMA CrtcFields ==
  ASSUME NEW s \in Running, NEW c \in Crtc
  PROVE  s.crtcOvl[c] \in OrNone /\ s.rotation[c] \in Rotation
  BY DEF Running, Device, OrNone

(* A CRTC may be given an overlay, or none. *)
LEMMA SetCrtcOvl ==
  ASSUME NEW s \in Running, NEW c \in Crtc, NEW o \in OrNone
  PROVE  Steps(s, [s EXCEPT !.crtcOvl[c] = o])
  BY DEF Steps, Device, Running, OrNone

(* And be told that it is on or off. *)
LEMMA SetDpmsFlag ==
  ASSUME NEW s \in Running, NEW c \in Crtc, NEW b \in BOOLEAN
  PROVE  Steps(s, [s EXCEPT !.dpms[c] = b])
  BY DEF Steps, Device, Running

(* Taking an overlay from the pool is such a step. *)
LEMMA PoolGetType ==
  ASSUME NEW s \in Running, NEW o \in OrNone, NEW use \in Crtc \cup Xv, NEW f \in Fb
  PROVE  Steps(s, PoolGet(s, o, use, f))
<1> DEFINE b == [s EXCEPT !.usage[o] = use]
           a == FbAssignOverlay(b, f, o)
<1>1. CASE o = NoOverlay
  BY <1>1, SetFailed DEF PoolGet
<1>2. CASE o \in Overlay
  <2>1. Steps(s, b)
    BY <1>2, SetUsage DEF Usage, Xv
  <2>2. Steps(b, a)
    <3> HIDE DEF b
    <3> QED  BY <2>1, FbAssignType DEF Steps
  <2>3. Steps(a, PoolPut(a, o))
    BY <1>2, <2>2, PoolPutType DEF Steps
  <2>4. Steps(PoolPut(a, o), [PoolPut(a, o) EXCEPT !.failed = TRUE])
    BY <2>3, SetFailed DEF Steps
  <2>5. o # NoOverlay
    BY <1>2, OverlaysAssumption DEF Overlay
  <2>6. PoolGet(s, o, use, f) = IF a.failed THEN [PoolPut(a, o) EXCEPT !.failed = TRUE] ELSE a
    BY <2>5 DEF PoolGet
  <2> HIDE DEF a, b
  <2> QED  BY <2>1, <2>2, <2>3, <2>4, <2>6, StepsAgain
<1> QED  BY <1>1, <1>2 DEF OrNone

(* For a CRTC. *)
LEMMA GetCrtcOverlayType ==
  ASSUME NEW s \in Running, NEW c \in Crtc
  PROVE  Steps(s, GetCrtcOverlay(s, c))
<1> DEFINE o == PoolChoice(s, c)
           got == PoolGet(s, o, c, 0)
<1>1. o \in OrNone
  BY PoolChoiceType
<1>2. Steps(s, got)
  BY <1>1, PoolGetType DEF Fb
<1>3. Steps(got, [got EXCEPT !.crtcOvl[c] = o])
  <2> HIDE DEF got, o
  <2> QED  BY <1>1, <1>2, SetCrtcOvl DEF Steps
<1> QED  BY <1>2, <1>3, StepsNot, StepsAgain DEF GetCrtcOverlay

(* And giving it back. *)
LEMMA PutCrtcOverlayType ==
  ASSUME NEW s \in Running, NEW c \in Crtc
  PROVE  Steps(s, PutCrtcOverlay(s, c))
<1> DEFINE a == PoolPut(s, s.crtcOvl[c])
<1>1. CASE s.crtcOvl[c] # NoOverlay
  <2>1. Steps(s, a)
    BY <1>1, CrtcFields, PoolPutType DEF OrNone
  <2>2. Steps(a, [a EXCEPT !.crtcOvl[c] = NoOverlay])
    <3> HIDE DEF a
    <3> QED  BY <2>1, SetCrtcOvl DEF Steps, OrNone
  <2> QED  BY <1>1, <2>1, <2>2, StepsAgain DEF PutCrtcOverlay
<1> QED  BY <1>1, StepsNot DEF PutCrtcOverlay

(* For a port. *)
LEMMA GetOverlayType ==
  ASSUME NEW s \in Running, NEW v \in Ports
  PROVE  Steps(s, GetOverlay(s, v))
<1> DEFINE use == s.port[v].stacking
           o == PoolChoice(s, use)
           got == PoolGet(s, o, use, VideoFb(v))
           q == [got.port[v] EXCEPT !.ovl = o, !.dirty = TRUE]
<1>1. use \in Xv
  BY PortFields
<1>2. o \in OrNone
  BY <1>1, PoolChoiceType
<1>3. Steps(s, got)
  BY <1>1, <1>2, PoolGetType, VideoFbIs
<1>4. q \in Port
  <2>1. got.port[v] \in Port
    BY <1>3, PortOf DEF Steps
  <2> HIDE DEF got, o
  <2> QED  BY <1>2, <2>1 DEF Port, OrNone
<1>5. Steps(got, [got EXCEPT !.port[v] = q])
  <2> HIDE DEF got, q
  <2> QED  BY <1>3, <1>4, SetPort DEF Steps
<1>6. GetOverlay(s, v) \in {s, got, [got EXCEPT !.port[v] = q]}
  BY DEF GetOverlay
<1> HIDE DEF got, q
<1> QED  BY <1>3, <1>5, <1>6, StepsNot, StepsAgain

(* And giving it back. *)
LEMMA PutOverlayType ==
  ASSUME NEW s \in Running, NEW v \in Ports
  PROVE  Steps(s, PutOverlay(s, v))
<1> DEFINE a == PoolPut(s, Ovl(s, v))
           q == [a.port[v] EXCEPT !.ovl = NoOverlay]
<1>1. CASE Ovl(s, v) # NoOverlay
  <2>1. Steps(s, a)
    BY <1>1, PortFields, PoolPutType DEF OrNone
  <2>2. q \in Port
    <3> HIDE DEF a
    <3> QED  BY <2>1, PortOf DEF Steps, Port
  <2>3. Steps(a, [a EXCEPT !.port[v] = q])
    <3> HIDE DEF a, q
    <3> QED  BY <2>1, <2>2, SetPort DEF Steps
  <2>4. PutOverlay(s, v) = [a EXCEPT !.port[v] = q]
    BY <1>1 DEF PutOverlay
  <2> QED  BY <2>1, <2>3, <2>4, StepsAgain
<1> QED  BY <1>1, StepsNot DEF PutOverlay

(* Giving the overlay of a CRTC another framebuffer is such a step. *)
LEMMA SwitchFbType ==
  ASSUME NEW s \in Running, NEW c \in Crtc, NEW f \in Fb
  PROVE  Steps(s, SwitchFb(s, c, f))
<1> DEFINE a == OverlayDisable(s, s.crtcOvl[c])
           b == FbAssignOverlay(a, f, s.crtcOvl[c])
<1>1. Steps(s, a)
  BY CrtcFields, DisableType
<1>2. Steps(a, b)
  <2> HIDE DEF a
  <2> QED  BY <1>1, CrtcFields, FbAssignType DEF Steps
<1>3. Steps(s, b)
  <2> HIDE DEF a, b
  <2> QED  BY <1>1, <1>2, StepsAgain
<1> QED  BY <1>3, StepsNot DEF SwitchFb

(* The clone of an active port is in a framebuffer of a port. *)
LEMMA CloneFb ==
  ASSUME NEW s, NEW c, CloneActive(s, c)
  PROVE  VideoFb(CloneInfo(s)) \in Fb
  BY CloneInfoIs, VideoFbIs DEF CloneActive

(* Whether that is the screen or the video that is cloned. *)
LEMMA ChooseSourceType ==
  ASSUME NEW s \in Running, NEW c \in Crtc
  PROVE  Steps(s, ChooseSource(s, c))
<1> DEFINE cloned == SwitchFb(s, c, VideoFb(CloneInfo(s)))
<1>1. Steps(s, SwitchFb(s, c, 0))
  BY SwitchFbType DEF Fb
<1>2. CASE CloneActive(s, c)
  <2>1. Steps(s, cloned)
    BY <1>2, CloneFb, SwitchFbType
  <2> HIDE DEF cloned
  <2>2. Steps(cloned, Ignoring(cloned))
    BY <2>1, IgnoringType DEF Steps, Running
  <2>3. Steps(Ignoring(cloned), SwitchFb(Ignoring(cloned), c, 0))
    BY <2>2, SwitchFbType DEF Fb, Steps
  <2> QED  BY <1>1, <2>1, <2>2, <2>3, StepsNot, StepsAgain DEF ChooseSource, cloned
<1> QED  BY <1>1, <1>2, StepsNot DEF ChooseSource

(* What is left of the rotation of a CRTC is a rotation. *)
LEMMA CrtcTurnType ==
  ASSUME NEW s \in Running, NEW c \in Crtc \cup {NoCrtc}
  PROVE  CrtcTurn(s, c) \in Rotation
<1>1. Rotate0 \in Rotation
  BY DEF Rotate0, Rotation, Bit
<1> QED  BY <1>1, CrtcFields DEF CrtcTurn, LeftToOverlay

(* update_rotation makes a rotation of two. *)
LEMMA TurnType ==
  ASSUME NEW x \in Rotation, NEW y \in Rotation
  PROVE  update_rotation(x, y) \in Rotation
  BY DEF update_rotation, Rotation, Bit

(* What update_rotation makes of a port. *)
TurnedPort(s, v) ==
  [s.port[v] EXCEPT !.turn = update_rotation(s.port[v].rotation, CrtcTurn(s, s.port[v].crtc)),
                    !.dirty = TRUE]

(* It is a port. *)
LEMMA TurnedPortType ==
  ASSUME NEW s \in Running, NEW v \in Ports
  PROVE  TurnedPort(s, v) \in Port
<1> DEFINE x == update_rotation(s.port[v].rotation, CrtcTurn(s, s.port[v].crtc))
<1>1. x \in Rotation
  BY PortFields, CrtcTurnType, TurnType
<1>0. s.port[v] \in Port
  BY PortOf
<1> HIDE DEF x
<1>2. [s.port[v] EXCEPT !.turn = x, !.dirty = TRUE] \in Port
  BY <1>0, <1>1 DEF Port
<1> QED  BY <1>2 DEF TurnedPort, x

(* It is what update_rotation makes of it. *)
LEMMA UpdateRotationIs ==
  ASSUME NEW s \in Running, NEW v \in Ports
  PROVE  /\ UpdateRotation(s, v) = [s EXCEPT !.port[v] = TurnedPort(s, v)]
         /\ UpdateRotation(s, v).port[v] = TurnedPort(s, v)
         /\ Steps(s, UpdateRotation(s, v))
<1>1. UpdateRotation(s, v) = [s EXCEPT !.port[v] = TurnedPort(s, v)]
  BY DEF UpdateRotation, TurnedPort
<1>2. [s EXCEPT !.port[v] = TurnedPort(s, v)].port[v] = TurnedPort(s, v)
  BY DEF Running, Device
<1> QED  BY <1>1, <1>2, TurnedPortType, SetPort

(* What omap_video_update_crtc makes of it. *)
UpdatedPort(s, v, c) ==
  IF s.port[v].crtc = c THEN [TurnedPort(s, v) EXCEPT !.updateClone = TRUE] ELSE s.port[v]

(* It is a port. *)
LEMMA UpdatedPortType ==
  ASSUME NEW s \in Running, NEW v \in Ports, NEW c
  PROVE  UpdatedPort(s, v, c) \in Port
<1>1. s.port[v] \in Port /\ TurnedPort(s, v) \in Port
  BY PortOf, TurnedPortType
<1>2. [TurnedPort(s, v) EXCEPT !.updateClone = TRUE] \in Port
  BY <1>1 DEF Port
<1> QED  BY <1>1, <1>2 DEF UpdatedPort

(* It is what omap_video_update_crtc makes of it. *)
LEMMA UpdateCrtcIs ==
  ASSUME NEW s \in Running, NEW c \in Crtc
  PROVE  /\ UpdateCrtc(s, c) = [s EXCEPT !.port = [v \in Ports |-> UpdatedPort(s, v, c)]]
         /\ Steps(s, UpdateCrtc(s, c))
<1>1. \A v \in Ports : UpdateRotation(s, v).port[v] = TurnedPort(s, v)
  BY UpdateRotationIs
<1>2. UpdateCrtc(s, c) = [s EXCEPT !.port = [v \in Ports |-> UpdatedPort(s, v, c)]]
  BY <1>1 DEF UpdateCrtc, UpdatedPort
<1>3. [v \in Ports |-> UpdatedPort(s, v, c)] \in [Ports -> Port]
  BY UpdatedPortType
<1>4. Steps(s, [s EXCEPT !.port = [v \in Ports |-> UpdatedPort(s, v, c)]])
  BY <1>3 DEF Steps, Running, Device
<1> QED  BY <1>2, <1>4

(* Giving up a mode is such a step. *)
LEMMA GiveUpModeType ==
  ASSUME NEW s \in Running, NEW c \in Crtc
  PROVE  Steps(s, GiveUpMode(s, c))
<1> DEFINE a == Ignoring(s)
           b == OverlayDisable(a, s.crtcOvl[c])
           d == PutCrtcOverlay(b, c)
           e == [d EXCEPT !.dpms[c] = FALSE, !.failed = TRUE]
<1>1. Steps(s, a)
  BY IgnoringType DEF Running
<1>2. Steps(a, b)
  <2> HIDE DEF a
  <2> QED  BY <1>1, CrtcFields, DisableType DEF Steps
<1>3. Steps(b, d)
  <2> HIDE DEF a, b
  <2> QED  BY <1>2, PutCrtcOverlayType DEF Steps
<1>4. Steps(d, e)
  <2> HIDE DEF a, b, d
  <2> QED  BY <1>3, TRUE DEF Steps, Running, Device
<1>5. Steps(s, e)
  <2> HIDE DEF a, b, d, e
  <2> QED  BY <1>1, <1>2, <1>3, <1>4, StepsAgain
<1> QED  BY <1>5, StepsNot DEF GiveUpMode

(* So is all that leads up to the light of a mode. *)
LEMMA LightUpType ==
  ASSUME NEW s \in Running, NEW c \in Crtc, NEW o \in OrNone
  PROVE  Steps(s, LightUp(s, c, o))
<1> DEFINE a == ChooseSource(s, c)
           b == OutputAssignOverlay(a, c, o)
           d == OverlaySetup(b, o)
           e == OverlayEnable(d, o)
<1>1. Steps(s, a)
  BY ChooseSourceType
<1>2. Steps(a, b)
  <2> HIDE DEF a
  <2> QED  BY <1>1, OutputAssignType DEF Steps
<1>3. Steps(b, d)
  <2> HIDE DEF a, b
  <2> QED  BY <1>2, SetupType DEF Steps
<1>4. Steps(d, e)
  <2> HIDE DEF a, b, d
  <2> QED  BY <1>3, EnableType DEF Steps
<1>5. Steps(s, e)
  <2> HIDE DEF a, b, d, e
  <2> QED  BY <1>1, <1>2, <1>3, <1>4, StepsAgain
<1> QED  BY <1>5, StepsNot DEF LightUp

(* And its end. *)
LEMMA EndModeType ==
  ASSUME NEW s \in Running, NEW c \in Crtc
  PROVE  Steps(s, EndMode(s, c))
  BY GiveUpModeType, UpdateCrtcIs DEF EndMode

(* With the overlay taken. *)
LEMMA SetModeOnType ==
  ASSUME NEW s \in Running, NEW c \in Crtc
  PROVE  Steps(s, SetModeOn(s, c))
<1> DEFINE a == LightUp(s, c, s.crtcOvl[c])
<1>1. Steps(s, a)
  BY CrtcFields, LightUpType
<1>2. Steps(a, EndMode(a, c))
  <2> HIDE DEF a
  <2> QED  BY <1>1, EndModeType DEF Steps
<1> QED  BY <1>1, <1>2, SetDpmsFlag, StepsAgain DEF SetModeOn

(* And all of crtc_set_mode_major. *)
LEMMA SetModeMajorType ==
  ASSUME NEW s \in Running, NEW c \in Crtc
  PROVE  Steps(s, SetModeMajor(s, c))
<1> DEFINE a == [s EXCEPT !.dpms[c] = TRUE]
           b == GetCrtcOverlay(a, c)
           d == SetModeOn(b, c)
<1>1. Steps(s, a)
  BY SetDpmsFlag
<1>2. Steps(a, b)
  <2> HIDE DEF a
  <2> QED  BY <1>1, GetCrtcOverlayType DEF Steps
<1>3. Steps(b, d)
  <2> HIDE DEF a, b
  <2> QED  BY <1>2, SetModeOnType DEF Steps
<1>4. Steps(s, d)
  <2> HIDE DEF a, b, d
  <2> QED  BY <1>1, <1>2, <1>3, StepsAgain
<1> QED  BY <1>4, StepsNot DEF SetModeMajor

(* The clone is on a CRTC or on none. *)
LEMMA GetCloneCrtcType ==
  ASSUME NEW s, NEW v
  PROVE  GetCloneCrtc(s, v) \in Crtc \cup {NoCrtc}
<1>1. \E c \in Crtc : c # s.port[v].crtc
  BY DEF Crtc
<1> QED  BY <1>1 DEF GetCloneCrtc

(* The steps of a port: mapping its memory. *)
LEMMA MapType ==
  ASSUME NEW s \in Running, NEW v \in Ports
  PROVE  Steps(s, Map(s, v))
  BY FbMapType, StepsNot, VideoFbIs DEF Map

(* Making its memory free to change. *)
LEMMA IdleType ==
  ASSUME NEW s \in Running, NEW v \in Ports
  PROVE  Steps(s, Idle(s, v))
<1> DEFINE a == OverlayDisable(s, Ovl(s, v))
           b == Ignoring(a)
           d == FbUnmap(b, VideoFb(v))
<1>1. Steps(s, a)
  BY PortFields, DisableType
<1>2. Steps(a, b)
  <2> HIDE DEF a
  <2> QED  BY <1>1, IgnoringType DEF Steps, Running
<1>3. Steps(b, d)
  <2> HIDE DEF a, b
  <2> QED  BY <1>2, FbUnmapType, VideoFbIs DEF Steps
<1>4. Steps(s, d)
  <2> HIDE DEF a, b, d
  <2> QED  BY <1>1, <1>2, <1>3, StepsAgain
<1> QED  BY <1>4, StepsNot DEF Idle

(* Remembering whether it has any. *)
LEMMA SetAllocated ==
  ASSUME NEW s \in Running, NEW v \in Ports, NEW b \in BOOLEAN
  PROVE  Steps(s, [s EXCEPT !.port[v].allocated = b])
<1> DEFINE q == [s.port[v] EXCEPT !.allocated = b]
<1>1. s.port[v] \in Port
  BY PortOf
<1>2. q \in Port
  BY <1>1 DEF Port
<1>3. Steps(s, [s EXCEPT !.port[v] = q])
  <2> HIDE DEF q
  <2> QED  BY <1>2, SetPort
<1> QED  BY <1>3, StepsNot

(* Freeing it. *)
LEMMA FreeMemType ==
  ASSUME NEW s \in Running, NEW v \in Ports
  PROVE  Steps(s, FreeMem(s, v))
<1> DEFINE freed == FbFree(s, VideoFb(v))
           a == Ignoring(freed)
           b == [freed EXCEPT !.port[v].allocated = FALSE]
<1>1. Steps(s, freed)
  BY FbFreeType, VideoFbIs
<1>2. Steps(freed, a)
  <2> HIDE DEF freed
  <2> QED  BY <1>1, IgnoringType DEF Steps, Running
<1>3. Steps(freed, b)
  <2> HIDE DEF freed
  <2> QED  BY <1>1, SetAllocated DEF Steps
<1>4. FreeMem(s, v) \in {s, a, b}
  BY DEF FreeMem
<1> HIDE DEF freed, a, b
<1> QED  BY <1>1, <1>2, <1>3, <1>4, StepsNot, StepsAgain

(* Forgetting what was shown. *)
LEMMA SetStopped ==
  ASSUME NEW s \in Running, NEW v \in Ports
  PROVE  Steps(s, [s EXCEPT !.port[v].state = "stopped", !.port[v].crtc = NoCrtc,
                            !.port[v].timer = FALSE])
<1> DEFINE q == [s.port[v] EXCEPT !.state = "stopped", !.crtc = NoCrtc, !.timer = FALSE]
<1>1. s.port[v] \in Port
  BY PortOf
<1>2. q \in Port
  BY <1>1 DEF Port
<1>3. Steps(s, [s EXCEPT !.port[v] = q])
  <2> HIDE DEF q
  <2> QED  BY <1>2, SetPort
<1> QED  BY <1>3, StepsNot

(* The whole of stop_video. *)
LEMMA StopType ==
  ASSUME NEW s \in Running, NEW v \in Ports
  PROVE  Steps(s, Stop(s, v))
<1> DEFINE a == Ignoring(s)
           b == Idle(a, v)
           d == FreeMem(b, v)
           e == [d EXCEPT !.port[v].state = "stopped", !.port[v].crtc = NoCrtc,
                          !.port[v].timer = FALSE]
<1>1. Steps(s, a)
  BY IgnoringType DEF Running
<1>2. Steps(a, b)
  <2> HIDE DEF a
  <2> QED  BY <1>1, IdleType DEF Steps
<1>3. Steps(b, d)
  <2> HIDE DEF a, b
  <2> QED  BY <1>2, FreeMemType DEF Steps
<1>4. Steps(d, e)
  <2> HIDE DEF a, b, d
  <2> QED  BY <1>3, SetStopped DEF Steps
<1>5. Steps(s, e)
  <2> HIDE DEF a, b, d, e
  <2> QED  BY <1>1, <1>2, <1>3, <1>4, StepsAgain
<1> QED  BY <1>5, StepsNot DEF Stop

(* Setting the colour key. *)
LEMMA SetupColorkeyType ==
  ASSUME NEW s \in Running, NEW v \in Ports, NEW b \in BOOLEAN
  PROVE  Steps(s, SetupColorkey(s, v, b))
  BY ColorKeyType, StepsNot, PortFields DEF SetupColorkey

(* Arming the timer. *)
LEMMA RearmTimerType ==
  ASSUME NEW s \in Running, NEW v \in Ports
  PROVE  Steps(s, RearmTimer(s, v))
<1> DEFINE q == [s.port[v] EXCEPT !.timer = s.port[v].noKey]
<1>1. s.port[v] \in Port
  BY PortOf
<1>2. q \in Port
  BY <1>1, PortFields DEF Port
<1>3. Steps(s, [s EXCEPT !.port[v] = q])
  <2> HIDE DEF q
  <2> QED  BY <1>2, SetPort
<1> QED  BY <1>3, StepsNot DEF RearmTimer

(* Showing the picture. *)
LEMMA ShowType ==
  ASSUME NEW s \in Running, NEW v \in Ports, NEW enable
  PROVE  Steps(s, Show(s, v, enable))
<1> DEFINE armed == RearmTimer(s, v)
           key == SetupColorkey(armed, v, ~s.port[v].noKey)
           lit == OverlayEnable(key, Ovl(s, v))
           e == Ignoring(lit)
<1>1. Steps(s, armed)
  BY RearmTimerType
<1>2. Steps(armed, key)
  <2> HIDE DEF armed
  <2> QED  BY <1>1, SetupColorkeyType DEF Steps
<1>3. Steps(key, lit)
  <2> HIDE DEF armed, key
  <2> QED  BY <1>2, PortFields, EnableType DEF Steps
<1>4. Steps(lit, e)
  <2> HIDE DEF lit
  <2> QED  BY <1>3, IgnoringType DEF Steps, Running
<1>5. Show(s, v, enable) \in {armed, e}
  BY DEF Show
<1> HIDE DEF armed, key, lit, e
<1> QED  BY <1>1, <1>2, <1>3, <1>4, <1>5, StepsAgain

(* No rotation is a rotation. *)
LEMMA Rotate0Type == Rotate0 \in Rotation
  BY DEF Rotate0, Rotation, Bit

(* A CRTC may be given a rotation and be enabled. *)
LEMMA SetModeFields ==
  ASSUME NEW s \in Running, NEW c \in Crtc, NEW b \in BOOLEAN, NEW r \in Rotation
  PROVE  Steps(s, [s EXCEPT !.enabled[c] = b, !.rotation[c] = r])
  BY DEF Steps, Device, Running

(* All of realloc_fb is such a step. *)
LEMMA ReallocFbType ==
  ASSUME NEW s \in Running, NEW n \in Sizes
  PROVE  Steps(s, ReallocFb(s, n))
<1> DEFINE lit == {o \in s.on : s.usage[o] \in Crtc}
           a == FbUnmap(s, 0)
           b == [a EXCEPT !.on = @ \ lit]
           got == FbAlloc(b, 0, n)
           d == Ignoring(got)
           back == FbMap(d, 0)
           dead == Require(Ignoring(back), FALSE, "fatal")
           again == IF Fails(s, "enable") THEN {} ELSE lit
           e == [back EXCEPT !.on = @ \cup again]
<1>1. Steps(s, a)
  BY FbUnmapType DEF Fb
<1>2. Steps(a, b)
  <2> HIDE DEF a
  <2> QED  BY <1>1 DEF Steps, Running, Device
<1>3. Steps(b, got)
  <2> HIDE DEF b
  <2> QED  BY <1>2, FbAllocType DEF Steps, Fb
<1>4. Steps(got, d)
  <2> HIDE DEF got
  <2> QED  BY <1>3, IgnoringType DEF Steps, Running
<1>5. Steps(d, back)
  <2> HIDE DEF d
  <2> QED  BY <1>4, FbMapType DEF Steps, Fb
<1>6. Steps(back, Ignoring(back))
  <2> HIDE DEF back
  <2> QED  BY <1>5, IgnoringType DEF Steps, Running
<1>7. Steps(Ignoring(back), dead)
  <2> HIDE DEF back
  <2> QED  BY <1>6, RequireType DEF Steps, Death
<1>8. Steps(back, e)
  <2>1. again \subseteq Overlay
    BY DEF Running, Device
  <2> HIDE DEF back, again
  <2> QED  BY <1>5, <2>1 DEF Steps, Running, Device
<1>9. ReallocFb(s, n) \in {dead, e}
  BY DEF ReallocFb
<1> HIDE DEF a, b, got, d, back, dead, e
<1> QED  BY <1>1, <1>2, <1>3, <1>4, <1>5, <1>6, <1>7, <1>8, <1>9, StepsAgain

(* So is what a client does to the memory of its port. *)
LEMMA ClientAllocType ==
  ASSUME NEW s \in Running, NEW v \in Ports, NEW n \in Sizes
  PROVE  Steps(s, [s EXCEPT !.mem[VideoFb(v)] = n])
  BY VideoFbIs DEF Steps, Running, Device

-----------------------------------------------------------------------------
(* The steps for a CRTC. *)

(* The ways to die that are excluded. *)
Doomed == {"overlay", "map", "copy"}

(* An overlay is marked as taken exactly when the one it is marked for holds it. *)
PoolOf(s) ==
  /\ \A o \in Overlay, c \in Crtc : s.usage[o] = c <=> s.crtcOvl[c] = o
  /\ \A o \in Overlay : s.usage[o] \in Xv <=> \E v \in Ports : Ovl(s, v) = o
  /\ \A v, w \in Ports : Ovl(s, v) # NoOverlay /\ Ovl(s, v) = Ovl(s, w) => v = w

(* What ports and CRTCs agree upon while the server is up: who has which overlay, that only
   taken overlays are on, that memory the driver thinks it has is there, and that the overlay of
   a port scans the framebuffer of the port and is on only while the port is active. *)
Shared(s) ==
  /\ PoolOf(s)
  /\ \A o \in s.on : s.usage[o] # "NONE"
  /\ s.mem[0] # 0
  /\ \A f \in Fb : s.size[f] # 0 => s.mem[f] # 0
  /\ \A v \in Ports :
       /\ Ovl(s, v) # NoOverlay => s.fb[Ovl(s, v)] = VideoFb(v)
       /\ Ovl(s, v) \in s.on => Active(s, v)
       /\ Active(s, v) => Ovl(s, v) # NoOverlay

(* What a step for a CRTC leaves to the port v. *)
Kept(s, t, v) ==
  /\ Ovl(s, v) # NoOverlay =>
       /\ t.fb[Ovl(s, v)] = s.fb[Ovl(s, v)]
       /\ t.out[Ovl(s, v)] = s.out[Ovl(s, v)]
       /\ Ovl(s, v) \in t.on <=> Ovl(s, v) \in s.on
  /\ Ovl(t, v) = Ovl(s, v) /\ (Active(t, v) <=> Active(s, v))
  /\ t.port[v].kind = s.port[v].kind /\ t.port[v].crtc = s.port[v].crtc
  /\ t.port[v].allocated = s.port[v].allocated
  /\ t.port[v].reserved = s.port[v].reserved
  /\ t.port[v].noKey = s.port[v].noKey /\ t.port[v].timer = s.port[v].timer
  /\ t.port[v].rotation = s.port[v].rotation
  /\ s.port[v].dirty => t.port[v].dirty
  /\ \/ t.port[v].turn = s.port[v].turn
     \/ /\ s.port[v].crtc # NoCrtc
        /\ t.port[v].turn = update_rotation(s.port[v].rotation, CrtcTurn(s, s.port[v].crtc))

(* What it leaves to all. *)
Framed(s, t) ==
  /\ t.mem = s.mem /\ t.size = s.size /\ t.buffered = s.buffered /\ t.mapped = s.mapped
  /\ t.key = s.key /\ t.rotation = s.rotation
  /\ \A v \in Ports : Kept(s, t, v)

(* A step for a CRTC: no port loses its overlay, its memory or its place by it. *)
CrtcSteps(s, t) ==
  /\ Steps(s, t)
  /\ s.server = "up" /\ Shared(s) =>
       /\ t.server \notin Doomed
       /\ t.server = "up" => Shared(t) /\ Framed(s, t)

(* A port that is left alone twice is left alone. *)
LEMMA KeptAgain ==
  ASSUME NEW s, NEW t, NEW u, NEW v \in Ports, Kept(s, t, v), Kept(t, u, v),
         t.rotation = s.rotation
  PROVE  Kept(s, u, v)
<1>1. CrtcTurn(t, s.port[v].crtc) = CrtcTurn(s, s.port[v].crtc)
  BY DEF CrtcTurn
<1> QED  BY <1>1 DEF Kept

(* So are all of them. *)
LEMMA FramedAgain ==
  ASSUME NEW s, NEW t, NEW u, Framed(s, t), Framed(t, u)
  PROVE  Framed(s, u)
  BY KeptAgain DEF Framed

(* Two such steps are one. *)
LEMMA CrtcStepsAgain ==
  ASSUME NEW s, NEW t, NEW u, CrtcSteps(s, t), CrtcSteps(t, u)
  PROVE  CrtcSteps(s, u)
<1>1. Steps(s, u)
  BY StepsAgain DEF CrtcSteps
<1>2. ASSUME s.server = "up", Shared(s)
      PROVE  u.server \notin Doomed /\ (u.server = "up" => Shared(u) /\ Framed(s, u))
  <2>1. t.server \notin Doomed
    BY <1>2 DEF CrtcSteps
  <2>2. CASE t.server = "up"
    BY <1>2, <2>2, FramedAgain DEF CrtcSteps
  <2>3. CASE t.server # "up"
    <3>1. u.server = t.server
      BY <2>3 DEF CrtcSteps, Steps
    <3> QED  BY <2>1, <2>3, <3>1
  <2> QED  BY <2>2, <2>3
<1> QED  BY <1>1, <1>2 DEF CrtcSteps

(* No step leaves a port alone. *)
LEMMA KeptNot ==
  ASSUME NEW s, NEW v
  PROVE  Kept(s, s, v)
  BY DEF Kept

(* And is such a step. *)
LEMMA CrtcStepsNot ==
  ASSUME NEW s \in Running
  PROVE  CrtcSteps(s, s)
  BY StepsNot, KeptNot DEF CrtcSteps, Framed, Doomed

(* The same, as far as the ports and the kernel are concerned. *)
LEMMA SameShared ==
  ASSUME NEW s, NEW t, Shared(s),
         t.usage = s.usage, t.fb = s.fb, t.on = s.on, t.mem = s.mem, t.size = s.size,
         t.crtcOvl = s.crtcOvl,
         \A v \in Ports : Ovl(t, v) = Ovl(s, v) /\ (Active(t, v) <=> Active(s, v))
  PROVE  Shared(t)
<1>1. PoolOf(t)
  BY DEF Shared, PoolOf
<1> QED  BY <1>1 DEF Shared

(* A step that touches none of the tables. *)
LEMMA CrtcStepsFlags ==
  ASSUME NEW s \in Running, NEW t, Steps(s, t),
         t.usage = s.usage, t.fb = s.fb, t.out = s.out, t.on = s.on, t.mem = s.mem,
         t.size = s.size, t.key = s.key, t.buffered = s.buffered, t.mapped = s.mapped,
         t.rotation = s.rotation, t.crtcOvl = s.crtcOvl, t.port = s.port,
         t.server = s.server \/ t.server \notin Doomed
  PROVE  CrtcSteps(s, t)
<1>1. ASSUME Shared(s), s.server = "up" PROVE Shared(t) /\ Framed(s, t)
  <2>1. \A v \in Ports : Ovl(t, v) = Ovl(s, v) /\ (Active(t, v) <=> Active(s, v))
    BY DEF Ovl, Active
  <2>2. Shared(t)
    BY <1>1, <2>1, SameShared
  <2>3. \A v \in Ports : Kept(s, t, v)
    BY <2>1 DEF Kept
  <2> QED  BY <2>2, <2>3 DEF Framed
<1> QED  BY <1>1 DEF CrtcSteps, Doomed

(* Ignoring a failure. *)
LEMMA CrtcStepsIgnoring ==
  ASSUME NEW s \in Running
  PROVE  CrtcSteps(s, Ignoring(s))
<1>1. Steps(s, Ignoring(s))
  BY IgnoringType DEF Running
<1> HIDE DEF Running
<1>2. s \in Device
  BY DEF Running
<1> QED  BY <1>1, <1>2, CrtcStepsFlags DEF Ignoring, Device

(* Remembering that a CRTC is on or off. *)
LEMMA CrtcStepsDpms ==
  ASSUME NEW s \in Running, NEW c \in Crtc, NEW b \in BOOLEAN
  PROVE  CrtcSteps(s, [s EXCEPT !.dpms[c] = b])
<1>1. s \in Device
  BY DEF Running
<1> QED  BY <1>1, SetDpmsFlag, CrtcStepsFlags DEF Device

-----------------------------------------------------------------------------
(* Changes of one overlay. *)

(* t differs from s at most in the overlay o, and in whether a step has failed. *)
Apart(s, t, o) ==
  /\ Steps(s, t)
  /\ t.key = s.key /\ t.mem = s.mem /\ t.size = s.size /\ t.buffered = s.buffered
  /\ t.mapped = s.mapped /\ t.server = s.server /\ t.port = s.port
  /\ t.enabled = s.enabled /\ t.dpms = s.dpms /\ t.rotation = s.rotation
  /\ t.crtcOvl = s.crtcOvl
  /\ \A p \in Overlay : p # o =>
       /\ t.usage[p] = s.usage[p] /\ t.fb[p] = s.fb[p] /\ t.out[p] = s.out[p]
       /\ p \in t.on <=> p \in s.on

(* The same, with the server as alive and the memory as it was. *)
Tuned(s, t, o) == Apart(s, t, o) /\ t.usage = s.usage

(* Two such changes of one overlay are one. *)
LEMMA ApartAgain ==
  ASSUME NEW s, NEW t, NEW u, NEW o, Apart(s, t, o), Apart(t, u, o)
  PROVE  Apart(s, u, o)
  BY StepsAgain DEF Apart

(* The same of Tuned. *)
LEMMA TunedAgain ==
  ASSUME NEW s, NEW t, NEW u, NEW o, Tuned(s, t, o), Tuned(t, u, o)
  PROVE  Tuned(s, u, o)
  BY ApartAgain DEF Tuned

(* No change is one too. *)
LEMMA TunedNot ==
  ASSUME NEW s \in Running, NEW o
  PROVE  Tuned(s, s, o)
  BY StepsNot DEF Tuned, Apart

(* Ignoring a failure changes no overlay at all. *)
LEMMA IgnoringTuned ==
  ASSUME NEW s \in Running, NEW o
  PROVE  Tuned(s, Ignoring(s), o) /\ Ignoring(s).fb = s.fb /\ Ignoring(s).on = s.on
         /\ Ignoring(s).out = s.out /\ (s.server = "up" => ~Ignoring(s).failed)
<1>1. Steps(s, Ignoring(s))
  BY IgnoringType DEF Running
<1>2. s \in Device
  BY DEF Running
<1> QED  BY <1>1, <1>2 DEF Tuned, Apart, Ignoring, Device

(* Disabling an overlay that is there. *)
LEMMA DisableIs ==
  ASSUME NEW s \in Running, NEW o \in Overlay
  PROVE  LET t == OverlayDisable(s, o) IN
         /\ Tuned(s, t, o) /\ t.fb = s.fb /\ t.out = s.out /\ t.failed = s.failed
         /\ ~s.failed => o \notin t.on
         /\ s.failed => t = s
         /\ t.on \subseteq s.on
<1> DEFINE t == OverlayDisable(s, o)
<1>0. o # NoOverlay
  BY OverlaysAssumption DEF Overlay
<1>1. Steps(s, t)
  BY DisableType DEF OrNone
<1> DEFINE r == Require(s, o # NoOverlay, "overlay")
<1>5. r = s
  BY <1>0 DEF Require
<1>6. t = IF s.failed THEN s ELSE [r EXCEPT !.on = @ \ {o}]
  BY DEF OverlayDisable
<1>2. t = IF s.failed THEN s ELSE [s EXCEPT !.on = @ \ {o}]
  <2> HIDE DEF r, t
  <2> QED  BY <1>5, <1>6
<1>3. s \in Device
  BY DEF Running
<1> HIDE DEF t
<1>4. /\ Tuned(s, t, o) /\ t.fb = s.fb /\ t.out = s.out /\ t.failed = s.failed
      /\ ~s.failed => o \notin t.on
      /\ s.failed => t = s
      /\ t.on \subseteq s.on
  BY <1>1, <1>2, <1>3 DEF Tuned, Apart, Device
<1> QED  BY <1>4 DEF t

(* Setting it up. *)
LEMMA SetupIs ==
  ASSUME NEW s \in Running, NEW o \in Overlay, s.failed \/ s.fb[o] # NoFb
  PROVE  LET t == OverlaySetup(s, o) IN
         /\ Tuned(s, t, o) /\ t.fb = s.fb /\ t.out = s.out /\ t.on = s.on
         /\ s.failed => t = s
<1> DEFINE t == OverlaySetup(s, o)
<1>0. o # NoOverlay
  BY OverlaysAssumption DEF Overlay
<1>1. Steps(s, t)
  BY SetupType DEF OrNone
<1> DEFINE r == Require(s, o # NoOverlay /\ s.fb[o] # NoFb, "overlay")
<1>5. s.failed \/ r = s
  BY <1>0 DEF Require
<1>6. t = IF s.failed THEN s ELSE [r EXCEPT !.failed = @ \/ Fails(r, "setup")]
  BY DEF OverlaySetup
<1>2. t = IF s.failed THEN s ELSE [s EXCEPT !.failed = @ \/ Fails(s, "setup")]
  <2> HIDE DEF r, t
  <2> QED  BY <1>5, <1>6
<1>3. s \in Device
  BY DEF Running
<1> HIDE DEF t
<1>4. /\ Tuned(s, t, o) /\ t.fb = s.fb /\ t.out = s.out /\ t.on = s.on
      /\ s.failed => t = s
  BY <1>1, <1>2, <1>3 DEF Tuned, Apart, Device
<1> QED  BY <1>4 DEF t

(* Enabling it, which takes memory. *)
LEMMA EnableIs ==
  ASSUME NEW s \in Running, NEW o \in Overlay
  PROVE  LET t == OverlayEnable(s, o) IN
         /\ Tuned(s, t, o) /\ t.fb = s.fb /\ t.out = s.out
         /\ s.failed => t = s
         /\ s.on \subseteq t.on
<1> DEFINE t == OverlayEnable(s, o)
<1>0. o # NoOverlay
  BY OverlaysAssumption DEF Overlay
<1>1. Steps(s, t)
  BY EnableType DEF OrNone
<1> DEFINE r == Require(s, o # NoOverlay, "overlay")
<1>5. r = s
  BY <1>0 DEF Require
<1>6. t \in {r, [r EXCEPT !.failed = TRUE], [r EXCEPT !.on = @ \cup {o}]}
      /\ (r.failed => t = r)
  BY DEF OverlayEnable
<1>2. t \in {s, [s EXCEPT !.failed = TRUE], [s EXCEPT !.on = @ \cup {o}]}
      /\ (s.failed => t = s)
  <2> HIDE DEF r, t
  <2> QED  BY <1>5, <1>6
<1>3. s \in Device
  BY DEF Running
<1> HIDE DEF t
<1>4. /\ Tuned(s, t, o) /\ t.fb = s.fb /\ t.out = s.out
      /\ s.failed => t = s
      /\ s.on \subseteq t.on
  BY <1>1, <1>2, <1>3 DEF Tuned, Apart, Device
<1> QED  BY <1>4 DEF t

(* Giving it a framebuffer. *)
LEMMA FbAssignIs ==
  ASSUME NEW s \in Running, NEW o \in Overlay, NEW f \in Fb
  PROVE  LET t == FbAssignOverlay(s, f, o) IN
         /\ Tuned(s, t, o) /\ t.on = s.on /\ t.out = s.out
         /\ s.failed => t = s
         /\ ~t.failed => t.fb[o] = f
<1> DEFINE t == FbAssignOverlay(s, f, o)
<1>1. Steps(s, t)
  BY FbAssignType DEF OrNone
<1>2. \/ t = s /\ (s.failed \/ s.fb[o] = f)
      \/ ~s.failed /\ t \in {[s EXCEPT !.fb[o] = NoFb, !.failed = TRUE], [s EXCEPT !.fb[o] = f]}
  BY DEF FbAssignOverlay
<1>3. s \in Device
  BY DEF Running
<1> HIDE DEF t
<1>4. /\ Tuned(s, t, o) /\ t.on = s.on /\ t.out = s.out
      /\ s.failed => t = s
      /\ ~t.failed => t.fb[o] = f
  <2>1. CASE t = s
    BY <1>1, <1>2, <1>3, <2>1, TunedNot, ZenonT(40) DEF Device
  <2>2. CASE t = [s EXCEPT !.fb[o] = NoFb, !.failed = TRUE] /\ ~s.failed
    BY <1>1, <1>3, <2>2 DEF Tuned, Apart, Device
  <2>3. CASE t = [s EXCEPT !.fb[o] = f] /\ ~s.failed
    BY <1>1, <1>3, <2>3 DEF Tuned, Apart, Device
  <2> QED  BY <1>2, <2>1, <2>2, <2>3
<1> QED  BY <1>4 DEF t

(* Giving it a display: if that fails the overlay is off. *)
LEMMA OutputIs ==
  ASSUME NEW s \in Running, NEW o \in Overlay, NEW c \in Crtc
  PROVE  LET t == OutputAssignOverlay(s, c, o) IN
         /\ Tuned(s, t, o) /\ t.fb = s.fb
         /\ s.failed => t = s
         /\ ~t.failed => t.out[o] = c
         /\ t.on \subseteq s.on
<1> DEFINE t == OutputAssignOverlay(s, c, o)
<1>0. o # NoOverlay
  BY OverlaysAssumption DEF Overlay
<1>1. Steps(s, t)
  BY OutputAssignType DEF OrNone
<1> DEFINE r == Require(s, o # NoOverlay, "overlay")
<1>5. r = s
  BY <1>0 DEF Require
<1>6. t = AssignDevice(r, c, o)
  BY DEF OutputAssignOverlay
<1>7. t = AssignDevice(s, c, o)
  <2> HIDE DEF r, t
  <2> QED  BY <1>5, <1>6
<1>2. \/ t = s /\ (s.failed \/ s.out[o] = c)
      \/ ~s.failed /\ t \in {[s EXCEPT !.out[o] = NoCrtc, !.on = @ \ {o}, !.failed = TRUE],
                              [s EXCEPT !.out[o] = c, !.on = @ \ {o}],
                              [s EXCEPT !.out[o] = c, !.on = @]}
  <2> HIDE DEF t
  <2> QED  BY <1>7 DEF AssignDevice
<1>3. s \in Device
  BY DEF Running
<1> HIDE DEF t
<1>4. /\ Tuned(s, t, o) /\ t.fb = s.fb
      /\ s.failed => t = s
      /\ ~t.failed => t.out[o] = c
      /\ t.on \subseteq s.on
  <2>1. CASE t = s
    BY <1>1, <1>2, <1>3, <2>1, TunedNot, ZenonT(40) DEF Device
  <2>2. CASE t = [s EXCEPT !.out[o] = NoCrtc, !.on = @ \ {o}, !.failed = TRUE] /\ ~s.failed
    BY <1>1, <1>3, <2>2 DEF Tuned, Apart, Device
  <2>3. CASE t = [s EXCEPT !.out[o] = c, !.on = @ \ {o}] /\ ~s.failed
    BY <1>1, <1>3, <2>3 DEF Tuned, Apart, Device
  <2>4. CASE t = [s EXCEPT !.out[o] = c, !.on = @] /\ ~s.failed
    BY <1>1, <1>3, <2>4 DEF Tuned, Apart, Device
  <2> QED  BY <1>2, <2>1, <2>2, <2>3, <2>4
<1> QED  BY <1>4 DEF t

-----------------------------------------------------------------------------
(* The overlays of the CRTCs, and those of nobody. *)

(* What is done to the overlay of a CRTC, or to a free one, leaves the rest. *)
LEMMA TunedCrtc ==
  ASSUME NEW s \in Running, NEW t, NEW c \in Crtc, s.crtcOvl[c] # NoOverlay,
         Tuned(s, t, s.crtcOvl[c])
  PROVE  CrtcSteps(s, t)
<1> DEFINE o == s.crtcOvl[c]
<1>1. ASSUME Shared(s) PROVE Shared(t) /\ Framed(s, t)
  <2>1. o \in Overlay /\ s.usage[o] = c
    BY <1>1, CrtcFields DEF Shared, PoolOf, OrNone
  <2>2. \A v \in Ports : Ovl(s, v) # NoOverlay => Ovl(s, v) \in Overlay /\ Ovl(s, v) # o
    BY <1>1, <2>1, PortFields DEF Shared, PoolOf, OrNone, Xv, Crtc
  <2>3. \A v \in Ports : Ovl(t, v) = Ovl(s, v) /\ (Active(t, v) <=> Active(s, v))
    BY DEF Tuned, Apart, Ovl, Active
  <2>4. \A v \in Ports : Ovl(s, v) # NoOverlay =>
          /\ t.fb[Ovl(s, v)] = s.fb[Ovl(s, v)] /\ t.out[Ovl(s, v)] = s.out[Ovl(s, v)]
          /\ Ovl(s, v) \in t.on <=> Ovl(s, v) \in s.on
    BY <2>2 DEF Tuned, Apart
  <2>5. PoolOf(t)
    BY <1>1, <2>3 DEF Shared, PoolOf, Tuned, Apart
  <2>6. \A p \in t.on : t.usage[p] # "NONE"
    <3>1. t.on \subseteq Overlay /\ c # "NONE"
      BY DEF Tuned, Apart, Steps, Running, Device, Crtc
    <3> QED  BY <1>1, <2>1, <3>1 DEF Shared, Tuned, Apart
  <2>7. t.on \subseteq Overlay
    BY DEF Tuned, Apart, Steps, Running, Device
  <2>8. \A v \in Ports : NoOverlay \notin t.on
    BY <2>7, OverlaysAssumption DEF Overlay
  <2>9. Shared(t)
    <3>1. \A v \in Ports :
            /\ Ovl(t, v) # NoOverlay => t.fb[Ovl(t, v)] = VideoFb(v)
            /\ Ovl(t, v) \in t.on => Active(t, v)
            /\ Active(t, v) => Ovl(t, v) # NoOverlay
      BY <1>1, <2>3, <2>4, <2>8 DEF Shared
    <3> QED  BY <1>1, <2>5, <2>6, <3>1 DEF Shared, Tuned, Apart
  <2>10. \A v \in Ports : Kept(s, t, v)
    BY <2>3, <2>4 DEF Kept, Tuned, Apart
  <2> QED  BY <2>9, <2>10 DEF Framed, Tuned, Apart
<1>2. Steps(s, t) /\ t.server = s.server
  BY DEF Tuned, Apart
<1> QED  BY <1>1, <1>2 DEF CrtcSteps, Doomed

(* The same of an overlay that nobody has. *)
LEMMA TunedFree ==
  ASSUME NEW s \in Running, NEW t, NEW o \in Overlay, s.usage[o] = "NONE",
         Tuned(s, t, o), t.on = s.on
  PROVE  CrtcSteps(s, t)
<1>1. ASSUME Shared(s) PROVE Shared(t) /\ Framed(s, t)
  <2>2. \A v \in Ports : Ovl(s, v) # NoOverlay => Ovl(s, v) \in Overlay /\ Ovl(s, v) # o
    BY <1>1, PortFields DEF Shared, PoolOf, OrNone, Xv
  <2>3. \A v \in Ports : Ovl(t, v) = Ovl(s, v) /\ (Active(t, v) <=> Active(s, v))
    BY DEF Tuned, Apart, Ovl, Active
  <2>4. \A v \in Ports : Ovl(s, v) # NoOverlay =>
          /\ t.fb[Ovl(s, v)] = s.fb[Ovl(s, v)] /\ t.out[Ovl(s, v)] = s.out[Ovl(s, v)]
          /\ Ovl(s, v) \in t.on <=> Ovl(s, v) \in s.on
    BY <2>2 DEF Tuned, Apart
  <2>5. PoolOf(t)
    BY <1>1, <2>3 DEF Shared, PoolOf, Tuned, Apart
  <2>9. Shared(t)
    <3>1. \A v \in Ports :
            /\ Ovl(t, v) # NoOverlay => t.fb[Ovl(t, v)] = VideoFb(v)
            /\ Ovl(t, v) \in t.on => Active(t, v)
            /\ Active(t, v) => Ovl(t, v) # NoOverlay
      BY <1>1, <2>3, <2>4 DEF Shared
    <3> QED  BY <1>1, <2>5, <3>1 DEF Shared, Tuned, Apart
  <2>10. \A v \in Ports : Kept(s, t, v)
    BY <2>3, <2>4 DEF Kept, Tuned, Apart
  <2> QED  BY <2>9, <2>10 DEF Framed, Tuned, Apart
<1>2. Steps(s, t) /\ t.server = s.server
  BY DEF Tuned, Apart
<1> QED  BY <1>1, <1>2 DEF CrtcSteps, Doomed

(* A step for a CRTC after which the ports know nothing of it. *)
Quiet(s, t) ==
  /\ CrtcSteps(s, t)
  /\ s.server = "up" /\ Shared(s) =>
       t.server = "up" /\ t.port = s.port /\ t.rotation = s.rotation /\ t.enabled = s.enabled

(* Two such steps are one. *)
LEMMA QuietAgain ==
  ASSUME NEW s, NEW t, NEW u, Quiet(s, t), Quiet(t, u)
  PROVE  Quiet(s, u)
  BY CrtcStepsAgain DEF Quiet, CrtcSteps

(* No step is one too. *)
LEMMA QuietNot ==
  ASSUME NEW s \in Running
  PROVE  Quiet(s, s)
  BY CrtcStepsNot DEF Quiet

(* A change of the overlay of a CRTC is one. *)
LEMMA TunedQuiet ==
  ASSUME NEW s \in Running, NEW t, NEW c \in Crtc, s.crtcOvl[c] # NoOverlay,
         Tuned(s, t, s.crtcOvl[c])
  PROVE  Quiet(s, t)
  BY TunedCrtc DEF Quiet, Tuned, Apart

(* So is remembering that the CRTC is on or off. *)
LEMMA QuietDpms ==
  ASSUME NEW s \in Running, NEW c \in Crtc, NEW b \in BOOLEAN
  PROVE  Quiet(s, [s EXCEPT !.dpms[c] = b])
  BY CrtcStepsDpms DEF Quiet, Running, Device

(* An overlay that goes back to the pool is free, and has its own framebuffer or none. *)
LEMMA PoolPutIs ==
  ASSUME NEW s \in Running, NEW o \in Overlay
  PROVE  LET t == PoolPut(s, o) IN
         /\ Apart(s, t, o) /\ t.on = s.on /\ t.out = s.out
         /\ t.usage = [s.usage EXCEPT ![o] = "NONE"]
         /\ s.server = "up" => ~t.failed
<1> DEFINE a == Ignoring(s)
           b == [a EXCEPT !.usage[o] = "NONE"]
           d == FbAssignOverlay(b, o, o)
           t == Ignoring(d)
<1>1. Tuned(s, a, o) /\ a.on = s.on /\ a.out = s.out
  BY IgnoringTuned
<1>2. a \in Device /\ a \in Running
  BY <1>1 DEF Tuned, Apart, Steps, Running
<1>3. Apart(a, b, o) /\ b.on = a.on /\ b.out = a.out /\ b.usage = [a.usage EXCEPT ![o] = "NONE"]
  <2>1. Steps(a, b)
    BY <1>2, SetUsage DEF Usage
  <2> HIDE DEF a
  <2> QED  BY <1>2, <2>1 DEF Apart, Device
<1>4. Tuned(b, d, o) /\ d.on = b.on /\ d.out = b.out /\ d \in Running
  <2> HIDE DEF b
  <2>1. b \in Running /\ o \in Fb
    BY <1>3 DEF Apart, Steps, Overlay, Fb
  <2>2. Tuned(b, d, o) /\ d.on = b.on /\ d.out = b.out
    BY <2>1, FbAssignIs
  <2> HIDE DEF d
  <2> QED  BY <2>2 DEF Tuned, Apart, Steps
<1>5. Tuned(d, t, o) /\ t.on = d.on /\ t.out = d.out /\ (d.server = "up" => ~t.failed)
  <2> HIDE DEF d
  <2> QED  BY <1>4, IgnoringTuned
<1>6. PoolPut(s, o) = t
  BY DEF PoolPut
<1> HIDE DEF a, b, d, t
<1>7. Apart(s, t, o)
  BY <1>1, <1>3, <1>4, <1>5, ApartAgain DEF Tuned
<1>8. t.on = s.on /\ t.out = s.out /\ t.usage = [s.usage EXCEPT ![o] = "NONE"]
      /\ (s.server = "up" => ~t.failed)
  BY <1>1, <1>3, <1>4, <1>5 DEF Tuned, Apart
<1> QED  BY <1>6, <1>7, <1>8

(* One that is taken has the framebuffer that was asked for, or has gone back. *)
LEMMA PoolGetIs ==
  ASSUME NEW s \in Running, NEW o \in Overlay, NEW use \in Crtc \cup Xv, NEW f \in Fb,
         s.usage[o] = "NONE"
  PROVE  LET t == PoolGet(s, o, use, f) IN
         /\ Apart(s, t, o) /\ t.on = s.on /\ t.out = s.out
         /\ t.failed => t.usage = s.usage
         /\ ~t.failed => t.fb[o] = f /\ t.usage = [s.usage EXCEPT ![o] = use]
<1> DEFINE b == [s EXCEPT !.usage[o] = use]
           a == FbAssignOverlay(b, f, o)
           p == PoolPut(a, o)
           e == [p EXCEPT !.failed = TRUE]
           t == PoolGet(s, o, use, f)
<1>0. s \in Device
  BY DEF Running
<1>1. Apart(s, b, o) /\ b.on = s.on /\ b.out = s.out /\ b.usage = [s.usage EXCEPT ![o] = use]
  <2>1. Steps(s, b)
    BY SetUsage DEF Usage, Xv
  <2> QED  BY <1>0, <2>1 DEF Apart, Device
<1>2. /\ Tuned(b, a, o) /\ a.on = b.on /\ a.out = b.out /\ a \in Running
      /\ ~a.failed => a.fb[o] = f
  <2> HIDE DEF b
  <2>1. b \in Running
    BY <1>1 DEF Apart, Steps
  <2>2. Tuned(b, a, o) /\ a.on = b.on /\ a.out = b.out /\ (~a.failed => a.fb[o] = f)
    BY <2>1, FbAssignIs
  <2> HIDE DEF a
  <2> QED  BY <2>2 DEF Tuned, Apart, Steps
<1>3. Apart(s, a, o) /\ a.on = s.on /\ a.out = s.out /\ a.usage = [s.usage EXCEPT ![o] = use]
  <2> HIDE DEF a, b
  <2> QED  BY <1>1, <1>2, ApartAgain DEF Tuned
<1>4. Apart(a, p, o) /\ p.on = a.on /\ p.out = a.out /\ p.usage = [a.usage EXCEPT ![o] = "NONE"]
  <2> HIDE DEF a
  <2> QED  BY <1>2, PoolPutIs
<1>5. Apart(p, e, o) /\ e.on = p.on /\ e.out = p.out /\ e.usage = p.usage /\ e.failed
  <2> HIDE DEF p
  <2>1. p \in Running
    BY <1>4 DEF Apart, Steps
  <2>2. Steps(p, e) /\ p \in Device
    BY <2>1, SetFailed DEF Running
  <2> QED  BY <2>2 DEF Apart, Device
<1>6. Apart(s, e, o) /\ e.on = s.on /\ e.out = s.out /\ e.usage = s.usage /\ e.failed
  <2>1. s.usage = [[s.usage EXCEPT ![o] = use] EXCEPT ![o] = "NONE"]
    BY <1>0 DEF Device
  <2> HIDE DEF a, p, e
  <2> QED  BY <1>3, <1>4, <1>5, <2>1, ApartAgain
<1>7. t = IF a.failed THEN e ELSE a
  <2>1. o # NoOverlay
    BY OverlaysAssumption DEF Overlay
  <2> QED  BY <2>1 DEF PoolGet
<1> HIDE DEF a, e, t
<1>8. /\ Apart(s, t, o) /\ t.on = s.on /\ t.out = s.out
      /\ t.failed => t.usage = s.usage
      /\ ~t.failed => t.fb[o] = f /\ t.usage = [s.usage EXCEPT ![o] = use]
  BY <1>2, <1>3, <1>6, <1>7
<1> QED  BY <1>8 DEF t

(* A CRTC takes a free overlay. *)
LEMMA TakenByCrtc ==
  ASSUME NEW s \in Running, NEW t, NEW c \in Crtc, NEW o \in Overlay, Shared(s), Steps(s, t),
         s.usage[o] = "NONE", s.crtcOvl[c] = NoOverlay,
         t.usage = [s.usage EXCEPT ![o] = c], t.crtcOvl = [s.crtcOvl EXCEPT ![c] = o],
         t.key = s.key, t.mem = s.mem, t.size = s.size, t.buffered = s.buffered,
         t.mapped = s.mapped, t.port = s.port, t.rotation = s.rotation,
         t.on = s.on, t.out = s.out,
         \A p \in Overlay : p # o => t.fb[p] = s.fb[p]
  PROVE  Shared(t) /\ Framed(s, t)
<1>0. s \in Device
  BY DEF Running
<1>1. \A v \in Ports : Ovl(s, v) # NoOverlay => Ovl(s, v) \in Overlay /\ Ovl(s, v) # o
  BY PortFields DEF Shared, PoolOf, OrNone, Xv
<1>2. \A v \in Ports : Ovl(t, v) = Ovl(s, v) /\ (Active(t, v) <=> Active(s, v))
  BY DEF Ovl, Active
<1>3. PoolOf(t)
  <2>1. \A p \in Overlay, d \in Crtc : t.usage[p] = d <=> t.crtcOvl[d] = p
    <3>1. \A d \in Crtc : s.crtcOvl[d] # o
      BY DEF Shared, PoolOf, Crtc
    <3>2. \A p \in Overlay : s.usage[p] # c
      BY OverlaysAssumption DEF Shared, PoolOf, Overlay
    <3> QED  BY <1>0, <3>1, <3>2 DEF Shared, PoolOf, Device
  <2>2. \A p \in Overlay : t.usage[p] \in Xv <=> \E v \in Ports : Ovl(t, v) = p
    <3>1. c \notin Xv
      BY DEF Crtc, Xv
    <3> QED  BY <1>0, <1>1, <1>2, <3>1, OverlaysAssumption DEF Shared, PoolOf, Device, Overlay
  <2> QED  BY <1>2, <2>1, <2>2 DEF Shared, PoolOf
<1>4. \A p \in t.on : t.usage[p] # "NONE"
  <2>1. c # "NONE"
    BY DEF Crtc
  <2> QED  BY <1>0, <2>1 DEF Shared, Device
<1>5. Shared(t)
  BY <1>1, <1>2, <1>3, <1>4 DEF Shared
<1>6. \A v \in Ports : Kept(s, t, v)
  BY <1>1, <1>2 DEF Kept
<1> QED  BY <1>5, <1>6 DEF Framed

(* A CRTC that gets an overlay is a quiet step. *)
LEMMA GetCrtcOverlayIs ==
  ASSUME NEW s \in Running, NEW c \in Crtc
  PROVE  LET t == GetCrtcOverlay(s, c) IN
         /\ Quiet(s, t)
         /\ t.failed \/ t.crtcOvl[c] # NoOverlay
         /\ s.failed => t = s
<1> DEFINE o == PoolChoice(s, c)
           got == PoolGet(s, o, c, 0)
           e == [got EXCEPT !.crtcOvl[c] = o]
           t == GetCrtcOverlay(s, c)
<1>0. s \in Device
  BY DEF Running
<1>1. CASE s.failed \/ s.crtcOvl[c] # NoOverlay
  BY <1>1, QuietNot DEF GetCrtcOverlay
<1>2. CASE ~s.failed /\ s.crtcOvl[c] = NoOverlay /\ o = NoOverlay
  <2>1. t = [s EXCEPT !.failed = TRUE]
    <3>1. got = [s EXCEPT !.failed = TRUE]
      BY <1>2 DEF PoolGet
    <3>2. got.failed
      BY <1>0, <3>1 DEF Device
    <3>3. t = IF got.failed THEN got ELSE e
      BY <1>2 DEF GetCrtcOverlay
    <3> HIDE DEF got, e, t, o
    <3> QED  BY <3>1, <3>2, <3>3
  <2>2. Steps(s, t)
    BY <2>1, SetFailed
  <2> HIDE DEF t
  <2>3. CrtcSteps(s, t)
    BY <1>0, <2>1, <2>2, CrtcStepsFlags DEF Device
  <2>4. Quiet(s, t) /\ t.failed
    BY <1>0, <2>1, <2>3 DEF Quiet, Device
  <2> QED  BY <1>2, <2>4 DEF t
<1>3. CASE ~s.failed /\ s.crtcOvl[c] = NoOverlay /\ o # NoOverlay
  <2>1. o \in Overlay /\ s.usage[o] = "NONE"
    BY <1>3, PoolChoiceFree
  <2>2. /\ Apart(s, got, o) /\ got.on = s.on /\ got.out = s.out
        /\ got.failed => got.usage = s.usage
        /\ ~got.failed => got.fb[o] = 0 /\ got.usage = [s.usage EXCEPT ![o] = c]
    BY <2>1, PoolGetIs DEF Fb
  <2>3. t = IF got.failed THEN got ELSE e
    BY <1>3 DEF GetCrtcOverlay
  <2>4. Steps(s, t)
    BY GetCrtcOverlayType
  <2> HIDE DEF got, o, t
  <2>5. CASE got.failed
    <3>1. CrtcSteps(s, got)
      BY <2>1, <2>2, <2>5, TunedFree DEF Tuned
    <3> QED  BY <1>3, <2>2, <2>3, <2>5, <3>1 DEF Quiet, Apart, t
  <2>6. CASE ~got.failed
    <3>1. got \in Device
      BY <2>2 DEF Apart, Steps, Running
    <3>2. /\ t.usage = [s.usage EXCEPT ![o] = c] /\ t.crtcOvl = [s.crtcOvl EXCEPT ![c] = o]
          /\ t.key = s.key /\ t.mem = s.mem /\ t.size = s.size /\ t.buffered = s.buffered
          /\ t.mapped = s.mapped /\ t.port = s.port /\ t.rotation = s.rotation
          /\ t.on = s.on /\ t.out = s.out /\ t.server = s.server /\ t.enabled = s.enabled
          /\ \A p \in Overlay : p # o => t.fb[p] = s.fb[p]
      BY <2>2, <2>3, <2>6, <3>1 DEF Apart, Device
    <3>3. Shared(s) => Shared(t) /\ Framed(s, t)
      BY <1>3, <2>1, <2>4, <3>2, TakenByCrtc
    <3>4. Quiet(s, t)
      BY <2>4, <3>2, <3>3 DEF Quiet, CrtcSteps, Doomed
    <3>5. t.crtcOvl[c] # NoOverlay
      BY <1>0, <2>1, <3>2, OverlaysAssumption DEF Device, Overlay
    <3> QED  BY <1>3, <3>4, <3>5 DEF t
  <2> QED  BY <2>5, <2>6
<1> QED  BY <1>1, <1>2, <1>3

(* And gives back one that is off. *)
LEMMA PutByCrtc ==
  ASSUME NEW s \in Running, NEW t, NEW c \in Crtc, Shared(s), Steps(s, t),
         s.crtcOvl[c] # NoOverlay, s.crtcOvl[c] \notin s.on,
         t.usage = [s.usage EXCEPT ![s.crtcOvl[c]] = "NONE"],
         t.crtcOvl = [s.crtcOvl EXCEPT ![c] = NoOverlay],
         t.key = s.key, t.mem = s.mem, t.size = s.size, t.buffered = s.buffered,
         t.mapped = s.mapped, t.port = s.port, t.rotation = s.rotation,
         t.on = s.on, t.out = s.out,
         \A p \in Overlay : p # s.crtcOvl[c] => t.fb[p] = s.fb[p]
  PROVE  Shared(t) /\ Framed(s, t)
<1> DEFINE o == s.crtcOvl[c]
<1>0. s \in Device
  BY DEF Running
<1>a. o \in Overlay /\ s.usage[o] = c
  BY CrtcFields DEF Shared, PoolOf, OrNone
<1>1. \A v \in Ports : Ovl(s, v) # NoOverlay => Ovl(s, v) \in Overlay /\ Ovl(s, v) # o
  BY <1>a, PortFields DEF Shared, PoolOf, OrNone, Xv, Crtc
<1>2. \A v \in Ports : Ovl(t, v) = Ovl(s, v) /\ (Active(t, v) <=> Active(s, v))
  BY DEF Ovl, Active
<1>3. PoolOf(t)
  <2>1. \A p \in Overlay, d \in Crtc : t.usage[p] = d <=> t.crtcOvl[d] = p
    <3>1. \A d \in Crtc : d # c => s.crtcOvl[d] # o
      BY <1>a DEF Shared, PoolOf
    <3>2. \A p \in Overlay : s.usage[p] = c => p = o
      BY DEF Shared, PoolOf
    <3>3. "NONE" \notin Crtc /\ NoOverlay \notin Overlay
      BY OverlaysAssumption DEF Crtc, Overlay
    <3> QED  BY <1>0, <1>a, <3>1, <3>2, <3>3 DEF Shared, PoolOf, Device
  <2>2. \A p \in Overlay : t.usage[p] \in Xv <=> \E v \in Ports : Ovl(t, v) = p
    <3>1. c \notin Xv /\ "NONE" \notin Xv
      BY DEF Crtc, Xv
    <3> QED  BY <1>0, <1>a, <1>1, <1>2, <3>1, OverlaysAssumption
             DEF Shared, PoolOf, Device, Overlay
  <2> QED  BY <1>2, <2>1, <2>2 DEF Shared, PoolOf
<1>4. \A p \in t.on : t.usage[p] # "NONE"
  BY <1>0 DEF Shared, Device
<1>5. Shared(t)
  BY <1>1, <1>2, <1>3, <1>4 DEF Shared
<1>6. \A v \in Ports : Kept(s, t, v)
  BY <1>1, <1>2 DEF Kept
<1> QED  BY <1>5, <1>6 DEF Framed

(* So is one that gives it back, when it is off. *)
LEMMA PutCrtcOverlayIs ==
  ASSUME NEW s \in Running, NEW c \in Crtc, s.server = "up" => s.crtcOvl[c] \notin s.on
  PROVE  Quiet(s, PutCrtcOverlay(s, c))
<1> DEFINE o == s.crtcOvl[c]
           p == PoolPut(s, o)
           t == [p EXCEPT !.crtcOvl[c] = NoOverlay]
<1>1. CASE o = NoOverlay
  BY <1>1, QuietNot DEF PutCrtcOverlay
<1>2. CASE o # NoOverlay
  <2>1. o \in Overlay
    BY <1>2, CrtcFields DEF OrNone
  <2>2. /\ Apart(s, p, o) /\ p.on = s.on /\ p.out = s.out
        /\ p.usage = [s.usage EXCEPT ![o] = "NONE"]
    BY <2>1, PoolPutIs
  <2>3. p \in Device
    <3> HIDE DEF p
    <3> QED  BY <2>2 DEF Apart, Steps, Running
  <2>4. PutCrtcOverlay(s, c) = t
    BY <1>2 DEF PutCrtcOverlay
  <2>5. Steps(s, t)
    BY <2>4, PutCrtcOverlayType
  <2>6. /\ t.usage = [s.usage EXCEPT ![o] = "NONE"]
        /\ t.crtcOvl = [s.crtcOvl EXCEPT ![c] = NoOverlay]
        /\ t.key = s.key /\ t.mem = s.mem /\ t.size = s.size /\ t.buffered = s.buffered
        /\ t.mapped = s.mapped /\ t.port = s.port /\ t.rotation = s.rotation
        /\ t.on = s.on /\ t.out = s.out /\ t.server = s.server /\ t.enabled = s.enabled
        /\ \A q \in Overlay : q # o => t.fb[q] = s.fb[q]
    <3> HIDE DEF p, o
    <3> QED  BY <2>2, <2>3 DEF Apart, Device
  <2> HIDE DEF p, t
  <2>7. Shared(s) /\ s.server = "up" => Shared(t) /\ Framed(s, t)
    BY <1>2, <2>5, <2>6, PutByCrtc
  <2>8. Quiet(s, t)
    BY <2>5, <2>6, <2>7 DEF Quiet, CrtcSteps, Doomed
  <2> QED  BY <2>4, <2>8
<1> QED  BY <1>1, <1>2

(* So is giving the overlay of a CRTC another framebuffer. *)
LEMMA SwitchFbIs ==
  ASSUME NEW s \in Running, NEW c \in Crtc, NEW f \in Fb, s.crtcOvl[c] # NoOverlay
  PROVE  LET t == SwitchFb(s, c, f) IN
         /\ Tuned(s, t, s.crtcOvl[c])
         /\ s.failed => t = s
         /\ ~t.failed => t.fb[s.crtcOvl[c]] = f
<1> DEFINE o == s.crtcOvl[c]
           a == OverlayDisable(s, o)
           b == FbAssignOverlay(a, f, o)
           t == SwitchFb(s, c, f)
<1>0. o \in Overlay
  BY CrtcFields DEF OrNone
<1>1. Tuned(s, a, o)
  BY <1>0, DisableIs
<1>2. a \in Running
  <2> HIDE DEF a
  <2> QED  BY <1>1 DEF Tuned, Apart, Steps
<1>3. Tuned(a, b, o) /\ (~b.failed => b.fb[o] = f)
  <2> HIDE DEF a, o
  <2> QED  BY <1>0, <1>2, FbAssignIs
<1>4. t = IF s.failed \/ s.fb[o] = f THEN s ELSE b
  BY DEF SwitchFb
<1>5. Tuned(s, b, o)
  <2> HIDE DEF a, b
  <2> QED  BY <1>1, <1>3, TunedAgain
<1> HIDE DEF b, t
<1>6. /\ Tuned(s, t, o)
      /\ s.failed => t = s
      /\ ~t.failed => t.fb[o] = f
  BY <1>3, <1>4, <1>5, TunedNot
<1> QED  BY <1>6 DEF t

(* Whether that is the screen or the video that is cloned. *)
LEMMA ChooseSourceIs ==
  ASSUME NEW s \in Running, NEW c \in Crtc, s.crtcOvl[c] # NoOverlay
  PROVE  LET t == ChooseSource(s, c) IN
         /\ Tuned(s, t, s.crtcOvl[c])
         /\ s.failed => t = s
         /\ ~t.failed => t.fb[s.crtcOvl[c]] # NoFb
<1> DEFINE o == s.crtcOvl[c]
           cloned == SwitchFb(s, c, VideoFb(CloneInfo(s)))
           a == Ignoring(cloned)
           b == SwitchFb(a, c, 0)
           d == SwitchFb(s, c, 0)
           t == ChooseSource(s, c)
<1>0. \A f \in Fb : f # NoFb
  BY OverlaysAssumption DEF Fb
<1>1. Tuned(s, d, o) /\ (~d.failed => d.fb[o] # NoFb)
  BY <1>0, SwitchFbIs DEF Fb
<1>2. CASE CloneActive(s, c) /\ ~s.failed
  <2>1. Tuned(s, cloned, o) /\ (~cloned.failed => cloned.fb[o] # NoFb)
    BY <1>0, <1>2, CloneFb, SwitchFbIs
  <2>2. cloned \in Running
    <3> HIDE DEF cloned
    <3> QED  BY <2>1 DEF Tuned, Apart, Steps
  <2>3. Tuned(cloned, a, o)
    <3> HIDE DEF cloned
    <3> QED  BY <2>2, IgnoringTuned
  <2>4. a \in Running /\ a.crtcOvl = s.crtcOvl
    <3> HIDE DEF a, cloned
    <3> QED  BY <2>1, <2>3 DEF Tuned, Apart, Steps
  <2>5. Tuned(a, b, o) /\ (~b.failed => b.fb[o] # NoFb)
    <3> HIDE DEF a
    <3> QED  BY <1>0, <2>4, SwitchFbIs DEF Fb
  <2>6. Tuned(s, b, o)
    <3> HIDE DEF cloned, a, b
    <3> QED  BY <2>1, <2>3, <2>5, TunedAgain
  <2>7. t = IF ~(c \in Clones /\ CloneActive(s, c)) THEN d
             ELSE IF cloned.failed THEN b ELSE cloned
    BY <1>2 DEF ChooseSource
  <2> HIDE DEF t, d, b, cloned
  <2>8. Tuned(s, t, o) /\ (~t.failed => t.fb[o] # NoFb)
    BY <1>1, <2>1, <2>5, <2>6, <2>7
  <2> QED  BY <1>2, <2>8 DEF t
<1>3. CASE ~CloneActive(s, c) /\ ~s.failed
  BY <1>1, <1>3 DEF ChooseSource
<1>4. CASE s.failed
  BY <1>4, TunedNot DEF ChooseSource
<1> QED  BY <1>2, <1>3, <1>4

(* So is all that leads up to the light of a mode. *)
LEMMA LightUpIs ==
  ASSUME NEW s \in Running, NEW c \in Crtc, s.crtcOvl[c] # NoOverlay
  PROVE  Tuned(s, LightUp(s, c, s.crtcOvl[c]), s.crtcOvl[c])
<1> DEFINE o == s.crtcOvl[c]
           a == ChooseSource(s, c)
           b == OutputAssignOverlay(a, c, o)
           d == OverlaySetup(b, o)
           e == OverlayEnable(d, o)
<1>0. o \in Overlay
  BY CrtcFields DEF OrNone
<1>1. Tuned(s, a, o) /\ (~a.failed => a.fb[o] # NoFb)
  BY ChooseSourceIs
<1> HIDE DEF o
<1>2. a \in Running
  <2> HIDE DEF a
  <2> QED  BY <1>1 DEF Tuned, Apart, Steps
<1>3. Tuned(a, b, o) /\ b.fb = a.fb /\ (a.failed => b = a)
  <2> HIDE DEF a
  <2> QED  BY <1>0, <1>2, OutputIs
<1>4. b \in Running /\ (b.failed \/ b.fb[o] # NoFb)
  <2> HIDE DEF a, b
  <2> QED  BY <1>1, <1>3 DEF Tuned, Apart, Steps
<1>5. Tuned(b, d, o)
  <2> HIDE DEF a, b
  <2> QED  BY <1>0, <1>4, SetupIs
<1>6. d \in Running
  <2> HIDE DEF d
  <2> QED  BY <1>5 DEF Tuned, Apart, Steps
<1>7. Tuned(d, e, o)
  <2> HIDE DEF d
  <2> QED  BY <1>0, <1>6, EnableIs
<1>8. LightUp(s, c, o) = e
  BY DEF LightUp
<1> HIDE DEF a, b, d, e
<1>9. Tuned(s, LightUp(s, c, o), o)
  BY <1>1, <1>3, <1>5, <1>7, <1>8, TunedAgain
<1> QED  BY <1>9 DEF o

(* And giving it up. *)
LEMMA GiveUpModeIs ==
  ASSUME NEW s \in Running, NEW c \in Crtc, s.crtcOvl[c] # NoOverlay
  PROVE  Quiet(s, GiveUpMode(s, c)) /\ GiveUpMode(s, c).failed
<1> DEFINE o == s.crtcOvl[c]
           a == Ignoring(s)
           b == OverlayDisable(a, o)
           d == PutCrtcOverlay(b, c)
           g == [d EXCEPT !.dpms[c] = FALSE]
           e == [g EXCEPT !.failed = TRUE]
<1>0. o \in Overlay
  BY CrtcFields DEF OrNone
<1>1. Tuned(s, a, o) /\ (s.server = "up" => ~a.failed)
  BY IgnoringTuned
<1>2. a \in Running /\ a.crtcOvl = s.crtcOvl /\ a.server = s.server
  <2> HIDE DEF a
  <2> QED  BY <1>1 DEF Tuned, Apart, Steps
<1>3. Tuned(a, b, o) /\ (~a.failed => o \notin b.on)
  <2> HIDE DEF a, o
  <2> QED  BY <1>0, <1>2, DisableIs
<1>4. b \in Running /\ b.crtcOvl = s.crtcOvl /\ b.server = s.server
  <2> HIDE DEF b, a
  <2> QED  BY <1>2, <1>3 DEF Tuned, Apart, Steps
<1>5. Quiet(b, d)
  <2> HIDE DEF a, b
  <2> QED  BY <1>1, <1>3, <1>4, PutCrtcOverlayIs
<1>6. d \in Running
  <2> HIDE DEF d
  <2> QED  BY <1>5 DEF Quiet, CrtcSteps, Steps
<1>7. Quiet(d, g) /\ g \in Running
  <2> HIDE DEF d
  <2> QED  BY <1>6, QuietDpms, SetDpmsFlag DEF Steps
<1>8. Quiet(g, e) /\ e.failed
  <2> HIDE DEF g
  <2>1. Steps(g, e) /\ g \in Device
    BY <1>7, SetFailed DEF Running
  <2>2. CrtcSteps(g, e)
    BY <1>7, <2>1, CrtcStepsFlags DEF Device
  <2> QED  BY <2>1, <2>2 DEF Quiet, Device
<1>9. Quiet(s, b)
  <2>1. Tuned(s, b, o)
    <3> HIDE DEF a, b
    <3> QED  BY <1>1, <1>3, TunedAgain
  <2> HIDE DEF b
  <2> QED  BY <2>1, TunedQuiet
<1>10. GiveUpMode(s, c) = e
  <2>1. GiveUpMode(s, c) = [d EXCEPT !.dpms[c] = FALSE, !.failed = TRUE]
    BY DEF GiveUpMode
  <2> HIDE DEF d
  <2> QED  BY <1>6, <2>1 DEF Running, Device
<1> HIDE DEF b, d, g, e
<1> QED  BY <1>5, <1>7, <1>8, <1>9, <1>10, QuietAgain

(* The ports on the CRTC are turned as the CRTC is now. *)
LEMMA UpdatedPortIs ==
  ASSUME NEW s \in Running, NEW v \in Ports, NEW c \in Crtc
  PROVE  LET p == s.port[v]
             q == UpdatedPort(s, v, c)
         IN /\ q.state = p.state /\ q.kind = p.kind /\ q.ovl = p.ovl /\ q.crtc = p.crtc
            /\ q.clone = p.clone /\ q.allocated = p.allocated /\ q.reserved = p.reserved
            /\ q.noKey = p.noKey /\ q.timer = p.timer /\ q.rotation = p.rotation
            /\ p.dirty => q.dirty
            /\ IF p.crtc = c
               THEN q.turn = update_rotation(p.rotation, CrtcTurn(s, c))
               ELSE q = p
<1> DEFINE x == update_rotation(s.port[v].rotation, CrtcTurn(s, s.port[v].crtc))
           y == TurnedPort(s, v)
           q == UpdatedPort(s, v, c)
<1>1. s.port[v] \in Port
  BY PortOf
<1>2. CASE s.port[v].crtc = c
  <2>1. y = [s.port[v] EXCEPT !.turn = x, !.dirty = TRUE]
    BY DEF TurnedPort
  <2>2. q = [y EXCEPT !.updateClone = TRUE]
    BY <1>2 DEF UpdatedPort
  <2>3. x = update_rotation(s.port[v].rotation, CrtcTurn(s, c))
    BY <1>2
  <2> HIDE DEF x, y, q
  <2>4. q = [s.port[v] EXCEPT !.turn = x, !.dirty = TRUE, !.updateClone = TRUE]
    BY <2>1, <2>2
  <2>5. /\ q.state = s.port[v].state /\ q.kind = s.port[v].kind /\ q.ovl = s.port[v].ovl
        /\ q.crtc = s.port[v].crtc
        /\ q.clone = s.port[v].clone /\ q.allocated = s.port[v].allocated
        /\ q.reserved = s.port[v].reserved
        /\ q.noKey = s.port[v].noKey /\ q.timer = s.port[v].timer
        /\ q.rotation = s.port[v].rotation /\ q.dirty /\ q.turn = x
    BY <1>1, <2>4 DEF Port
  <2> QED  BY <1>2, <2>3, <2>5 DEF q
<1>3. CASE s.port[v].crtc # c
  BY <1>3 DEF UpdatedPort
<1> QED  BY <1>2, <1>3

(* All of them, and nothing else changes. *)
LEMMA UpdateCrtcSteps ==
  ASSUME NEW s \in Running, NEW c \in Crtc
  PROVE  LET t == UpdateCrtc(s, c) IN
         /\ CrtcSteps(s, t)
         /\ t.server = s.server /\ t.rotation = s.rotation /\ t.enabled = s.enabled
         /\ t.failed = s.failed
         /\ \A v \in Ports : t.port[v] = UpdatedPort(s, v, c)
<1> DEFINE t == UpdateCrtc(s, c)
<1>0. s \in Device
  BY DEF Running
<1>1. t = [s EXCEPT !.port = [v \in Ports |-> UpdatedPort(s, v, c)]] /\ Steps(s, t)
  BY UpdateCrtcIs
<1> HIDE DEF t
<1>2. \A v \in Ports : t.port[v] = UpdatedPort(s, v, c)
  BY <1>0, <1>1 DEF Device
<1>3. /\ t.server = s.server /\ t.usage = s.usage /\ t.fb = s.fb /\ t.out = s.out
      /\ t.on = s.on /\ t.mem = s.mem /\ t.size = s.size /\ t.crtcOvl = s.crtcOvl
      /\ t.buffered = s.buffered /\ t.mapped = s.mapped /\ t.key = s.key
      /\ t.rotation = s.rotation /\ t.enabled = s.enabled /\ t.failed = s.failed
  BY <1>0, <1>1 DEF Device
<1>4. \A v \in Ports : Ovl(t, v) = Ovl(s, v) /\ (Active(t, v) <=> Active(s, v))
  BY <1>2, UpdatedPortIs DEF Ovl, Active
<1>5. Shared(s) => Shared(t)
  BY <1>3, <1>4, SameShared
<1>6. \A v \in Ports : Kept(s, t, v)
  <2> TAKE v \in Ports
  <2>1. c # NoCrtc
    BY OverlaysAssumption DEF Crtc
  <2> QED  BY <1>2, <1>3, <1>4, <2>1, UpdatedPortIs DEF Kept
<1>7. CrtcSteps(s, t)
  BY <1>1, <1>3, <1>5, <1>6 DEF CrtcSteps, Framed, Doomed
<1> QED  BY <1>2, <1>3, <1>7 DEF t

(* What setting the mode of a CRTC does to the rest. *)
ModeSet(s, t, c) ==
  /\ CrtcSteps(s, t)
  /\ s.server = "up" /\ Shared(s) =>
       /\ t.server = "up" /\ t.rotation = s.rotation /\ t.enabled = s.enabled
       /\ t.failed => t.port = s.port
       /\ ~t.failed => \A v \in Ports : t.port[v] = UpdatedPort(s, v, c)

(* Quiet steps lead up to it. *)
LEMMA QuietModeSet ==
  ASSUME NEW s \in Running, NEW t, NEW u, NEW c \in Crtc, Quiet(s, t), ModeSet(t, u, c)
  PROVE  ModeSet(s, u, c)
<1>1. CrtcSteps(s, u)
  BY CrtcStepsAgain DEF Quiet, ModeSet
<1>2. ASSUME s.server = "up", Shared(s)
      PROVE  /\ u.server = "up" /\ u.rotation = s.rotation /\ u.enabled = s.enabled
             /\ u.failed => u.port = s.port
             /\ ~u.failed => \A v \in Ports : u.port[v] = UpdatedPort(s, v, c)
  <2>1. t.server = "up" /\ Shared(t) /\ t.port = s.port /\ t.rotation = s.rotation
        /\ t.enabled = s.enabled
    BY <1>2 DEF Quiet, CrtcSteps
  <2>2. \A v \in Ports : UpdatedPort(t, v, c) = UpdatedPort(s, v, c)
    BY <2>1 DEF UpdatedPort, TurnedPort, CrtcTurn
  <2> QED  BY <2>1, <2>2 DEF ModeSet
<1> QED  BY <1>1, <1>2 DEF ModeSet

(* A mode that has ended, well or not. *)
LEMMA EndModeIs ==
  ASSUME NEW s \in Running, NEW c \in Crtc, s.crtcOvl[c] # NoOverlay
  PROVE  ModeSet(s, EndMode(s, c), c)
<1>1. CASE s.failed
  <2> DEFINE t == GiveUpMode(s, c)
  <2>1. Quiet(s, t) /\ t.failed
    BY GiveUpModeIs
  <2>2. EndMode(s, c) = t
    BY <1>1 DEF EndMode
  <2> HIDE DEF t
  <2> QED  BY <2>1, <2>2 DEF Quiet, ModeSet
<1>2. CASE ~s.failed
  <2> DEFINE t == UpdateCrtc(s, c)
  <2>1. /\ CrtcSteps(s, t)
        /\ t.server = s.server /\ t.rotation = s.rotation /\ t.enabled = s.enabled
        /\ t.failed = s.failed
        /\ \A v \in Ports : t.port[v] = UpdatedPort(s, v, c)
    BY UpdateCrtcSteps
  <2>2. EndMode(s, c) = t
    BY <1>2 DEF EndMode
  <2> HIDE DEF t
  <2> QED  BY <1>2, <2>1, <2>2 DEF ModeSet
<1> QED  BY <1>1, <1>2

(* With the overlay taken. *)
LEMMA SetModeOnIs ==
  ASSUME NEW s \in Running, NEW c \in Crtc, s.failed \/ s.crtcOvl[c] # NoOverlay
  PROVE  ModeSet(s, SetModeOn(s, c), c)
<1>1. CASE s.failed
  <2> DEFINE t == [s EXCEPT !.dpms[c] = FALSE]
  <2>1. Quiet(s, t) /\ t.failed
    BY <1>1, QuietDpms DEF Running, Device
  <2>2. SetModeOn(s, c) = t
    BY <1>1 DEF SetModeOn
  <2> HIDE DEF t
  <2> QED  BY <2>1, <2>2 DEF Quiet, ModeSet
<1>2. CASE ~s.failed
  <2> DEFINE a == LightUp(s, c, s.crtcOvl[c])
             t == EndMode(a, c)
  <2>1. Tuned(s, a, s.crtcOvl[c])
    BY <1>2, LightUpIs
  <2>2. SetModeOn(s, c) = t
    BY <1>2 DEF SetModeOn
  <2> HIDE DEF a
  <2>3. Quiet(s, a)
    BY <1>2, <2>1, TunedQuiet
  <2>4. a \in Running /\ a.crtcOvl = s.crtcOvl
    BY <2>1 DEF Tuned, Apart, Steps
  <2>5. ModeSet(a, t, c)
    BY <1>2, <2>4, EndModeIs
  <2> HIDE DEF t
  <2> QED  BY <2>2, <2>3, <2>5, QuietModeSet
<1> QED  BY <1>1, <1>2

(* All of crtc_set_mode_major, for any CRTC. *)
LEMMA SetModeMajorIs ==
  ASSUME NEW s \in Running, NEW c \in Crtc
  PROVE  /\ CrtcSteps(s, SetModeMajor(s, c))
         /\ s.enabled[c] => ModeSet(s, SetModeMajor(s, c), c)
<1>1. CASE ~s.enabled[c]
  BY <1>1, CrtcStepsNot DEF SetModeMajor
<1>2. CASE s.enabled[c]
  <2> DEFINE a == [s EXCEPT !.dpms[c] = TRUE]
             b == GetCrtcOverlay(a, c)
             t == SetModeOn(b, c)
  <2>1. Quiet(s, a) /\ a \in Running
    BY QuietDpms, SetDpmsFlag DEF Steps
  <2>2. Quiet(a, b) /\ (b.failed \/ b.crtcOvl[c] # NoOverlay)
    <3> HIDE DEF a
    <3> QED  BY <2>1, GetCrtcOverlayIs
  <2>3. b \in Running
    <3> HIDE DEF b
    <3> QED  BY <2>2 DEF Quiet, CrtcSteps, Steps
  <2>4. ModeSet(b, t, c)
    <3> HIDE DEF b
    <3> QED  BY <2>2, <2>3, SetModeOnIs
  <2>5. SetModeMajor(s, c) = t
    BY <1>2 DEF SetModeMajor
  <2> HIDE DEF a, b, t
  <2>6. ModeSet(s, t, c)
    BY <2>1, <2>2, <2>4, QuietModeSet
  <2> QED  BY <2>5, <2>6 DEF ModeSet
<1> QED  BY <1>1, <1>2

(* A change of a port that its picture does not depend on. *)
LEMMA PortFlags ==
  ASSUME NEW s \in Running, NEW v \in Ports, NEW q \in Port,
         q.state = s.port[v].state, q.kind = s.port[v].kind, q.ovl = s.port[v].ovl,
         q.crtc = s.port[v].crtc, q.allocated = s.port[v].allocated,
         q.reserved = s.port[v].reserved, q.noKey = s.port[v].noKey,
         q.timer = s.port[v].timer, q.rotation = s.port[v].rotation,
         q.turn = s.port[v].turn, s.port[v].dirty => q.dirty
  PROVE  CrtcSteps(s, [s EXCEPT !.port[v] = q])
<1> DEFINE t == [s EXCEPT !.port[v] = q]
<1>0. s \in Device
  BY DEF Running
<1>1. Steps(s, t)
  BY SetPort
<1>2. /\ t.server = s.server /\ t.usage = s.usage /\ t.fb = s.fb /\ t.out = s.out
      /\ t.on = s.on /\ t.mem = s.mem /\ t.size = s.size /\ t.crtcOvl = s.crtcOvl
      /\ t.buffered = s.buffered /\ t.mapped = s.mapped /\ t.key = s.key
      /\ t.rotation = s.rotation
      /\ t.port[v] = q /\ \A w \in Ports : w # v => t.port[w] = s.port[w]
  BY <1>0 DEF Device
<1> HIDE DEF t
<1>3. \A w \in Ports : Ovl(t, w) = Ovl(s, w) /\ (Active(t, w) <=> Active(s, w))
  BY <1>2 DEF Ovl, Active
<1>4. Shared(s) => Shared(t)
  BY <1>2, <1>3, SameShared
<1>5. \A w \in Ports : Kept(s, t, w)
  BY <1>2, <1>3 DEF Kept
<1>6. CrtcSteps(s, t)
  BY <1>1, <1>2, <1>4, <1>5 DEF CrtcSteps, Framed, Doomed
<1> QED  BY <1>6 DEF t

(* The clone of a port ends. *)
LEMMA CloneStopIs ==
  ASSUME NEW s \in Running, NEW v \in Ports
  PROVE  CrtcSteps(s, CloneStop(s, v))
<1> DEFINE c == s.port[v].cloneCrtc
           q == [s.port[v] EXCEPT !.cloneCrtc = NoCrtc]
           r == [s EXCEPT !.port[v] = q]
           b == SetModeMajor(r, c)
<1>0. s.port[v] \in Port
  BY PortOf
<1>1. q \in Port
  BY <1>0 DEF Port
<1>2. CrtcSteps(s, r)
  <2>1. /\ q.state = s.port[v].state /\ q.kind = s.port[v].kind /\ q.ovl = s.port[v].ovl
        /\ q.crtc = s.port[v].crtc /\ q.allocated = s.port[v].allocated
        /\ q.reserved = s.port[v].reserved /\ q.noKey = s.port[v].noKey
        /\ q.timer = s.port[v].timer /\ q.rotation = s.port[v].rotation
        /\ q.turn = s.port[v].turn /\ q.dirty = s.port[v].dirty
    BY <1>0 DEF Port
  <2> HIDE DEF q
  <2> QED  BY <1>1, <2>1, PortFlags
<1>3. CASE c # NoCrtc
  <2>1. c \in Crtc
    BY <1>3, PortFields
  <2>2. CrtcSteps(r, b)
    <3> HIDE DEF r, c
    <3> QED  BY <1>2, <2>1, SetModeMajorIs DEF CrtcSteps, Steps
  <2>3. CrtcSteps(b, Ignoring(b))
    <3> HIDE DEF b
    <3> QED  BY <2>2, CrtcStepsIgnoring DEF CrtcSteps, Steps
  <2>4. CloneStop(s, v) \in {r, Ignoring(b)}
    BY DEF CloneStop
  <2> HIDE DEF r, b
  <2> QED  BY <1>2, <2>2, <2>3, <2>4, CrtcStepsAgain
<1>4. CASE c = NoCrtc
  BY <1>2, <1>4 DEF CloneStop
<1> QED  BY <1>3, <1>4

(* The clone of a port is brought up to date. *)
LEMMA CloneUpdateIs ==
  ASSUME NEW s \in Running
  PROVE  CrtcSteps(s, CloneUpdate(s))
<1> DEFINE v == CloneInfo(s)
           c == s.port[v].cloneCrtc
           a == Ignoring(s)
           b == SetModeMajor(a, c)
           d == Ignoring(b)
           q == [d.port[v] EXCEPT !.updateClone = FALSE]
<1>1. CrtcSteps(s, a)
  BY CrtcStepsIgnoring
<1>2. CASE v # NoPort /\ c # NoCrtc
  <2>0. v \in Ports /\ c \in Crtc
    BY <1>2, CloneInfoIs, PortFields
  <2> HIDE DEF v, c
  <2>1. CrtcSteps(a, b)
    <3> HIDE DEF a
    <3> QED  BY <1>1, <2>0, SetModeMajorIs DEF CrtcSteps, Steps
  <2>2. CrtcSteps(b, d)
    <3> HIDE DEF b
    <3> QED  BY <2>1, CrtcStepsIgnoring DEF CrtcSteps, Steps
  <2>3. CrtcSteps(d, [d EXCEPT !.port[v] = q])
    <3> HIDE DEF d
    <3>0. d \in Running
      BY <2>2 DEF CrtcSteps, Steps
    <3>1. d.port[v] \in Port
      BY <2>0, <3>0, PortOf
    <3>2. q \in Port
      BY <3>1 DEF Port
    <3>3. /\ q.state = d.port[v].state /\ q.kind = d.port[v].kind /\ q.ovl = d.port[v].ovl
          /\ q.crtc = d.port[v].crtc /\ q.allocated = d.port[v].allocated
          /\ q.reserved = d.port[v].reserved /\ q.noKey = d.port[v].noKey
          /\ q.timer = d.port[v].timer /\ q.rotation = d.port[v].rotation
          /\ q.turn = d.port[v].turn /\ q.dirty = d.port[v].dirty
      BY <3>1 DEF Port
    <3> HIDE DEF q
    <3> QED  BY <2>0, <3>0, <3>2, <3>3, PortFlags
  <2>4. CloneUpdate(s) \in {a, [d EXCEPT !.port[v] = q]}
    BY DEF CloneUpdate, v, c
  <2> HIDE DEF a, b, d, q
  <2> QED  BY <1>1, <2>1, <2>2, <2>3, <2>4, CrtcStepsAgain
<1>3. CASE ~(v # NoPort /\ c # NoCrtc)
  BY <1>1, <1>3 DEF CloneUpdate
<1> QED  BY <1>2, <1>3

(* A step that at most ends the server in a way that is not Doomed. *)
LEMMA RequireIs ==
  ASSUME NEW s \in Running, NEW cond, NEW how \in Death \ (Doomed \cup {"up"})
  PROVE  /\ CrtcSteps(s, Require(s, cond, how))
         /\ Require(s, cond, how).server = "up" => Require(s, cond, how) = s
<1> DEFINE t == Require(s, cond, how)
<1>0. s \in Device
  BY DEF Running
<1>1. Steps(s, t)
  BY RequireType
<1>2. t = s \/ t = [s EXCEPT !.server = how, !.failed = TRUE]
  BY DEF Require
<1>4. t.server = "up" => t = s
  BY <1>0 DEF Require, Device
<1> HIDE DEF t
<1>3. CrtcSteps(s, t)
  BY <1>0, <1>1, <1>2, CrtcStepsFlags, ZenonT(40) DEF Device
<1> QED  BY <1>3, <1>4 DEF t

(* The clone is waited for: its CRTC may have lost its overlay, which ends the server. *)
LEMMA CloneSyncIs ==
  ASSUME NEW s \in Running
  PROVE  /\ CrtcSteps(s, CloneSync(s))
         /\ CloneSync(s).server = "up" => CloneSync(s) = s
  BY RequireIs, CrtcStepsNot DEF CloneSync, OverlayWait, Death, Doomed

(* An overlay is panned. *)
LEMMA PanIs ==
  ASSUME NEW s \in Running, NEW o
  PROVE  CrtcSteps(s, OverlayPan(s, o))
<1> DEFINE r == Require(s, o # NoOverlay /\ s.fb[o] # NoFb, "pan")
<1>1. CrtcSteps(s, r)
  BY RequireIs DEF Death, Doomed
<1> HIDE DEF r
<1>2. CrtcSteps(r, Ignoring(r))
  BY <1>1, CrtcStepsIgnoring DEF CrtcSteps, Steps
<1> QED  BY <1>1, <1>2, CrtcStepsAgain DEF OverlayPan, r

(* A CRTC is switched on or off. *)
LEMMA SetDpmsIs ==
  ASSUME NEW s \in Running, NEW c \in Crtc, NEW on \in BOOLEAN, ~s.failed
  PROVE  CrtcSteps(s, SetDpms(s, c, on))
<1> DEFINE r == [s EXCEPT !.dpms[c] = on]
           got == GetCrtcOverlay(r, c)
           lit == OverlayEnable(got, got.crtcOvl[c])
           off == OverlayDisable(r, s.crtcOvl[c])
           put == PutCrtcOverlay(off, c)
<1>1. CrtcSteps(s, r)
  BY CrtcStepsDpms
<1>2. r \in Running /\ r.crtcOvl = s.crtcOvl /\ ~r.failed
  BY SetDpmsFlag DEF Steps, Running, Device
<1> HIDE DEF r
<1>3. CASE on
  <2>1. Quiet(r, got) /\ (got.failed \/ got.crtcOvl[c] # NoOverlay)
    BY <1>2, GetCrtcOverlayIs
  <2>2. got \in Running
    <3> HIDE DEF got
    <3> QED  BY <2>1 DEF Quiet, CrtcSteps, Steps
  <2>3. CrtcSteps(got, Ignoring(got))
    <3> HIDE DEF got
    <3> QED  BY <2>2, CrtcStepsIgnoring
  <2>4. ~got.failed => CrtcSteps(got, lit)
    <3> HIDE DEF got
    <3> SUFFICES ASSUME ~got.failed PROVE CrtcSteps(got, lit)
      OBVIOUS
    <3>1. got.crtcOvl[c] \in Overlay
      BY <2>1, <2>2, CrtcFields DEF OrNone
    <3>2. Tuned(got, lit, got.crtcOvl[c])
      BY <2>2, <3>1, EnableIs
    <3> HIDE DEF lit
    <3> QED  BY <2>1, <2>2, <3>2, TunedCrtc
  <2>5. ~got.failed => CrtcSteps(lit, Ignoring(lit))
    <3> HIDE DEF got, lit
    <3> QED  BY <2>4, CrtcStepsIgnoring DEF CrtcSteps, Steps
  <2>6. SetDpms(s, c, on) = Ignoring(IF got.failed THEN got ELSE lit)
    BY <1>3 DEF SetDpms, r
  <2> HIDE DEF got, lit
  <2> QED  BY <1>1, <2>1, <2>3, <2>4, <2>5, <2>6, CrtcStepsAgain DEF Quiet
<1>4. CASE ~on /\ s.crtcOvl[c] = NoOverlay
  BY <1>1, <1>4 DEF SetDpms, r
<1>5. CASE ~on /\ s.crtcOvl[c] # NoOverlay
  <2>1. s.crtcOvl[c] \in Overlay
    BY <1>5, CrtcFields DEF OrNone
  <2>2. Tuned(r, off, s.crtcOvl[c]) /\ s.crtcOvl[c] \notin off.on
    BY <1>2, <2>1, DisableIs
  <2>3. SetDpms(s, c, on) \in {off, put}
    BY <1>5 DEF SetDpms, r
  <2> HIDE DEF off
  <2>4. CrtcSteps(r, off)
    BY <1>2, <1>5, <2>2, TunedCrtc
  <2>5. off \in Running /\ off.crtcOvl = s.crtcOvl
    BY <1>2, <2>2 DEF Tuned, Apart, Steps
  <2>6. CrtcSteps(off, put)
    BY <2>2, <2>5, PutCrtcOverlayIs DEF Quiet
  <2> HIDE DEF put
  <2> QED  BY <1>1, <2>3, <2>4, <2>6, CrtcStepsAgain
<1> QED  BY <1>3, <1>4, <1>5

(* A CRTC shows another part of the screen. *)
LEMMA SetOriginIs ==
  ASSUME NEW s \in Running, NEW c \in Crtc
  PROVE  CrtcSteps(s, SetOrigin(s, c))
<1> DEFINE a == OverlayPan(s, s.crtcOvl[c])
<1>1. CrtcSteps(s, a)
  BY PanIs
<1>2. CrtcSteps(a, UpdateCrtc(a, c))
  <2> HIDE DEF a
  <2> QED  BY <1>1, UpdateCrtcSteps DEF CrtcSteps, Steps
<1> QED  BY <1>1, <1>2, CrtcStepsNot, CrtcStepsAgain DEF SetOrigin

(* All CRTCs do. *)
LEMMA FlipCrtcsIs ==
  ASSUME NEW s \in Running
  PROVE  CrtcSteps(s, FlipCrtcs(s))
<1> DEFINE a == OverlayPan(s, s.crtcOvl["CRTC0"])
           b == OverlayPan(a, s.crtcOvl["CRTC1"])
           d == OverlayPan(s, s.crtcOvl["CRTC1"])
<1>1. CrtcSteps(s, a) /\ CrtcSteps(s, d)
  BY PanIs
<1>2. CrtcSteps(a, b)
  <2> HIDE DEF a
  <2> QED  BY <1>1, PanIs DEF CrtcSteps, Steps
<1>3. FlipCrtcs(s) \in {s, a, b, d}
  BY DEF FlipCrtcs
<1> HIDE DEF a, b, d
<1> QED  BY <1>1, <1>2, <1>3, CrtcStepsNot, CrtcStepsAgain

(* A CRTC is disabled. *)
LEMMA DisableCrtcIs ==
  ASSUME NEW s \in Running, NEW c \in Crtc, ~s.failed
  PROVE  CrtcSteps(s, DisableCrtc(s, c))
<1> DEFINE a == [s EXCEPT !.enabled[c] = FALSE]
<1>1. CrtcSteps(s, a) /\ ~a.failed
  <2>1. Steps(s, a)
    BY DEF Steps, Device, Running
  <2>2. s \in Device
    BY DEF Running
  <2>3. CrtcSteps(s, a)
    BY <2>1, <2>2, CrtcStepsFlags DEF Device
  <2> QED  BY <2>2, <2>3 DEF Device
<1>2. CrtcSteps(a, SetDpms(a, c, FALSE))
  <2> HIDE DEF a
  <2> QED  BY <1>1, SetDpmsIs DEF CrtcSteps, Steps
<1> QED  BY <1>1, <1>2, CrtcStepsAgain DEF DisableCrtc

-----------------------------------------------------------------------------
(* The steps for a port. *)

(* A port that is on a CRTC feeds the display of that CRTC, turned as both want it now. *)
Aimed(s, v) ==
  s.port[v].crtc # NoCrtc =>
    /\ s.out[Ovl(s, v)] = s.port[v].crtc
    /\ s.port[v].turn = update_rotation(s.port[v].rotation, CrtcTurn(s, s.port[v].crtc))

(* An image that is to be written without being set up again is mapped. *)
Filled(s, v) ==
  Active(s, v) /\ ~s.port[v].dirty /\ s.buffered[VideoFb(v)] => s.mapped[VideoFb(v)]

(* The colour key is on, or the timer is armed that turns it on. *)
Guarded(s, v) ==
  (\A w \in Ports : w = v) /\ "colorkey" \notin Attributes
      /\ s.port[v].noKey /\ s.port[v].crtc # NoCrtc
    => s.key[s.port[v].crtc] \/ s.port[v].timer

(* Where no client sets the clone attribute, a port whose overlay is on knows its CRTC. *)
Placed(s, v) ==
  "clone" \notin Attributes /\ Active(s, v) /\ Ovl(s, v) \in s.on => s.port[v].crtc # NoCrtc

(* What is true of each port between the requests. *)
PortFine(s, v) ==
  /\ s.port[v].crtc # NoCrtc => Active(s, v)
  /\ Aimed(s, v) /\ Filled(s, v) /\ Guarded(s, v) /\ Placed(s, v)

(* The tables are well typed and agree, and the server has not died of one of Doomed. *)
Safe(s) == s \in Running /\ s.server \notin Doomed /\ (s.server = "up" => Shared(s))

(* In the middle of a request all ports but one are fine. *)
GoodBut(s, v) == Safe(s) /\ (s.server = "up" => \A w \in Ports \ {v} : PortFine(s, w))

(* At its ends all of them are. *)
Good(s) == Safe(s) /\ (s.server = "up" => \A w \in Ports : PortFine(s, w))

(* What a step for the port v leaves to another port w. *)
Spared(s, t, w) ==
  /\ Kept(s, t, w)
  /\ t.buffered[VideoFb(w)] = s.buffered[VideoFb(w)]
  /\ t.mapped[VideoFb(w)] = s.mapped[VideoFb(w)]

(* And to all others. *)
Others(s, t, v) == t.rotation = s.rotation /\ \A w \in Ports \ {v} : Spared(s, t, w)

(* A step for the port v. *)
PortSteps(s, t, v) ==
  /\ Steps(s, t)
  /\ s.server = "up" /\ Shared(s) =>
       /\ t.server \notin Doomed
       /\ t.server = "up" => Shared(t) /\ Others(s, t, v)

(* Left alone twice is left alone. *)
LEMMA OthersAgain ==
  ASSUME NEW s, NEW t, NEW u, NEW v, Others(s, t, v), Others(t, u, v)
  PROVE  Others(s, u, v)
  BY KeptAgain DEF Others, Spared

(* Two such steps are one. *)
LEMMA PortStepsAgain ==
  ASSUME NEW s, NEW t, NEW u, NEW v, PortSteps(s, t, v), PortSteps(t, u, v)
  PROVE  PortSteps(s, u, v)
<1>1. Steps(s, u)
  BY StepsAgain DEF PortSteps
<1>2. ASSUME s.server = "up", Shared(s)
      PROVE  u.server \notin Doomed /\ (u.server = "up" => Shared(u) /\ Others(s, u, v))
  <2>1. t.server \notin Doomed
    BY <1>2 DEF PortSteps
  <2>2. CASE t.server = "up"
    BY <1>2, <2>2, OthersAgain DEF PortSteps
  <2>3. CASE t.server # "up"
    <3>1. u.server = t.server
      BY <2>3 DEF PortSteps, Steps
    <3> QED  BY <2>1, <2>3, <3>1
  <2> QED  BY <2>2, <2>3
<1> QED  BY <1>1, <1>2 DEF PortSteps

(* A step for a CRTC will do as one for a port. *)
LEMMA CrtcPortSteps ==
  ASSUME NEW s, NEW t, NEW v, CrtcSteps(s, t)
  PROVE  PortSteps(s, t, v)
  BY DEF CrtcSteps, PortSteps, Framed, Others, Spared

(* So will no step. *)
LEMMA PortStepsNot ==
  ASSUME NEW s \in Running, NEW v
  PROVE  PortSteps(s, s, v)
  BY CrtcStepsNot, CrtcPortSteps

(* A port that is left as it was remains as good as it was. *)
LEMMA SparedFine ==
  ASSUME NEW s, NEW t, NEW w \in Ports, Shared(s), PortFine(s, w), Spared(s, t, w),
         t.rotation = s.rotation, t.key = s.key \/ \E v \in Ports : v # w
  PROVE  PortFine(t, w)
<1>1. CrtcTurn(t, s.port[w].crtc) = CrtcTurn(s, s.port[w].crtc)
  BY DEF CrtcTurn
<1>2. /\ t.port[w].crtc = s.port[w].crtc /\ (Active(t, w) <=> Active(s, w))
      /\ Ovl(t, w) = Ovl(s, w) /\ t.port[w].rotation = s.port[w].rotation
      /\ t.port[w].noKey = s.port[w].noKey /\ t.port[w].timer = s.port[w].timer
      /\ s.port[w].dirty => t.port[w].dirty
  BY DEF Spared, Kept
<1>3. Aimed(t, w)
  <2> SUFFICES ASSUME s.port[w].crtc # NoCrtc PROVE Aimed(t, w)
    BY <1>2 DEF Aimed
  <2>1. Ovl(s, w) # NoOverlay
    BY DEF PortFine, Shared
  <2>2. t.out[Ovl(s, w)] = s.out[Ovl(s, w)]
    BY <2>1 DEF Spared, Kept
  <2>3. t.port[w].turn = update_rotation(s.port[w].rotation, CrtcTurn(s, s.port[w].crtc))
    BY DEF PortFine, Aimed, Spared, Kept
  <2> QED  BY <1>1, <1>2, <2>2, <2>3 DEF Aimed, PortFine
<1>4. Filled(t, w)
  BY <1>2 DEF Filled, PortFine, Spared
<1>5. Guarded(t, w)
  BY <1>2 DEF Guarded, PortFine
<1>6. Placed(t, w)
  BY <1>2 DEF Placed, PortFine, Shared, Spared, Kept
<1> QED  BY <1>2, <1>3, <1>4, <1>5, <1>6 DEF PortFine

(* A step for one port leaves all others as good as they were. *)
LEMMA PortStepsGood ==
  ASSUME NEW s, NEW t, NEW v \in Ports, GoodBut(s, v), PortSteps(s, t, v)
  PROVE  GoodBut(t, v)
<1>1. CASE s.server # "up"
  BY <1>1 DEF GoodBut, Safe, PortSteps, Steps, Doomed
<1>2. CASE s.server = "up"
  <2>1. Safe(t)
    BY <1>2 DEF GoodBut, Safe, PortSteps, Steps
  <2>2. ASSUME t.server = "up", NEW w \in Ports \ {v} PROVE PortFine(t, w)
    BY <1>2, <2>2, SparedFine DEF GoodBut, Safe, PortSteps, Others
  <2> QED  BY <2>1, <2>2 DEF GoodBut
<1> QED  BY <1>1, <1>2

(* A step for a CRTC all of them. *)
LEMMA CrtcGood ==
  ASSUME NEW s, NEW t, Good(s), CrtcSteps(s, t)
  PROVE  Good(t)
<1>1. CASE s.server # "up"
  BY <1>1 DEF Good, Safe, CrtcSteps, Steps, Doomed
<1>2. CASE s.server = "up"
  <2>1. Safe(t)
    BY <1>2 DEF Good, Safe, CrtcSteps, Steps
  <2>2. ASSUME t.server = "up", NEW w \in Ports PROVE PortFine(t, w)
    BY <1>2, <2>2, SparedFine DEF Good, Safe, CrtcSteps, Framed, Spared
  <2> QED  BY <2>1, <2>2 DEF Good
<1> QED  BY <1>1, <1>2

(* Good but for a port that is fine is good. *)
LEMMA GoodButOne ==
  ASSUME NEW s, NEW v \in Ports
  PROVE  Good(s) <=> GoodBut(s, v) /\ (s.server = "up" => PortFine(s, v))
  BY DEF Good, GoodBut

-----------------------------------------------------------------------------
(* What such a step may change. *)

(* The steps of a port on its overlay. *)
LEMMA TunedPort ==
  ASSUME NEW s \in Running, NEW t, NEW v \in Ports, Ovl(s, v) # NoOverlay,
         Tuned(s, t, Ovl(s, v)), t.fb = s.fb, t.on \subseteq s.on \/ Active(s, v)
  PROVE  PortSteps(s, t, v)
<1> DEFINE o == Ovl(s, v)
<1>1. ASSUME Shared(s) PROVE Shared(t) /\ Others(s, t, v)
  <2>1. o \in Overlay /\ s.usage[o] \in Xv
    BY <1>1, PortFields DEF Shared, PoolOf, OrNone
  <2>2. \A w \in Ports : w # v /\ Ovl(s, w) # NoOverlay => Ovl(s, w) \in Overlay /\ Ovl(s, w) # o
    BY <1>1, PortFields DEF Shared, PoolOf, OrNone
  <2>3. \A w \in Ports : Ovl(t, w) = Ovl(s, w) /\ (Active(t, w) <=> Active(s, w))
    BY DEF Tuned, Apart, Ovl, Active
  <2>4. \A w \in Ports : w # v /\ Ovl(s, w) # NoOverlay =>
          /\ t.fb[Ovl(s, w)] = s.fb[Ovl(s, w)] /\ t.out[Ovl(s, w)] = s.out[Ovl(s, w)]
          /\ Ovl(s, w) \in t.on <=> Ovl(s, w) \in s.on
    BY <2>2 DEF Tuned, Apart
  <2>5. PoolOf(t)
    BY <1>1, <2>3 DEF Shared, PoolOf, Tuned, Apart
  <2>7. t.on \subseteq Overlay
    BY DEF Tuned, Apart, Steps, Running, Device
  <2>6. \A p \in t.on : t.usage[p] # "NONE"
    <3>1. "NONE" \notin Xv
      BY DEF Xv
    <3> QED  BY <1>1, <2>1, <2>7, <3>1 DEF Shared, Tuned, Apart
  <2>8. NoOverlay \notin t.on
    BY <2>7, OverlaysAssumption DEF Overlay
  <2>9. Shared(t)
    <3>1. \A w \in Ports : Ovl(t, w) \in t.on => Active(t, w)
      BY <1>1, <2>3, <2>4, <2>8 DEF Shared
    <3> QED  BY <1>1, <2>3, <2>5, <2>6, <3>1 DEF Shared, Tuned, Apart
  <2>10. \A w \in Ports \ {v} : Spared(s, t, w)
    BY <2>3, <2>4 DEF Spared, Kept, Tuned, Apart
  <2> QED  BY <2>9, <2>10 DEF Others, Tuned, Apart
<1>2. Steps(s, t) /\ t.server = s.server
  BY DEF Tuned, Apart
<1> QED  BY <1>1, <1>2 DEF PortSteps, Doomed

(* The steps on its framebuffer. *)
LEMMA FbSteps ==
  ASSUME NEW s \in Running, NEW t, NEW v \in Ports, Steps(s, t),
         t.usage = s.usage, t.fb = s.fb, t.out = s.out, t.on = s.on, t.port = s.port,
         t.rotation = s.rotation, t.crtcOvl = s.crtcOvl,
         t.server = s.server \/ t.server \notin Doomed,
         \A f \in Fb : f # VideoFb(v) =>
           /\ t.mem[f] = s.mem[f] /\ t.size[f] = s.size[f]
           /\ t.buffered[f] = s.buffered[f] /\ t.mapped[f] = s.mapped[f],
         (s.size[VideoFb(v)] # 0 => s.mem[VideoFb(v)] # 0) =>
           (t.size[VideoFb(v)] # 0 => t.mem[VideoFb(v)] # 0)
  PROVE  PortSteps(s, t, v)
<1>1. ASSUME Shared(s) PROVE Shared(t) /\ Others(s, t, v)
  <2>1. \A w \in Ports : Ovl(t, w) = Ovl(s, w) /\ (Active(t, w) <=> Active(s, w))
    BY DEF Ovl, Active
  <2>2. 0 \in Fb /\ VideoFb(v) \in Fb /\ VideoFb(v) # 0
    BY VideoFbIs DEF Fb
  <2>3. PoolOf(t)
    BY <1>1, <2>1 DEF Shared, PoolOf
  <2>4. Shared(t)
    BY <1>1, <2>1, <2>2, <2>3 DEF Shared
  <2>5. \A w \in Ports \ {v} : VideoFb(w) \in Fb /\ VideoFb(w) # VideoFb(v)
    BY VideoFbIs
  <2>6. \A w \in Ports \ {v} : Spared(s, t, w)
    BY <2>1, <2>5 DEF Spared, Kept
  <2> QED  BY <2>4, <2>6 DEF Others
<1> QED  BY <1>1 DEF PortSteps, Doomed

(* And on what it keeps for itself. *)
LEMMA PortSet ==
  ASSUME NEW s \in Running, NEW v \in Ports, NEW q \in Port, q.ovl = Ovl(s, v),
         q.state = "active" => q.ovl # NoOverlay,
         s.server = "up" /\ q.ovl \in s.on /\ Active(s, v) => q.state = "active"
  PROVE  LET t == [s EXCEPT !.port[v] = q] IN
         PortSteps(s, t, v) /\ t.port[v] = q
<1> DEFINE t == [s EXCEPT !.port[v] = q]
<1>0. s \in Device
  BY DEF Running
<1>1. Steps(s, t)
  BY SetPort
<1>2. /\ t.server = s.server /\ t.usage = s.usage /\ t.fb = s.fb /\ t.out = s.out
      /\ t.on = s.on /\ t.mem = s.mem /\ t.size = s.size /\ t.crtcOvl = s.crtcOvl
      /\ t.buffered = s.buffered /\ t.mapped = s.mapped /\ t.key = s.key
      /\ t.rotation = s.rotation
      /\ t.port[v] = q /\ \A w \in Ports : w # v => t.port[w] = s.port[w]
  BY <1>0 DEF Device
<1> HIDE DEF t
<1>3. \A w \in Ports : Ovl(t, w) = Ovl(s, w) /\ (w # v => (Active(t, w) <=> Active(s, w)))
  BY <1>2 DEF Ovl, Active
<1>4. s.server = "up" /\ Shared(s) => Shared(t)
  <2> SUFFICES ASSUME s.server = "up", Shared(s) PROVE Shared(t)
    OBVIOUS
  <2>1. PoolOf(t)
    BY <1>2, <1>3 DEF Shared, PoolOf
  <2>2. \A w \in Ports :
          /\ Ovl(t, w) # NoOverlay => t.fb[Ovl(t, w)] = VideoFb(w)
          /\ Ovl(t, w) \in t.on => Active(t, w)
          /\ Active(t, w) => Ovl(t, w) # NoOverlay
    <3> TAKE w \in Ports
    <3>1. CASE w = v
      BY <1>2, <1>3, <3>1 DEF Shared, Active
    <3>2. CASE w # v
      BY <1>2, <1>3, <3>2 DEF Shared
    <3> QED  BY <3>1, <3>2
  <2> QED  BY <1>2, <2>1, <2>2 DEF Shared
<1>5. \A w \in Ports \ {v} : Spared(s, t, w)
  BY <1>2, <1>3 DEF Spared, Kept
<1>6. PortSteps(s, t, v)
  BY <1>1, <1>2, <1>4, <1>5 DEF PortSteps, Others, Doomed
<1> QED  BY <1>2, <1>6 DEF t

(* The colour key is nobody else's. *)
LEMMA KeySteps ==
  ASSUME NEW s \in Running, NEW v \in Ports, NEW b \in BOOLEAN
  PROVE  LET t == SetupColorkey(s, v, b) IN
         /\ PortSteps(s, t, v) /\ t.port = s.port /\ t.out = s.out /\ t.rotation = s.rotation
         /\ t.buffered = s.buffered /\ t.mapped = s.mapped /\ t.server = s.server
         /\ t.failed = s.failed /\ t.on = s.on /\ t.mem = s.mem
         /\ Aimed(s, v) /\ s.port[v].crtc # NoCrtc /\ Ovl(s, v) # NoOverlay
              => t.key[s.port[v].crtc] = b
<1> DEFINE c == s.port[v].crtc
           t == SetupColorkey(s, v, b)
<1>0. s \in Device
  BY DEF Running
<1>1. Steps(s, t)
  BY SetupColorkeyType
<1>2. t = s \/ t = [s EXCEPT !.key[c] = b]
  BY DEF SetupColorkey, OutputColorKey
<1>3. Aimed(s, v) /\ c # NoCrtc /\ Ovl(s, v) # NoOverlay => t.key[c] = b
  <2> SUFFICES ASSUME Aimed(s, v), c # NoCrtc, Ovl(s, v) # NoOverlay PROVE t.key[c] = b
    OBVIOUS
  <2>1. c \in Crtc /\ Ovl(s, v) \in Overlay
    BY PortFields DEF OrNone
  <2>2. s.out[Ovl(s, v)] = c
    BY DEF Aimed
  <2>3. t = [s EXCEPT !.key[c] = b]
    BY <2>1, <2>2 DEF SetupColorkey, OutputColorKey
  <2> HIDE DEF t, c
  <2> QED  BY <1>0, <2>1, <2>3 DEF Device
<1> HIDE DEF t
<1>4. /\ t.port = s.port /\ t.out = s.out /\ t.rotation = s.rotation
      /\ t.buffered = s.buffered /\ t.mapped = s.mapped /\ t.server = s.server
      /\ t.failed = s.failed /\ t.on = s.on /\ t.mem = s.mem /\ t.size = s.size
      /\ t.usage = s.usage /\ t.fb = s.fb /\ t.crtcOvl = s.crtcOvl
  BY <1>0, <1>2 DEF Device
<1>5. PortSteps(s, t, v)
  BY <1>1, <1>4, FbSteps
<1> QED  BY <1>3, <1>4, <1>5 DEF t

(* The framebuffer of a port is unmapped. *)
LEMMA UnmapIs ==
  ASSUME NEW s \in Running, NEW v \in Ports
  PROVE  LET t == FbUnmap(s, VideoFb(v)) IN
         /\ PortSteps(s, t, v)
         /\ t.port = s.port /\ t.out = s.out /\ t.on = s.on /\ t.fb = s.fb /\ t.mem = s.mem
         /\ t.size = s.size /\ t.buffered = s.buffered /\ t.rotation = s.rotation
         /\ t.key = s.key /\ t.server = s.server /\ t.failed = s.failed
<1> DEFINE t == FbUnmap(s, VideoFb(v))
<1>0. s \in Device
  BY DEF Running
<1>1. Steps(s, t)
  BY FbUnmapType, VideoFbIs
<1>2. t = [s EXCEPT !.mapped[VideoFb(v)] = FALSE]
  BY DEF FbUnmap
<1> HIDE DEF t
<1>3. /\ t.port = s.port /\ t.out = s.out /\ t.on = s.on /\ t.fb = s.fb /\ t.mem = s.mem
      /\ t.size = s.size /\ t.buffered = s.buffered /\ t.rotation = s.rotation
      /\ t.key = s.key /\ t.server = s.server /\ t.failed = s.failed
      /\ t.usage = s.usage /\ t.crtcOvl = s.crtcOvl
      /\ \A f \in Fb : f # VideoFb(v) => t.mapped[f] = s.mapped[f]
  BY <1>0, <1>2 DEF Device
<1>4. PortSteps(s, t, v)
  BY <1>1, <1>3, FbSteps
<1> QED  BY <1>3, <1>4 DEF t

(* The overlay is off and nothing mapped: the memory may change. *)
LEMMA IdleIs ==
  ASSUME NEW s \in Running, NEW v \in Ports, s.server = "up", Shared(s), ~s.failed
  PROVE  LET t == Idle(s, v) IN
         /\ PortSteps(s, t, v)
         /\ t.port = s.port /\ t.out = s.out /\ t.fb = s.fb /\ t.mem = s.mem
         /\ t.size = s.size /\ t.buffered = s.buffered /\ t.rotation = s.rotation
         /\ t.key = s.key /\ t.server = "up" /\ ~t.failed
         /\ Ovl(s, v) \notin t.on
         /\ ~Active(s, v) => t = s
<1> DEFINE o == Ovl(s, v)
           a == OverlayDisable(s, o)
           b == Ignoring(a)
           d == FbUnmap(b, VideoFb(v))
<1>1. CASE ~Active(s, v)
  <2>1. o \notin s.on
    BY <1>1 DEF Shared
  <2>2. Idle(s, v) = s
    BY <1>1 DEF Idle
  <2> QED  BY <2>1, <2>2, PortStepsNot
<1>2. CASE Active(s, v)
  <2>0. o # NoOverlay /\ o \in Overlay
    BY <1>2, PortFields DEF Shared, OrNone
  <2>1. /\ Tuned(s, a, o) /\ a.fb = s.fb /\ a.out = s.out
        /\ o \notin a.on /\ a.on \subseteq s.on
    BY <2>0, DisableIs
  <2>2. a \in Running
    <3> HIDE DEF a
    <3> QED  BY <2>1 DEF Tuned, Apart, Steps
  <2>3. PortSteps(s, a, v)
    <3> HIDE DEF a
    <3> QED  BY <2>0, <2>1, TunedPort
  <2>4. /\ Tuned(a, b, o) /\ b.fb = a.fb /\ b.on = a.on /\ b.out = a.out
        /\ (a.server = "up" => ~b.failed) /\ CrtcSteps(a, b)
    <3> HIDE DEF a
    <3> QED  BY <2>2, IgnoringTuned, CrtcStepsIgnoring
  <2>5. b \in Running
    <3> HIDE DEF b
    <3> QED  BY <2>4 DEF Tuned, Apart, Steps
  <2>6. /\ PortSteps(b, d, v)
        /\ d.port = b.port /\ d.out = b.out /\ d.on = b.on /\ d.fb = b.fb /\ d.mem = b.mem
        /\ d.size = b.size /\ d.buffered = b.buffered /\ d.rotation = b.rotation
        /\ d.key = b.key /\ d.server = b.server /\ d.failed = b.failed
    <3> HIDE DEF b
    <3> QED  BY <2>5, UnmapIs
  <2>7. Idle(s, v) = d
    BY <1>2 DEF Idle
  <2> HIDE DEF a, b, d
  <2>8. PortSteps(s, d, v)
    BY <2>3, <2>4, <2>6, CrtcPortSteps, PortStepsAgain
  <2>9. /\ d.port = s.port /\ d.out = s.out /\ d.fb = s.fb /\ d.mem = s.mem
        /\ d.size = s.size /\ d.buffered = s.buffered /\ d.rotation = s.rotation
        /\ d.key = s.key /\ d.server = "up" /\ ~d.failed /\ o \notin d.on
    BY <2>1, <2>4, <2>6 DEF Tuned, Apart
  <2> QED  BY <1>2, <2>7, <2>8, <2>9
<1> QED  BY <1>1, <1>2

(* Memory is allocated, in two buffers. *)
LEMMA AllocIs ==
  ASSUME NEW s \in Running, NEW v \in Ports, NEW n \in Sizes,
         s.size[VideoFb(v)] # 0 => s.mem[VideoFb(v)] # 0
  PROVE  LET t == FbAlloc(s, VideoFb(v), n) IN
         /\ PortSteps(s, t, v)
         /\ t.port = s.port /\ t.out = s.out /\ t.on = s.on /\ t.fb = s.fb
         /\ t.mapped = s.mapped /\ t.rotation = s.rotation /\ t.key = s.key
         /\ t.server = s.server
         /\ ~t.failed => t.buffered[VideoFb(v)] /\ t.mem[VideoFb(v)] # 0
<1> DEFINE f == VideoFb(v)
           t == FbAlloc(s, f, n)
<1>0. s \in Device /\ f \in Fb /\ n # 0
  BY VideoFbIs, OverlaysAssumption DEF Running
<1>1. Steps(s, t)
  BY FbAllocType, VideoFbIs
<1>2. \/ s.failed /\ t = s
      \/ ~s.failed /\ t = [s EXCEPT !.failed = TRUE]
      \/ ~s.failed /\ s.size[f] = n /\ t = [s EXCEPT !.buffered[f] = TRUE]
      \/ ~s.failed /\ t = [s EXCEPT !.mem[f] = n, !.size[f] = n, !.buffered[f] = TRUE]
  BY DEF FbAlloc
<1> HIDE DEF t, f
<1>3. /\ t.port = s.port /\ t.out = s.out /\ t.on = s.on /\ t.fb = s.fb
      /\ t.mapped = s.mapped /\ t.rotation = s.rotation /\ t.key = s.key
      /\ t.server = s.server /\ t.usage = s.usage /\ t.crtcOvl = s.crtcOvl
      /\ ~t.failed => t.buffered[f] /\ t.mem[f] # 0
      /\ (s.size[f] # 0 => s.mem[f] # 0) => (t.size[f] # 0 => t.mem[f] # 0)
      /\ \A g \in Fb : g # f =>
           /\ t.mem[g] = s.mem[g] /\ t.size[g] = s.size[g] /\ t.buffered[g] = s.buffered[g]
  <2>1. CASE s.failed /\ t = s
    BY <2>1
  <2>4. CASE t = [s EXCEPT !.failed = TRUE]
    BY <1>0, <2>4 DEF Device
  <2>2. CASE ~s.failed /\ s.size[f] = n /\ t = [s EXCEPT !.buffered[f] = TRUE]
    BY <1>0, <2>2 DEF Device, f
  <2>3. CASE t = [s EXCEPT !.mem[f] = n, !.size[f] = n, !.buffered[f] = TRUE]
    BY <1>0, <2>3 DEF Device
  <2> QED  BY <1>2, <2>1, <2>2, <2>3, <2>4
<1>4. PortSteps(s, t, v)
  BY <1>1, <1>3, FbSteps DEF f
<1> QED  BY <1>3, <1>4 DEF t, f

(* And freed. *)
LEMMA FreeIs ==
  ASSUME NEW s \in Running, NEW v \in Ports
  PROVE  LET t == FbFree(s, VideoFb(v)) IN
         /\ PortSteps(s, t, v)
         /\ t.port = s.port /\ t.out = s.out /\ t.on = s.on /\ t.fb = s.fb
         /\ t.mapped = s.mapped /\ t.rotation = s.rotation /\ t.key = s.key
         /\ t.server = s.server
<1> DEFINE f == VideoFb(v)
           t == FbFree(s, f)
<1>0. s \in Device /\ f \in Fb
  BY VideoFbIs DEF Running
<1>1. Steps(s, t)
  BY FbFreeType, VideoFbIs
<1>2. \/ t = s \/ t = [s EXCEPT !.failed = TRUE] \/ t = [s EXCEPT !.buffered[f] = FALSE]
      \/ t = [s EXCEPT !.mem[f] = 0, !.size[f] = 0, !.buffered[f] = FALSE]
  BY DEF FbFree
<1> HIDE DEF t, f
<1>3. /\ t.port = s.port /\ t.out = s.out /\ t.on = s.on /\ t.fb = s.fb
      /\ t.mapped = s.mapped /\ t.rotation = s.rotation /\ t.key = s.key
      /\ t.server = s.server /\ t.usage = s.usage /\ t.crtcOvl = s.crtcOvl
      /\ (s.size[f] # 0 => s.mem[f] # 0) => (t.size[f] # 0 => t.mem[f] # 0)
      /\ \A g \in Fb : g # f =>
           /\ t.mem[g] = s.mem[g] /\ t.size[g] = s.size[g] /\ t.buffered[g] = s.buffered[g]
  <2>1. CASE t = s \/ t = [s EXCEPT !.failed = TRUE] \/ t = [s EXCEPT !.buffered[f] = FALSE]
    BY <1>0, <2>1 DEF Device
  <2>3. CASE t = [s EXCEPT !.mem[f] = 0, !.size[f] = 0, !.buffered[f] = FALSE]
    BY <1>0, <2>3 DEF Device
  <2> QED  BY <1>2, <2>1, <2>3
<1>4. PortSteps(s, t, v)
  BY <1>1, <1>3, FbSteps DEF f
<1> QED  BY <1>3, <1>4 DEF t, f

(* If the port has any. *)
LEMMA FreeMemIs ==
  ASSUME NEW s \in Running, NEW v \in Ports
  PROVE  LET t == FreeMem(s, v) IN
         /\ PortSteps(s, t, v)
         /\ Ovl(t, v) = Ovl(s, v) /\ (Active(t, v) <=> Active(s, v))
         /\ t.on = s.on /\ t.server = s.server
         /\ s.server = "up" /\ ~s.failed => ~t.failed
<1> DEFINE freed == FbFree(s, VideoFb(v))
           q == [freed.port[v] EXCEPT !.allocated = FALSE]
           a == Ignoring(freed)
           b == [freed EXCEPT !.port[v] = q]
           t == FreeMem(s, v)
<1>1. PortSteps(s, freed, v) /\ freed.port = s.port /\ freed.on = s.on
      /\ freed.server = s.server
  BY FreeIs
<1>2. freed \in Running
  <2> HIDE DEF freed
  <2> QED  BY <1>1 DEF PortSteps, Steps
<1>3. t \in {s, a} \/ (t = b /\ ~freed.failed)
  BY DEF FreeMem
<1>4. Tuned(freed, a, 0) /\ a.on = freed.on /\ (freed.server = "up" => ~a.failed)
      /\ CrtcSteps(freed, a)
  <2> HIDE DEF freed
  <2> QED  BY <1>2, IgnoringTuned, CrtcStepsIgnoring
<1>5. /\ q \in Port /\ q.ovl = freed.port[v].ovl /\ q.state = freed.port[v].state
  <2> HIDE DEF freed
  <2>1. freed.port[v] \in Port
    BY <1>2, PortOf
  <2> QED  BY <2>1 DEF Port
<1>6. freed.server = "up" /\ Shared(freed) /\ Active(freed, v) => Ovl(freed, v) # NoOverlay
  BY DEF Shared
<1>7. Ovl(freed, v) = Ovl(s, v) /\ (Active(freed, v) <=> Active(s, v))
  <2> HIDE DEF freed
  <2> QED  BY <1>1 DEF Ovl, Active
<1>8. CASE t = b /\ ~freed.failed
  <2>1. Active(freed, v) => Ovl(freed, v) # NoOverlay \/ ~(freed.server = "up" /\ Shared(freed))
    BY <1>6
  <2>2. PortSteps(freed, b, v) /\ b.port[v] = q
    <3> HIDE DEF freed, q, b
    <3>1. CASE q.state = "active" => q.ovl # NoOverlay
      BY <1>2, <1>5, <3>1, PortSet DEF Ovl, Active, b
    <3>2. CASE ~(q.state = "active" => q.ovl # NoOverlay)
      <4>1. ~(freed.server = "up" /\ Shared(freed))
        BY <1>5, <2>1, <3>2 DEF Active, Ovl
      <4>2. Steps(freed, b) /\ b.port[v] = q
        BY <1>2, <1>5, SetPort DEF b, Running, Device
      <4> QED  BY <4>1, <4>2 DEF PortSteps
    <3> QED  BY <3>1, <3>2
  <2>3. b.on = freed.on /\ b.server = freed.server /\ b.failed = freed.failed
    <3> HIDE DEF freed, q
    <3> QED  BY <1>2 DEF Running, Device
  <2> HIDE DEF freed, q, b, t
  <2>4. Ovl(t, v) = Ovl(s, v) /\ (Active(t, v) <=> Active(s, v))
    BY <1>5, <1>7, <1>8, <2>2 DEF Ovl, Active
  <2>5. PortSteps(s, t, v)
    BY <1>1, <1>8, <2>2, PortStepsAgain
  <2>6. t.on = s.on /\ t.server = s.server /\ ~t.failed
    BY <1>1, <1>8, <2>3
  <2> QED  BY <2>4, <2>5, <2>6 DEF t
<1>9. CASE t = a
  <2> HIDE DEF freed, a, t
  <2>1. Ovl(t, v) = Ovl(s, v) /\ (Active(t, v) <=> Active(s, v))
    BY <1>4, <1>7, <1>9 DEF Ovl, Active, Tuned, Apart
  <2>2. PortSteps(s, t, v)
    BY <1>1, <1>4, <1>9, CrtcPortSteps, PortStepsAgain
  <2>3. t.on = s.on /\ t.server = s.server /\ (s.server = "up" => ~t.failed)
    BY <1>1, <1>4, <1>9 DEF Tuned, Apart
  <2> QED  BY <2>1, <2>2, <2>3 DEF t
<1>10. CASE t = s
  BY <1>10, PortStepsNot
<1> QED  BY <1>3, <1>8, <1>9, <1>10

-----------------------------------------------------------------------------
(* Ports at rest. *)

(* A port that is at rest. *)
Rests(s, v) == ~Active(s, v) /\ s.port[v].crtc = NoCrtc

(* Such a port is fine. *)
LEMMA RestsFine ==
  ASSUME NEW s, NEW v, Rests(s, v)
  PROVE  PortFine(s, v)
  BY DEF Rests, PortFine, Aimed, Filled, Guarded, Placed

(* A port that is stopped, whatever has failed before, is at rest. *)
LEMMA StopIs ==
  ASSUME NEW s, NEW v \in Ports, GoodBut(s, v)
  PROVE  LET t == Stop(s, v) IN
         /\ Good(t) /\ PortSteps(s, t, v)
         /\ t.server = s.server
         /\ t.server = "up" => Rests(t, v) /\ ~t.failed /\ Ovl(t, v) \notin t.on
<1> DEFINE a == Ignoring(s)
           b == Idle(a, v)
           d == FreeMem(b, v)
           q == [d.port[v] EXCEPT !.state = "stopped", !.crtc = NoCrtc, !.timer = FALSE]
           e == [d EXCEPT !.port[v] = q]
           t == Stop(s, v)
<1>0. s \in Running
  BY DEF GoodBut, Safe
<1>1. CASE s.server # "up"
  <2>1. Steps(s, t)
    BY <1>0, StopType
  <2> HIDE DEF t
  <2>2. t.server = s.server /\ t \in Running
    BY <1>1, <2>1 DEF Steps
  <2>3. PortSteps(s, t, v)
    BY <1>1, <2>1 DEF PortSteps
  <2>4. Good(t)
    BY <1>1, <2>2 DEF Good, GoodBut, Safe
  <2> QED  BY <1>1, <2>2, <2>3, <2>4 DEF t
<1>2. CASE s.server = "up"
  <2>1. CrtcSteps(s, a) /\ ~a.failed /\ Tuned(s, a, 0)
    BY <1>0, <1>2, IgnoringTuned, CrtcStepsIgnoring
  <2>2. a \in Running /\ a.server = "up" /\ Shared(a)
    <3> HIDE DEF a
    <3> QED  BY <1>2, <2>1 DEF Tuned, Apart, CrtcSteps, Steps, GoodBut, Safe
  <2>3. /\ PortSteps(a, b, v)
        /\ b.port = a.port /\ b.server = "up" /\ ~b.failed /\ Ovl(a, v) \notin b.on
    <3> HIDE DEF a
    <3> QED  BY <2>1, <2>2, IdleIs
  <2>4. b \in Running
    <3> HIDE DEF b
    <3> QED  BY <2>3 DEF PortSteps, Steps
  <2>5. /\ PortSteps(b, d, v)
        /\ Ovl(d, v) = Ovl(b, v) /\ d.on = b.on /\ d.server = b.server /\ ~d.failed
    <3> HIDE DEF b
    <3> QED  BY <2>3, <2>4, FreeMemIs
  <2>6. d \in Running /\ Ovl(d, v) \notin d.on
    <3> HIDE DEF a, b, d
    <3> QED  BY <2>3, <2>5 DEF PortSteps, Steps, Ovl
  <2>7. q \in Port /\ q.ovl = Ovl(d, v) /\ q.state = "stopped" /\ q.crtc = NoCrtc
    <3> HIDE DEF d
    <3>1. d.port[v] \in Port
      BY <2>6, PortOf
    <3> QED  BY <3>1 DEF Port, Ovl
  <2>8. PortSteps(d, e, v) /\ e.port[v] = q
    <3> HIDE DEF d, q
    <3> QED  BY <2>6, <2>7, PortSet
  <2>9. e.on = d.on /\ e.server = d.server /\ e.failed = d.failed
    <3> HIDE DEF d, q
    <3> QED  BY <2>6 DEF Running, Device
  <2>10. t = e
    BY DEF Stop
  <2> HIDE DEF a, b, d, q, e
  <2>11. PortSteps(s, e, v)
    BY <2>1, <2>3, <2>5, <2>8, CrtcPortSteps, PortStepsAgain
  <2>12. Rests(e, v) /\ ~e.failed /\ Ovl(e, v) \notin e.on /\ e.server = "up"
    BY <2>3, <2>5, <2>6, <2>7, <2>8, <2>9 DEF Rests, Active, Ovl
  <2>13. GoodBut(e, v)
    BY <2>11, PortStepsGood
  <2>14. Good(e)
    BY <2>12, <2>13, RestsFine, GoodButOne
  <2> QED  BY <1>2, <2>10, <2>11, <2>12, <2>14
<1> QED  BY <1>1, <1>2

(* Nothing but the port v has changed. *)
PortOnly(s, t, v) ==
  /\ PortSteps(s, t, v)
  /\ t.out = s.out /\ t.on = s.on /\ t.fb = s.fb /\ t.mem = s.mem
  /\ t.buffered = s.buffered /\ t.mapped = s.mapped /\ t.key = s.key
  /\ t.rotation = s.rotation /\ t.server = s.server /\ t.failed = s.failed

(* For instance by giving it another value. *)
LEMMA PortSetIs ==
  ASSUME NEW s \in Running, NEW v \in Ports, NEW q \in Port, q.ovl = Ovl(s, v),
         q.state = "active" => q.ovl # NoOverlay,
         s.server = "up" /\ q.ovl \in s.on /\ Active(s, v) => q.state = "active"
  PROVE  LET t == [s EXCEPT !.port[v] = q] IN
         PortOnly(s, t, v) /\ t.port[v] = q
<1> DEFINE t == [s EXCEPT !.port[v] = q]
<1>0. s \in Device
  BY DEF Running
<1>1. PortSteps(s, t, v) /\ t.port[v] = q
  BY PortSet
<1> QED  BY <1>0, <1>1 DEF PortOnly, Device

(* The port keeps its overlay and remains as active as it was. *)
LEMMA PortKeepIs ==
  ASSUME NEW s \in Running, NEW v \in Ports, NEW q \in Port, Safe(s),
         q.ovl = Ovl(s, v), q.state = s.port[v].state
  PROVE  LET t == [s EXCEPT !.port[v] = q] IN
         PortOnly(s, t, v) /\ t.port[v] = q
<1> DEFINE t == [s EXCEPT !.port[v] = q]
<1>1. CASE s.server = "up"
  <2>1. q.state = "active" => q.ovl # NoOverlay
    BY <1>1 DEF Safe, Shared, Active
  <2> QED  BY <2>1, PortSetIs DEF Active
<1>2. CASE s.server # "up"
  <2>0. s \in Device
    BY DEF Running
  <2>1. Steps(s, t)
    BY SetPort
  <2> QED  BY <1>2, <2>0, <2>1 DEF PortOnly, PortSteps, Device
<1> QED  BY <1>1, <1>2

(* Nothing more happens once the server has died. *)
LEMMA DeadGood ==
  ASSUME NEW s, NEW t, s.server # "up", s.server \notin Doomed, Steps(s, t)
  PROVE  Good(t)
  BY DEF Good, Safe, Steps

-----------------------------------------------------------------------------
(* Getting a port ready to be shown. *)

(* A port takes an overlay, and gives one back that is off. *)
LEMMA GetOverlayIs ==
  ASSUME NEW s, NEW v \in Ports, Good(s), s.server = "up"
  PROVE  LET t == GetOverlay(s, v) IN
         /\ Good(t) /\ t.server = "up" /\ (~t.failed => Ovl(t, v) # NoOverlay)
         /\ PortSteps(s, t, v)
<1> DEFINE use == s.port[v].stacking
           o == PoolChoice(s, use)
           got == PoolGet(s, o, use, VideoFb(v))
           q == [got.port[v] EXCEPT !.ovl = o, !.dirty = TRUE]
           t == GetOverlay(s, v)
<1>0. s \in Running /\ Shared(s) /\ s \in Device
  BY DEF Good, Safe, Running
<1>1. CASE Ovl(s, v) # NoOverlay
  BY <1>0, <1>1, PortStepsNot DEF GetOverlay
<1>2. CASE Ovl(s, v) = NoOverlay /\ o = NoOverlay
  <2>1. t = [s EXCEPT !.failed = TRUE]
    <3>1. got = [s EXCEPT !.failed = TRUE]
      BY <1>2 DEF PoolGet
    <3>2. got.failed
      BY <1>0, <3>1 DEF Device
    <3>3. got.failed => t = got
      BY <1>2 DEF GetOverlay
    <3> HIDE DEF got, q, t, o
    <3> QED  BY <3>1, <3>2, <3>3
  <2>2. Steps(s, t)
    BY <1>0, <2>1, SetFailed
  <2> HIDE DEF t
  <2>3. CrtcSteps(s, t)
    BY <1>0, <2>1, <2>2, CrtcStepsFlags DEF Device
  <2>4. t.server = "up" /\ t.failed
    BY <1>0, <2>1 DEF Device
  <2> QED  BY <2>3, <2>4, CrtcGood, CrtcPortSteps DEF t
<1>3. CASE Ovl(s, v) = NoOverlay /\ o # NoOverlay
  <2>0. use \in Xv
    BY <1>0, PortFields
  <2>1. o \in Overlay /\ s.usage[o] = "NONE"
    BY <1>3, <2>0, PoolChoiceFree
  <2>2. /\ Apart(s, got, o) /\ got.on = s.on /\ got.out = s.out
        /\ got.failed => got.usage = s.usage
        /\ ~got.failed => got.fb[o] = VideoFb(v) /\ got.usage = [s.usage EXCEPT ![o] = use]
    BY <1>0, <2>0, <2>1, PoolGetIs, VideoFbIs
  <2>3. t = IF got.failed THEN got ELSE [got EXCEPT !.port[v] = q]
    BY <1>3 DEF GetOverlay
  <2>4. Steps(s, t)
    BY <1>0, GetOverlayType
  <2> HIDE DEF got, o, t, use
  <2>5. CASE got.failed
    <3>1. CrtcSteps(s, got)
      BY <1>0, <2>1, <2>2, <2>5, TunedFree DEF Tuned
    <3> QED  BY <2>2, <2>3, <2>5, <3>1, CrtcGood, CrtcPortSteps DEF Apart, t
  <2>6. CASE ~got.failed
    <3>1. got \in Device /\ got.port = s.port /\ got.port[v] \in Port
      BY <2>2, PortOf DEF Apart, Steps, Running
    <3>2. /\ q.ovl = o /\ q.state = s.port[v].state /\ q.crtc = s.port[v].crtc
      BY <3>1 DEF Port
    <3> HIDE DEF q
    <3>3. /\ t.usage = [s.usage EXCEPT ![o] = use] /\ t.crtcOvl = s.crtcOvl
          /\ t.key = s.key /\ t.mem = s.mem /\ t.size = s.size /\ t.buffered = s.buffered
          /\ t.mapped = s.mapped /\ t.rotation = s.rotation
          /\ t.on = s.on /\ t.out = s.out /\ t.server = s.server /\ t.fb[o] = VideoFb(v)
          /\ \A p \in Overlay : p # o => t.fb[p] = s.fb[p]
          /\ t.port[v] = q /\ \A w \in Ports : w # v => t.port[w] = s.port[w]
      BY <2>2, <2>3, <2>6, <3>1 DEF Apart, Device
    <3>4. \A w \in Ports : Ovl(s, w) # NoOverlay => Ovl(s, w) \in Overlay /\ Ovl(s, w) # o
      BY <1>0, <2>1, PortFields DEF Shared, PoolOf, OrNone, Xv
    <3>5. /\ \A w \in Ports : w # v => Ovl(t, w) = Ovl(s, w)
          /\ \A w \in Ports : Active(t, w) <=> Active(s, w)
          /\ Ovl(t, v) = o /\ t.port[v].crtc = s.port[v].crtc
      BY <3>2, <3>3 DEF Ovl, Active
    <3>6. PoolOf(t)
      <4>1. \A p \in Overlay, d \in Crtc : t.usage[p] = d <=> t.crtcOvl[d] = p
        <5>1. use \notin Crtc /\ "NONE" \notin Crtc
          BY <2>0 DEF Xv, Crtc
        <5> QED  BY <1>0, <2>1, <3>3, <5>1 DEF Shared, PoolOf, Device
      <4>2. \A p \in Overlay : t.usage[p] \in Xv <=> \E w \in Ports : Ovl(t, w) = p
        BY <1>0, <1>3, <2>0, <2>1, <3>3, <3>4, <3>5, OverlaysAssumption
           DEF Shared, PoolOf, Device, Overlay
      <4>3. \A u, w \in Ports : Ovl(t, u) # NoOverlay /\ Ovl(t, u) = Ovl(t, w) => u = w
        BY <1>0, <3>4, <3>5 DEF Shared, PoolOf
      <4> QED  BY <4>1, <4>2, <4>3 DEF PoolOf
    <3>7. o \notin s.on /\ o # NoOverlay
      BY <1>0, <2>1, OverlaysAssumption DEF Shared, Overlay
    <3>8. Shared(t)
      <4>1. \A p \in t.on : t.usage[p] # "NONE"
        BY <1>0, <3>3, <3>7 DEF Shared, Device
      <4>2. \A w \in Ports :
              /\ Ovl(t, w) # NoOverlay => t.fb[Ovl(t, w)] = VideoFb(w)
              /\ Ovl(t, w) \in t.on => Active(t, w)
              /\ Active(t, w) => Ovl(t, w) # NoOverlay
        <5> TAKE w \in Ports
        <5>1. CASE w = v
          BY <3>3, <3>5, <3>7, <5>1
        <5>2. CASE w # v
          BY <1>0, <3>3, <3>4, <3>5, <5>2 DEF Shared
        <5> QED  BY <5>1, <5>2
      <4> QED  BY <1>0, <3>3, <3>6, <4>1, <4>2 DEF Shared
    <3>9. \A w \in Ports \ {v} : Spared(s, t, w)
      BY <3>3, <3>4, <3>5 DEF Spared, Kept
    <3>10. PortSteps(s, t, v)
      BY <2>4, <3>3, <3>8, <3>9 DEF PortSteps, Others, Doomed
    <3>11. ~Active(s, v) /\ s.port[v].crtc = NoCrtc
      BY <1>0, <1>3 DEF Shared, Good, PortFine
    <3>12. Rests(t, v)
      BY <3>5, <3>11 DEF Rests
    <3>13. GoodBut(t, v)
      BY <3>10, PortStepsGood DEF Good, GoodBut
    <3>14. Good(t)
      BY <3>12, <3>13, RestsFine, GoodButOne
    <3> QED  BY <3>3, <3>5, <3>7, <3>10, <3>14 DEF t
  <2> QED  BY <2>5, <2>6
<1> QED  BY <1>1, <1>2, <1>3

(* And gives it back. *)
LEMMA PutOverlayIs ==
  ASSUME NEW s \in Running, NEW v \in Ports,
         s.server = "up" => Ovl(s, v) \notin s.on /\ ~Active(s, v)
  PROVE  LET t == PutOverlay(s, v) IN
         /\ PortSteps(s, t, v) /\ t.server = s.server
         /\ Rests(s, v) => Rests(t, v)
         /\ (s.server = "up" /\ ~s.failed) => ~t.failed
<1> DEFINE o == Ovl(s, v)
           p == PoolPut(s, o)
           q == [p.port[v] EXCEPT !.ovl = NoOverlay]
           t == PutOverlay(s, v)
<1>0. s \in Device
  BY DEF Running
<1>1. CASE o = NoOverlay
  BY <1>1, PortStepsNot DEF PutOverlay
<1>2. CASE o # NoOverlay
  <2>1. o \in Overlay
    BY <1>2, PortFields DEF OrNone
  <2>2. /\ Apart(s, p, o) /\ p.on = s.on /\ p.out = s.out
        /\ p.usage = [s.usage EXCEPT ![o] = "NONE"]
        /\ s.server = "up" => ~p.failed
    BY <2>1, PoolPutIs
  <2>3. t = [p EXCEPT !.port[v] = q]
    BY <1>2 DEF PutOverlay
  <2>4. Steps(s, t)
    BY PutOverlayType
  <2> HIDE DEF p, t
  <2>5. p \in Device /\ p.port = s.port /\ p.port[v] \in Port
    BY <2>2, PortOf DEF Apart, Steps, Running
  <2>6. /\ q.ovl = NoOverlay /\ q.state = s.port[v].state /\ q.crtc = s.port[v].crtc
    BY <2>5 DEF Port
  <2> HIDE DEF q
  <2>7. /\ t.usage = [s.usage EXCEPT ![o] = "NONE"] /\ t.crtcOvl = s.crtcOvl
        /\ t.key = s.key /\ t.mem = s.mem /\ t.size = s.size /\ t.buffered = s.buffered
        /\ t.mapped = s.mapped /\ t.rotation = s.rotation
        /\ t.on = s.on /\ t.out = s.out /\ t.server = s.server /\ t.failed = p.failed
        /\ \A r \in Overlay : r # o => t.fb[r] = s.fb[r]
        /\ t.port[v] = q /\ \A w \in Ports : w # v => t.port[w] = s.port[w]
    BY <2>2, <2>3, <2>5 DEF Apart, Device
  <2>8. /\ \A w \in Ports : w # v => Ovl(t, w) = Ovl(s, w)
        /\ \A w \in Ports : Active(t, w) <=> Active(s, w)
        /\ Ovl(t, v) = NoOverlay /\ t.port[v].crtc = s.port[v].crtc
    BY <2>6, <2>7 DEF Ovl, Active
  <2>9. ASSUME Shared(s), s.server = "up" PROVE Shared(t) /\ Others(s, t, v)
    <3>1. \A w \in Ports : w # v /\ Ovl(s, w) # NoOverlay => Ovl(s, w) \in Overlay /\ Ovl(s, w) # o
      BY <2>9, <1>2, PortFields DEF Shared, PoolOf, OrNone
    <3>2. s.usage[o] \in Xv
      BY <2>1, <2>9 DEF Shared, PoolOf
    <3>3. NoOverlay \notin Overlay
      BY OverlaysAssumption DEF Overlay
    <3>4. PoolOf(t)
      <4>1. \A r \in Overlay, d \in Crtc : t.usage[r] = d <=> t.crtcOvl[d] = r
        <5>1. s.usage[o] \notin Crtc /\ "NONE" \notin Crtc
          BY <3>2 DEF Xv, Crtc
        <5> QED  BY <1>0, <2>1, <2>9, <2>7, <5>1 DEF Shared, PoolOf, Device
      <4>2. \A r \in Overlay : t.usage[r] \in Xv <=> \E w \in Ports : Ovl(t, w) = r
        <5>1. "NONE" \notin Xv
          BY DEF Xv
        <5>2. \A r \in Overlay : r # o => t.usage[r] = s.usage[r]
          BY <1>0, <2>7 DEF Device
        <5>3. t.usage[o] = "NONE"
          BY <1>0, <2>1, <2>7 DEF Device
        <5> QED  BY <2>8, <2>9, <3>1, <3>3, <5>1, <5>2, <5>3 DEF Shared, PoolOf
      <4>3. \A u, w \in Ports : Ovl(t, u) # NoOverlay /\ Ovl(t, u) = Ovl(t, w) => u = w
        BY <2>8, <2>9 DEF Shared, PoolOf
      <4> QED  BY <4>1, <4>2, <4>3 DEF PoolOf
    <3>5. \A r \in t.on : t.usage[r] # "NONE"
      BY <1>0, <2>7, <2>9 DEF Shared, Device
    <3>6. \A w \in Ports :
            /\ Ovl(t, w) # NoOverlay => t.fb[Ovl(t, w)] = VideoFb(w)
            /\ Ovl(t, w) \in t.on => Active(t, w)
            /\ Active(t, w) => Ovl(t, w) # NoOverlay
      <4> TAKE w \in Ports
      <4>1. CASE w = v
        <5>1. NoOverlay \notin t.on
          BY <1>0, <2>7, <3>3 DEF Device
        <5> QED  BY <2>8, <2>9, <4>1, <5>1
      <4>2. CASE w # v
        BY <2>7, <2>8, <2>9, <3>1, <4>2 DEF Shared
      <4> QED  BY <4>1, <4>2
    <3>7. Shared(t)
      BY <2>7, <2>9, <3>4, <3>5, <3>6 DEF Shared
    <3>8. \A w \in Ports \ {v} : Spared(s, t, w)
      BY <2>7, <2>8, <3>1 DEF Spared, Kept
    <3> QED  BY <2>7, <3>7, <3>8 DEF Others
  <2>10. PortSteps(s, t, v)
    BY <2>4, <2>7, <2>9 DEF PortSteps, Doomed
  <2> QED  BY <2>2, <2>7, <2>8, <2>10 DEF Rests, t
<1> QED  BY <1>1, <1>2

(* A port that is given up leaves the others as they were. *)
LEMMA GiveUpIs ==
  ASSUME NEW s, NEW v \in Ports, GoodBut(s, v)
  PROVE  Good(GiveUp(s, v)) /\ GiveUp(s, v).server = s.server
<1> DEFINE a == Stop(s, v)
           t == PutOverlay(a, v)
<1>1. /\ Good(a) /\ a.server = s.server
      /\ a.server = "up" => Rests(a, v) /\ ~a.failed /\ Ovl(a, v) \notin a.on
  BY StopIs
<1> HIDE DEF a
<1>2. a \in Running /\ GoodBut(a, v)
  BY <1>1 DEF Good, GoodBut, Safe
<1>3. PortSteps(a, t, v) /\ t.server = a.server /\ (Rests(a, v) => Rests(t, v))
  BY <1>1, <1>2, PutOverlayIs DEF Rests
<1> HIDE DEF t
<1>4. GoodBut(t, v)
  BY <1>2, <1>3, PortStepsGood
<1>5. Good(t)
  BY <1>1, <1>3, <1>4, GoodButOne, RestsFine
<1> QED  BY <1>1, <1>3, <1>5 DEF GiveUp, a, t

(* The memory of a port is laid out as what it shows needs it. *)
Stock(s, v) ==
  IF s.port[v].kind = "image" THEN s.buffered[VideoFb(v)] /\ s.mem[VideoFb(v)] # 0
  ELSE ~s.buffered[VideoFb(v)]

(* A port that has all it needs to be shown. *)
Ready(s, v) ==
  /\ Ovl(s, v) # NoOverlay
  /\ ~s.port[v].dirty /\ s.port[v].crtc # NoCrtc => Active(s, v)
  /\ Aimed(s, v) /\ Filled(s, v) /\ Stock(s, v) /\ Placed(s, v)

(* Nothing that a port depends on has changed but its memory. *)
LEMMA FineAgain ==
  ASSUME NEW s, NEW t, NEW v \in Ports, PortFine(s, v),
         t.out = s.out, t.rotation = s.rotation, t.key = s.key,
         t.port[v].state = s.port[v].state, t.port[v].ovl = s.port[v].ovl,
         t.port[v].crtc = s.port[v].crtc, t.port[v].turn = s.port[v].turn,
         t.port[v].rotation = s.port[v].rotation, t.port[v].noKey = s.port[v].noKey,
         t.port[v].timer = s.port[v].timer, Filled(t, v),
         Ovl(s, v) \in t.on => Ovl(s, v) \in s.on
  PROVE  PortFine(t, v)
<1>1. CrtcTurn(t, s.port[v].crtc) = CrtcTurn(s, s.port[v].crtc)
  BY DEF CrtcTurn
<1> QED  BY <1>1 DEF PortFine, Aimed, Guarded, Placed, Active, Ovl

(* The memory of an image is there, or the port is given up. *)
LEMMA AllocMemIs ==
  ASSUME NEW s, NEW v \in Ports, NEW n \in Sizes, Good(s), s.server = "up", ~s.failed,
         Ovl(s, v) # NoOverlay
  PROVE  LET t == AllocMem(s, v, n) IN
         /\ PortSteps(s, t, v) /\ t.server = "up"
         /\ ~t.failed => /\ PortFine(t, v) /\ Ovl(t, v) # NoOverlay
                         /\ t.buffered[VideoFb(v)] /\ t.mem[VideoFb(v)] # 0
<1> DEFINE i == Idle(s, v)
           got == FbAlloc(i, VideoFb(v), n)
           q == [got.port[v] EXCEPT !.allocated = TRUE, !.dirty = TRUE]
           e == [got EXCEPT !.port[v] = q]
           t == AllocMem(s, v, n)
<1>0. s \in Running /\ Shared(s) /\ PortFine(s, v)
  BY DEF Good, Safe
<1>1. CASE s.port[v].allocated /\ FbCheckSize(s, VideoFb(v), n)
  <2>1. s.buffered[VideoFb(v)] /\ s.size[VideoFb(v)] = n /\ n # 0
    BY <1>1, OverlaysAssumption DEF FbCheckSize
  <2>2. s.mem[VideoFb(v)] # 0
    BY <1>0, <2>1, VideoFbIs DEF Shared
  <2>3. t = s
    BY <1>1 DEF AllocMem
  <2> QED  BY <1>0, <2>1, <2>2, <2>3, PortStepsNot
<1>2. CASE ~(s.port[v].allocated /\ FbCheckSize(s, VideoFb(v), n))
  <2>1. /\ PortSteps(s, i, v)
        /\ i.port = s.port /\ i.out = s.out /\ i.fb = s.fb /\ i.mem = s.mem
        /\ i.size = s.size /\ i.rotation = s.rotation
        /\ i.key = s.key /\ i.server = "up" /\ Ovl(s, v) \notin i.on
    BY <1>0, IdleIs
  <2>2. i.size[VideoFb(v)] # 0 => i.mem[VideoFb(v)] # 0
    <3> HIDE DEF i
    <3> QED  BY <1>0, <2>1, VideoFbIs DEF Shared
  <2>3. i \in Running
    <3> HIDE DEF i
    <3> QED  BY <2>1 DEF PortSteps, Steps
  <2>4. /\ PortSteps(i, got, v)
        /\ got.port = i.port /\ got.out = i.out /\ got.on = i.on
        /\ got.rotation = i.rotation /\ got.key = i.key /\ got.server = i.server
        /\ ~got.failed => got.buffered[VideoFb(v)] /\ got.mem[VideoFb(v)] # 0
    <3> HIDE DEF i
    <3> QED  BY <2>2, <2>3, AllocIs
  <2>5. t = IF got.failed THEN got ELSE e
    BY <1>2 DEF AllocMem
  <2> HIDE DEF i, got, t
  <2>6. PortSteps(s, got, v) /\ got.server = "up"
    BY <2>1, <2>4, PortStepsAgain
  <2>7. Safe(got) /\ got \in Running
    BY <2>6, PortStepsGood DEF Good, GoodBut, Safe
  <2>8. CASE ~got.failed
    <3>1. got.port[v] \in Port /\ got.port = s.port
      BY <2>1, <2>4, <2>7, PortOf
    <3>2. /\ q \in Port /\ q.ovl = s.port[v].ovl /\ q.state = s.port[v].state
          /\ q.crtc = s.port[v].crtc /\ q.turn = s.port[v].turn
          /\ q.rotation = s.port[v].rotation /\ q.noKey = s.port[v].noKey
          /\ q.timer = s.port[v].timer /\ q.dirty
      BY <3>1 DEF Port
    <3>3. PortOnly(got, e, v) /\ e.port[v] = q
      <4> HIDE DEF q
      <4> QED  BY <2>7, <3>1, <3>2, PortKeepIs DEF Ovl
    <3> HIDE DEF e, q
    <3>4. PortSteps(s, e, v)
      BY <2>6, <3>3, PortStepsAgain DEF PortOnly
    <3>5. PortFine(e, v)
      BY <1>0, <2>1, <2>4, <3>2, <3>3, FineAgain DEF PortOnly, Filled
    <3>6. Ovl(e, v) # NoOverlay
      BY <3>2, <3>3 DEF Ovl
    <3> QED  BY <2>4, <2>5, <2>6, <2>8, <3>3, <3>4, <3>5, <3>6 DEF PortOnly, t
  <2> QED  BY <2>5, <2>6, <2>8 DEF t
<1> QED  BY <1>1, <1>2

(* The port is used for an image, or for a video. *)
LEMMA AsKindIs ==
  ASSUME NEW s, NEW v \in Ports, NEW kind \in {"image", "video"}, GoodBut(s, v), s.server = "up"
  PROVE  LET t == AsKind(s, v, kind) IN
         /\ PortSteps(s, t, v) /\ t.server = "up" /\ t.failed = s.failed
         /\ ~t.failed /\ PortFine(s, v) /\ Ovl(s, v) # NoOverlay =>
              /\ PortFine(t, v) /\ Ovl(t, v) # NoOverlay /\ t.port[v].kind = kind
              /\ t.buffered = s.buffered /\ t.mem = s.mem
<1> DEFINE q == [s.port[v] EXCEPT !.kind = kind]
           e == [s EXCEPT !.port[v] = q]
<1>0. s \in Running /\ Safe(s)
  BY DEF GoodBut, Safe
<1>1. CASE s.failed
  BY <1>0, <1>1, PortStepsNot DEF AsKind
<1>2. CASE ~s.failed
  <2>1. s.port[v] \in Port
    BY <1>0, PortOf
  <2>2. /\ q \in Port /\ q.ovl = s.port[v].ovl /\ q.state = s.port[v].state
        /\ q.crtc = s.port[v].crtc /\ q.turn = s.port[v].turn
        /\ q.rotation = s.port[v].rotation /\ q.noKey = s.port[v].noKey
        /\ q.timer = s.port[v].timer /\ q.dirty = s.port[v].dirty /\ q.kind = kind
    BY <2>1 DEF Port
  <2>3. PortOnly(s, e, v) /\ e.port[v] = q
    <3> HIDE DEF q
    <3> QED  BY <1>0, <2>2, PortKeepIs DEF Ovl
  <2>4. AsKind(s, v, kind) = e
    BY <1>2 DEF AsKind
  <2> HIDE DEF q, e
  <2>5. ASSUME PortFine(s, v) PROVE PortFine(e, v)
    <3>1. Filled(e, v)
      BY <2>2, <2>3, <2>5 DEF Filled, PortFine, PortOnly, Active
    <3> QED  BY <2>2, <2>3, <2>5, <3>1, FineAgain DEF PortOnly
  <2>6. Ovl(e, v) = Ovl(s, v)
    BY <2>2, <2>3 DEF Ovl
  <2> QED  BY <2>2, <2>3, <2>4, <2>5, <2>6 DEF PortOnly
<1> QED  BY <1>1, <1>2

(* Ending a clone does not end the server. *)
LEMMA CloneStopUp ==
  ASSUME NEW s \in Running, NEW v \in Ports, s.server = "up", Shared(s)
  PROVE  CloneStop(s, v).server = "up" /\ (~s.failed => ~CloneStop(s, v).failed)
<1> DEFINE c == s.port[v].cloneCrtc
           q == [s.port[v] EXCEPT !.cloneCrtc = NoCrtc]
           r == [s EXCEPT !.port[v] = q]
           m == SetModeMajor(r, c)
<1>0. s \in Device
  BY DEF Running
<1>1. CloneStop(s, v) = IF c = NoCrtc \/ ~Lit(s, c) THEN r ELSE Ignoring(m)
  BY DEF CloneStop
<1>2. r.server = "up" /\ r.failed = s.failed /\ r.enabled = s.enabled
  BY <1>0 DEF Device
<1>3. CASE c = NoCrtc \/ ~Lit(s, c)
  BY <1>1, <1>2, <1>3
<1>4. CASE ~(c = NoCrtc \/ ~Lit(s, c))
  <2>1. c \in Crtc /\ r.enabled[c]
    BY <1>2, <1>4, PortFields DEF Lit
  <2>2. q \in Port /\ q.ovl = s.port[v].ovl /\ q.state = s.port[v].state
    <3>1. s.port[v] \in Port
      BY PortOf
    <3> QED  BY <3>1 DEF Port
  <2>3. PortSteps(s, r, v)
    <3> HIDE DEF q
    <3>1. q.state = "active" => q.ovl # NoOverlay
      BY <2>2 DEF Shared, Active, Ovl
    <3> QED  BY <2>2, <3>1, PortSet DEF Active, Ovl
  <2> HIDE DEF r, c
  <2>4. r \in Running /\ Shared(r)
    BY <1>2, <2>3 DEF PortSteps, Steps
  <2>5. ModeSet(r, m, c)
    BY <2>1, <2>4, SetModeMajorIs
  <2> HIDE DEF m
  <2>6. m.server = "up" /\ m \in Device
    BY <1>2, <2>4, <2>5 DEF ModeSet, CrtcSteps, Steps, Running
  <2>7. CloneStop(s, v) = Ignoring(m)
    BY <1>1, <1>4
  <2> QED  BY <2>6, <2>7 DEF Ignoring, Device
<1> QED  BY <1>3, <1>4

(* The clone has ended, the overlay is dark, the port is to be set up again. *)
LEMMA LeaveCrtcIs ==
  ASSUME NEW s, NEW v \in Ports, GoodBut(s, v), s.server = "up", ~s.failed,
         Ovl(s, v) # NoOverlay
  PROVE  LET t == LeaveCrtc(s, v) IN
         /\ PortSteps(s, t, v) /\ t.server = "up" /\ ~t.failed
         /\ Ovl(t, v) = Ovl(s, v) /\ Ovl(t, v) \notin t.on
         /\ t.port[v].kind = s.port[v].kind /\ t.port[v].dirty
         /\ t.buffered = s.buffered /\ t.mem = s.mem
<1> DEFINE o == Ovl(s, v)
           k == CloneStop(s, v)
           d == OverlayDisable(k, o)
           i == Ignoring(d)
           q == [i.port[v] EXCEPT !.dirty = TRUE, !.updateClone = TRUE]
           e == [i EXCEPT !.port[v] = q]
<1>0. s \in Running /\ Shared(s) /\ o \in Overlay
  BY PortFields DEF GoodBut, Safe, OrNone
<1>1. CrtcSteps(s, k) /\ k.server = "up" /\ ~k.failed
  BY <1>0, CloneStopIs, CloneStopUp
<1> HIDE DEF k
<1>2. /\ k \in Running /\ Shared(k) /\ Ovl(k, v) = o /\ k.port[v].kind = s.port[v].kind
      /\ k.buffered = s.buffered /\ k.mem = s.mem /\ PortSteps(s, k, v)
  BY <1>0, <1>1, CrtcPortSteps DEF CrtcSteps, Steps, Framed, Kept
<1>3. /\ Tuned(k, d, o) /\ d.fb = k.fb /\ d.out = k.out /\ d.failed = k.failed
      /\ o \notin d.on /\ d.on \subseteq k.on
  BY <1>0, <1>1, <1>2, DisableIs
<1> HIDE DEF d
<1>4. PortSteps(k, d, v) /\ d \in Running
  BY <1>2, <1>3, TunedPort DEF Tuned, Apart, Steps
<1>5. /\ Tuned(d, i, o) /\ i.fb = d.fb /\ i.on = d.on /\ i.out = d.out /\ ~i.failed
      /\ CrtcSteps(d, i)
  BY <1>1, <1>3, <1>4, IgnoringTuned, CrtcStepsIgnoring DEF Tuned, Apart
<1> HIDE DEF i
<1>6. PortSteps(s, i, v) /\ i.server = "up" /\ i \in Running
  BY <1>1, <1>2, <1>3, <1>4, <1>5, CrtcPortSteps, PortStepsAgain DEF Tuned, Apart, Steps
<1>7. i.port = k.port /\ i.buffered = s.buffered /\ i.mem = s.mem
  BY <1>2, <1>3, <1>5 DEF Tuned, Apart
<1>8. /\ q \in Port /\ q.ovl = i.port[v].ovl /\ q.state = i.port[v].state
      /\ q.kind = i.port[v].kind /\ q.dirty
  <2>1. i.port[v] \in Port
    BY <1>6, PortOf
  <2> QED  BY <2>1 DEF Port
<1> HIDE DEF q
<1>9. Safe(i)
  BY <1>6, PortStepsGood DEF GoodBut
<1>10. PortOnly(i, e, v) /\ e.port[v] = q
  BY <1>6, <1>8, <1>9, PortKeepIs DEF Ovl
<1>11. LeaveCrtc(s, v) = e
  BY DEF LeaveCrtc, e, i, d, k, q
<1> HIDE DEF e
<1>12. PortSteps(s, e, v)
  BY <1>6, <1>10, PortStepsAgain DEF PortOnly
<1>13. Ovl(e, v) = o /\ e.port[v].kind = s.port[v].kind /\ e.port[v].dirty
  BY <1>2, <1>7, <1>8, <1>10 DEF Ovl
<1> QED
  BY <1>3, <1>5, <1>6, <1>7, <1>10, <1>11, <1>12, <1>13 DEF PortOnly

(* The clone that is chosen is nothing the port needs. *)
LEMMA ChooseCloneIs ==
  ASSUME NEW s, NEW v \in Ports, Safe(s), ~s.failed, Ready(s, v)
  PROVE  LET t == ChooseClone(s, v) IN
         /\ PortOnly(s, t, v) /\ Ready(t, v)
         /\ t.port[v].kind = s.port[v].kind
<1> DEFINE q == [s.port[v] EXCEPT !.cloneCrtc = GetCloneCrtc(s, v)]
           e == [s EXCEPT !.port[v] = q]
<1>0. s \in Running /\ s.port[v] \in Port
  BY PortOf DEF Safe
<1>1. /\ q \in Port /\ q.ovl = s.port[v].ovl /\ q.state = s.port[v].state
      /\ q.crtc = s.port[v].crtc /\ q.turn = s.port[v].turn
      /\ q.rotation = s.port[v].rotation /\ q.dirty = s.port[v].dirty
      /\ q.kind = s.port[v].kind
  BY <1>0, GetCloneCrtcType DEF Port
<1> HIDE DEF q
<1>2. PortOnly(s, e, v) /\ e.port[v] = q
  BY <1>0, <1>1, PortKeepIs DEF Ovl
<1>3. ChooseClone(s, v) = e
  BY DEF ChooseClone, q
<1> HIDE DEF e
<1>4. Ready(e, v)
  BY <1>1, <1>2 DEF Ready, PortOnly, Aimed, Filled, Stock, Placed, Ovl, Active, CrtcTurn
<1> QED  BY <1>1, <1>2, <1>3, <1>4

(* The overlay is on the display that the port is now shown on, or on none. *)
LEMMA ArriveIs ==
  ASSUME NEW s, NEW v \in Ports, NEW c \in Crtc \cup {NoCrtc}, Safe(s), s.server = "up",
         ~s.failed => /\ Ovl(s, v) # NoOverlay /\ Stock(s, v)
                      /\ c # NoCrtc => s.out[Ovl(s, v)] = c
                      /\ Ovl(s, v) \notin s.on
  PROVE  LET t == Arrive(s, v, c) IN
         /\ PortSteps(s, t, v) /\ t.server = "up"
         /\ ~t.failed => Ready(t, v) /\ t.port[v].kind = s.port[v].kind
<1> DEFINE q == [s.port[v] EXCEPT !.crtc = c]
           m == [s EXCEPT !.port[v] = q]
           p == TurnedPort(m, v)
           e == [m EXCEPT !.port[v] = p]
<1>0. s \in Running /\ s.port[v] \in Port
  BY PortOf DEF Safe
<1>1. CASE s.failed
  BY <1>0, <1>1, PortStepsNot DEF Arrive
<1>2. CASE ~s.failed
  <2>1. /\ q \in Port /\ q.ovl = s.port[v].ovl /\ q.state = s.port[v].state
        /\ q.crtc = c /\ q.rotation = s.port[v].rotation /\ q.kind = s.port[v].kind
    BY <1>0 DEF Port
  <2> HIDE DEF q
  <2>2. PortOnly(s, m, v) /\ m.port[v] = q
    BY <1>0, <2>1, PortKeepIs DEF Ovl
  <2>3. Arrive(s, v, c) = UpdateRotation(m, v)
    BY <1>2 DEF Arrive, q
  <2> HIDE DEF m
  <2>4. m \in Running /\ Safe(m) /\ m.server = "up"
    BY <1>0, <2>2 DEF PortOnly, PortSteps, Steps, Safe
  <2>5. UpdateRotation(m, v) = e
    BY <2>4, UpdateRotationIs
  <2>6. /\ p \in Port /\ p.ovl = q.ovl /\ p.state = q.state
        /\ p.crtc = c /\ p.rotation = q.rotation /\ p.kind = q.kind /\ p.dirty
        /\ p.turn = update_rotation(q.rotation, CrtcTurn(m, c))
    <3>1. p \in Port
      BY <2>4, TurnedPortType
    <3> QED  BY <2>1, <2>2, <3>1 DEF TurnedPort, Port
  <2> HIDE DEF p
  <2>7. PortOnly(m, e, v) /\ e.port[v] = p
    BY <2>2, <2>4, <2>6, PortKeepIs DEF Ovl
  <2> HIDE DEF e
  <2>8. PortSteps(s, e, v) /\ e.server = "up"
    BY <2>2, <2>4, <2>7, PortStepsAgain DEF PortOnly
  <2>9. CrtcTurn(e, c) = CrtcTurn(m, c)
    BY <2>7 DEF PortOnly, CrtcTurn
  <2>10. Ovl(e, v) = Ovl(s, v)
    BY <2>1, <2>6, <2>7 DEF Ovl
  <2>11. Aimed(e, v)
    BY <1>2, <2>2, <2>6, <2>7, <2>9, <2>10 DEF Aimed, PortOnly
  <2>12. Stock(e, v)
    BY <1>2, <2>1, <2>2, <2>6, <2>7 DEF Stock, PortOnly
  <2>13. Ready(e, v)
    <3>1. Placed(e, v)
      BY <1>2, <2>2, <2>7, <2>10 DEF Placed, PortOnly
    <3> QED  BY <1>2, <2>6, <2>7, <2>10, <2>11, <2>12, <3>1 DEF Ready, Filled
  <2> QED  BY <2>1, <2>3, <2>5, <2>6, <2>7, <2>8, <2>13
<1> QED  BY <1>1, <1>2

(* The port is where the clipping has found it. *)
LEMMA RetargetIs ==
  ASSUME NEW s, NEW v \in Ports, NEW c \in Crtc \cup {NoCrtc}, GoodBut(s, v), s.server = "up",
         ~s.failed => PortFine(s, v) /\ Ovl(s, v) # NoOverlay /\ Stock(s, v)
  PROVE  LET t == Retarget(s, v, c) IN
         /\ PortSteps(s, t, v) /\ t.server = "up"
         /\ ~t.failed => Ready(t, v) /\ t.port[v].kind = s.port[v].kind
<1> DEFINE l == LeaveCrtc(s, v)
           a == AssignDisplay(l, v, c)
           r == Arrive(a, v, c)
           m == IF c = s.port[v].crtc THEN s ELSE r
           t == Retarget(s, v, c)
<1>0. s \in Running /\ Safe(s)
  BY DEF GoodBut, Safe
<1>1. CASE s.failed
  BY <1>0, <1>1, PortStepsNot DEF Retarget
<1>2. CASE ~s.failed
  <2>1. t = ChooseClone(m, v)
    BY <1>2 DEF Retarget
  <2> HIDE DEF t
  <2>2. /\ PortSteps(s, m, v) /\ m.server = "up"
        /\ ~m.failed => Ready(m, v) /\ m.port[v].kind = s.port[v].kind
    <3>1. CASE c = s.port[v].crtc
      BY <1>0, <1>2, <3>1, PortStepsNot DEF Ready, PortFine
    <3>2. CASE c # s.port[v].crtc
      <4>1. /\ PortSteps(s, l, v) /\ l.server = "up" /\ ~l.failed
            /\ Ovl(l, v) = Ovl(s, v) /\ Ovl(l, v) \notin l.on
            /\ l.port[v].kind = s.port[v].kind
            /\ l.buffered = s.buffered /\ l.mem = s.mem
        BY <1>2, LeaveCrtcIs
      <4> HIDE DEF l
      <4>2. GoodBut(l, v) /\ Stock(l, v) /\ l \in Running
        BY <1>2, <4>1, PortStepsGood DEF Stock, GoodBut, Safe
      <4>3. /\ PortSteps(l, a, v) /\ a.server = "up" /\ Ovl(a, v) = Ovl(l, v) /\ Stock(a, v)
            /\ ~a.failed /\ c # NoCrtc => a.out[Ovl(l, v)] = c
            /\ a.port[v].kind = l.port[v].kind /\ Ovl(l, v) \notin a.on
        <5>1. CASE c = NoCrtc
          BY <4>1, <4>2, <5>1, PortStepsNot DEF AssignDisplay
        <5>2. CASE c # NoCrtc
          <6>1. Ovl(l, v) \in Overlay /\ c \in Crtc
            BY <1>2, <4>1, <4>2, <5>2, PortFields DEF OrNone
          <6>2. a = OutputAssignOverlay(l, c, Ovl(l, v))
            BY <5>2 DEF AssignDisplay
          <6> HIDE DEF a
          <6>3. /\ Tuned(l, a, Ovl(l, v)) /\ a.fb = l.fb /\ a.on \subseteq l.on
                /\ ~a.failed => a.out[Ovl(l, v)] = c
            BY <4>2, <6>1, <6>2, OutputIs
          <6>4. PortSteps(l, a, v)
            BY <1>2, <4>1, <4>2, <6>3, TunedPort
          <6> QED  BY <4>1, <4>2, <6>3, <6>4 DEF Tuned, Apart, Stock, Ovl
        <5> QED  BY <5>1, <5>2
      <4> HIDE DEF a
      <4>4. PortSteps(s, a, v) /\ Safe(a)
        BY <4>1, <4>3, PortStepsAgain, PortStepsGood DEF GoodBut
      <4>5. PortSteps(a, r, v) /\ r.server = "up" /\ (~r.failed => Ready(r, v))
            /\ (~r.failed => r.port[v].kind = a.port[v].kind)
        BY <1>2, <4>1, <4>3, <4>4, ArriveIs
      <4> HIDE DEF r
      <4> QED  BY <3>2, <4>1, <4>3, <4>4, <4>5, PortStepsAgain
    <3> QED  BY <3>1, <3>2
  <2> HIDE DEF m
  <2>3. Safe(m) /\ m \in Running
    BY <2>2, PortStepsGood DEF GoodBut, Safe
  <2>4. CASE m.failed
    BY <2>1, <2>2, <2>4 DEF ChooseClone, t
  <2>5. CASE ~m.failed
    BY <2>1, <2>2, <2>3, <2>5, ChooseCloneIs, PortStepsAgain DEF PortOnly, t
  <2> QED  BY <2>4, <2>5
<1> QED  BY <1>1, <1>2

-----------------------------------------------------------------------------
(* Showing it. *)

(* Its memory is mapped. *)
LEMMA MapIs ==
  ASSUME NEW s \in Running, NEW v \in Ports, s.mem[VideoFb(v)] # 0, ~s.failed
  PROVE  LET t == Map(s, v) IN
         /\ PortSteps(s, t, v)
         /\ t.port = s.port /\ t.out = s.out /\ t.on = s.on /\ t.fb = s.fb /\ t.mem = s.mem
         /\ t.buffered = s.buffered /\ t.rotation = s.rotation
         /\ t.key = s.key /\ t.server = s.server
         /\ ~t.failed => t.mapped[VideoFb(v)]
<1> DEFINE f == VideoFb(v)
           h == [s EXCEPT !.fb = [o \in Overlay |-> f]]
           r == Require(s, HasMem(h, 0), "map")
           t == Map(s, v)
<1>0. s \in Device /\ f \in Fb /\ 0 \in Overlay
  BY VideoFbIs DEF Running, Overlay
<1>1. Steps(s, t)
  BY MapType
<1>2. HasMem(h, 0)
  <2>1. h.fb[0] = f /\ h.mem = s.mem
    BY <1>0 DEF Device
  <2>2. f # NoFb
    BY <1>0, OverlaysAssumption DEF Fb
  <2> HIDE DEF h
  <2> QED  BY <2>1, <2>2 DEF HasMem
<1>3. r = s
  BY <1>2 DEF Require
<1>4. \/ t = s /\ s.mapped[f]
      \/ t = [r EXCEPT !.failed = TRUE] \/ t = [r EXCEPT !.mapped[f] = TRUE]
  BY DEF Map, FbMap
<1>5. \/ t = s /\ s.mapped[f]
      \/ t = [s EXCEPT !.failed = TRUE] \/ t = [s EXCEPT !.mapped[f] = TRUE]
  <2> HIDE DEF r, t
  <2> QED  BY <1>3, <1>4
<1> HIDE DEF t, f
<1>6. /\ t.port = s.port /\ t.out = s.out /\ t.on = s.on /\ t.fb = s.fb /\ t.mem = s.mem
      /\ t.buffered = s.buffered /\ t.rotation = s.rotation
      /\ t.key = s.key /\ t.server = s.server /\ t.size = s.size
      /\ t.usage = s.usage /\ t.crtcOvl = s.crtcOvl
      /\ ~t.failed => t.mapped[f]
      /\ \A g \in Fb : g # f => t.mapped[g] = s.mapped[g]
  <2>1. CASE t = s /\ s.mapped[f]
    BY <2>1
  <2>2. CASE t = [s EXCEPT !.failed = TRUE]
    BY <1>0, <2>2 DEF Device
  <2>3. CASE t = [s EXCEPT !.mapped[f] = TRUE]
    BY <1>0, <2>3 DEF Device
  <2> QED  BY <1>5, <2>1, <2>2, <2>3
<1>7. PortSteps(s, t, v)
  BY <1>1, <1>6, FbSteps DEF f
<1> QED  BY <1>6, <1>7 DEF t, f

(* A port that is shown, with its memory as its kind needs it. *)
Started(s, v) ==
  /\ Ovl(s, v) # NoOverlay /\ Active(s, v) /\ s.port[v].crtc # NoCrtc
  /\ Aimed(s, v) /\ Filled(s, v)
  /\ s.port[v].kind = "image" => s.mapped[VideoFb(v)]

(* It is set up, and shown if that has worked. *)
LEMMA StartVideoIs ==
  ASSUME NEW s, NEW v \in Ports, GoodBut(s, v), s.server = "up", ~s.failed,
         Ready(s, v), s.port[v].crtc # NoCrtc
  PROVE  LET t == StartVideo(s, v) IN
         /\ PortSteps(s, t, v) /\ t.server = "up"
         /\ ~t.failed => Started(t, v) /\ t.port[v].kind = s.port[v].kind
         /\ t.failed => s.port[v].kind = "image"
<1> DEFINE o == Ovl(s, v)
           u == OverlaySetup(s, o)
           p == Ignoring(u)
           r == IF s.port[v].kind = "image" THEN Map(p, v) ELSE p
           q == [r.port[v] EXCEPT !.dirty = FALSE, !.state = "active", !.updateClone = TRUE]
           e == [r EXCEPT !.port[v] = q]
           t == StartVideo(s, v)
<1>0. s \in Running /\ Shared(s) /\ o # NoOverlay
  BY DEF GoodBut, Safe, Ready
<1>1. o \in Overlay /\ s.fb[o] # NoFb
  <2>1. o \in Overlay /\ s.fb[o] = VideoFb(v)
    BY <1>0, PortFields DEF Shared, OrNone
  <2> QED  BY <2>1, VideoFbIs, OverlaysAssumption DEF Fb
<1>2. Tuned(s, u, o) /\ u.fb = s.fb /\ u.out = s.out /\ u.on = s.on
  BY <1>0, <1>1, SetupIs
<1>3. t = IF r.failed THEN r ELSE e
  BY ZenonT(40) DEF StartVideo
<1> HIDE DEF u, t
<1>4. PortSteps(s, u, v) /\ u \in Running
  BY <1>0, <1>2, TunedPort DEF Tuned, Apart, Steps
<1>5. /\ Tuned(u, p, o) /\ p.fb = u.fb /\ p.on = u.on /\ p.out = u.out /\ ~p.failed
      /\ CrtcSteps(u, p)
  BY <1>2, <1>4, IgnoringTuned, CrtcStepsIgnoring DEF Tuned, Apart
<1> HIDE DEF p
<1>6. /\ PortSteps(s, p, v) /\ p \in Running /\ p.server = "up"
      /\ p.port = s.port /\ p.mem = s.mem /\ p.buffered = s.buffered /\ p.out = s.out
      /\ p.rotation = s.rotation /\ p.mapped = s.mapped
  BY <1>2, <1>4, <1>5, CrtcPortSteps, PortStepsAgain DEF Tuned, Apart, Steps
<1>7. /\ PortSteps(p, r, v)
      /\ r.port = p.port /\ r.out = p.out /\ r.buffered = p.buffered
      /\ r.rotation = p.rotation /\ r.server = "up"
      /\ r.failed => s.port[v].kind = "image"
      /\ ~r.failed /\ s.port[v].kind = "image" => r.mapped[VideoFb(v)]
  <2>1. CASE s.port[v].kind = "image"
    <3>1. p.mem[VideoFb(v)] # 0
      BY <1>6, <2>1 DEF Ready, Stock
    <3> QED  BY <1>5, <1>6, <2>1, <3>1, MapIs
  <2>2. CASE s.port[v].kind # "image"
    BY <1>5, <1>6, <2>2, PortStepsNot
  <2> QED  BY <2>1, <2>2
<1> HIDE DEF r
<1>8. PortSteps(s, r, v)
  BY <1>6, <1>7, PortStepsAgain
<1>9. CASE r.failed
  BY <1>3, <1>7, <1>8, <1>9 DEF t
<1>10. CASE ~r.failed
  <2>1. r \in Running /\ Safe(r) /\ r.port[v] \in Port
    BY <1>8, PortStepsGood, PortOf DEF GoodBut, Safe
  <2>2. /\ q \in Port /\ q.ovl = s.port[v].ovl /\ q.state = "active"
        /\ q.crtc = s.port[v].crtc /\ q.turn = s.port[v].turn
        /\ q.rotation = s.port[v].rotation /\ ~q.dirty /\ q.kind = s.port[v].kind
    <3>1. r.port = s.port
      BY <1>6, <1>7
    <3> QED  BY <2>1, <3>1 DEF Port
  <2> HIDE DEF q
  <2>3. PortOnly(r, e, v) /\ e.port[v] = q
    BY <1>0, <1>6, <1>7, <2>1, <2>2, PortSetIs DEF Ovl
  <2> HIDE DEF e
  <2>4. PortSteps(s, e, v) /\ e.server = "up" /\ ~e.failed
    BY <1>7, <1>8, <1>10, <2>3, PortStepsAgain DEF PortOnly
  <2>5. Ovl(e, v) = o /\ Active(e, v) /\ e.port[v].crtc # NoCrtc
    BY <2>2, <2>3 DEF Ovl, Active
  <2>6. Aimed(e, v)
    BY <1>6, <1>7, <2>2, <2>3, <2>5 DEF Ready, Aimed, PortOnly, CrtcTurn
  <2>7. s.port[v].kind = "image" => e.mapped[VideoFb(v)]
    BY <1>7, <1>10, <2>3 DEF PortOnly
  <2>8. Filled(e, v)
    BY <1>6, <1>7, <2>3, <2>7 DEF Ready, Stock, Filled, PortOnly
  <2>9. Started(e, v)
    BY <1>0, <2>2, <2>3, <2>5, <2>6, <2>7, <2>8 DEF Started
  <2> QED  BY <1>3, <1>10, <2>2, <2>3, <2>4, <2>9 DEF t
<1> QED  BY <1>9, <1>10

(* Or it was already, and nothing has moved. *)
LEMMA RestartIs ==
  ASSUME NEW s, NEW v \in Ports, NEW moved, GoodBut(s, v), s.server = "up", ~s.failed,
         Ready(s, v), s.port[v].crtc # NoCrtc
  PROVE  LET t == Restart(s, v, moved) IN
         /\ PortSteps(s, t, v) /\ t.server = "up"
         /\ ~t.failed => Started(t, v) /\ t.port[v].kind = s.port[v].kind
         /\ t.failed => s.port[v].kind = "image"
<1>1. CASE s.port[v].dirty \/ moved
  BY <1>1, StartVideoIs DEF Restart
<1>2. CASE ~(s.port[v].dirty \/ moved)
  <2>1. Started(s, v)
    BY <1>2 DEF Ready, Started, Filled, Stock
  <2>2. Restart(s, v, moved) = s
    BY <1>2 DEF Restart
  <2> QED  BY <2>1, <2>2, PortStepsNot DEF GoodBut, Safe
<1> QED  BY <1>1, <1>2

(* It stays so while nothing that is about it changes. *)
LEMMA StartedAgain ==
  ASSUME NEW s, NEW t, NEW v \in Ports, Started(s, v), Ovl(t, v) = Ovl(s, v),
         Active(t, v) <=> Active(s, v), t.port[v].crtc = s.port[v].crtc,
         t.port[v].turn = s.port[v].turn, t.port[v].rotation = s.port[v].rotation,
         t.port[v].kind = s.port[v].kind, t.port[v].dirty = s.port[v].dirty,
         t.out = s.out, t.rotation = s.rotation, t.buffered = s.buffered, t.mapped = s.mapped
  PROVE  Started(t, v)
  BY DEF Started, Aimed, Filled, CrtcTurn

(* A frame is written through the mapping that is there, and shown. *)
LEMMA FillAndFlipIs ==
  ASSUME NEW s, NEW v \in Ports, GoodBut(s, v), s.server = "up", ~s.failed,
         Started(s, v), s.port[v].kind = "image"
  PROVE  LET t == FillAndFlip(s, v) IN
         /\ PortSteps(s, t, v)
         /\ t.server = "up" => ~t.failed /\ Started(t, v)
<1> DEFINE o == Ovl(s, v)
           y == CloneSync(s)
           waited == OverlayWait(y, o, "overlay")
           filled == Require(waited, s.mapped[VideoFb(v)], "copy")
           flipped == OverlaySetup(filled, o)
           i == Ignoring(flipped)
           q == [flipped.port[v] EXCEPT !.updateClone = TRUE]
           e == [flipped EXCEPT !.port[v] = q]
           t == FillAndFlip(s, v)
<1>0. s \in Running /\ Shared(s) /\ o # NoOverlay /\ s.mapped[VideoFb(v)]
  BY DEF GoodBut, Safe, Started
<1>1. o \in Overlay /\ s.fb[o] # NoFb
  <2>1. o \in Overlay /\ s.fb[o] = VideoFb(v)
    BY <1>0, PortFields DEF Shared, OrNone
  <2> QED  BY <2>1, VideoFbIs, OverlaysAssumption DEF Fb
<1>2. CrtcSteps(s, y) /\ (y.server = "up" => y = s)
  BY <1>0, CloneSyncIs
<1>3. t = IF flipped.failed THEN i ELSE e
  BY DEF FillAndFlip
<1>4. CASE y.server = "up"
  <2>1. waited = s
    BY <1>0, <1>2, <1>4 DEF OverlayWait, Require
  <2>2. filled = s
    <3> HIDE DEF waited
    <3> QED  BY <1>0, <2>1 DEF Require
  <2>3. flipped = OverlaySetup(s, o)
    <3> HIDE DEF filled
    <3> QED  BY <2>2
  <2> HIDE DEF flipped, t
  <2>4. Tuned(s, flipped, o) /\ flipped.fb = s.fb /\ flipped.out = s.out /\ flipped.on = s.on
    BY <1>0, <1>1, <2>3, SetupIs
  <2>5. PortSteps(s, flipped, v) /\ flipped \in Running /\ flipped.server = "up"
    BY <1>0, <2>4, TunedPort DEF Tuned, Apart, Steps
  <2>6. Started(flipped, v)
    BY <2>4, StartedAgain DEF Tuned, Apart, Ovl, Active
  <2>7. CASE flipped.failed
    <3>1. /\ Tuned(flipped, i, o) /\ i.out = flipped.out /\ ~i.failed
          /\ CrtcSteps(flipped, i)
      BY <2>5, IgnoringTuned, CrtcStepsIgnoring
    <3> HIDE DEF i
    <3>2. PortSteps(s, i, v)
      BY <2>5, <3>1, CrtcPortSteps, PortStepsAgain
    <3>3. Started(i, v)
      BY <2>6, <3>1, StartedAgain DEF Tuned, Apart, Ovl, Active
    <3> QED  BY <1>3, <2>7, <3>1, <3>2, <3>3 DEF t
  <2>8. CASE ~flipped.failed
    <3>1. flipped.port[v] \in Port /\ Safe(flipped)
      BY <2>5, PortOf, PortStepsGood DEF GoodBut
    <3>2. /\ q \in Port /\ q.ovl = flipped.port[v].ovl /\ q.state = flipped.port[v].state
          /\ q.crtc = flipped.port[v].crtc /\ q.turn = flipped.port[v].turn
          /\ q.rotation = flipped.port[v].rotation /\ q.dirty = flipped.port[v].dirty
          /\ q.kind = flipped.port[v].kind
      BY <3>1 DEF Port
    <3> HIDE DEF q
    <3>3. PortOnly(flipped, e, v) /\ e.port[v] = q
      BY <2>5, <3>1, <3>2, PortKeepIs DEF Ovl
    <3> HIDE DEF e
    <3>4. Started(e, v)
      BY <2>6, <3>2, <3>3, StartedAgain DEF PortOnly, Ovl, Active
    <3> QED  BY <1>3, <2>5, <2>8, <3>3, <3>4, PortStepsAgain DEF PortOnly, t
  <2> QED  BY <2>7, <2>8
<1>5. CASE y.server # "up"
  <2>1. y.failed /\ y \in Running
    BY <1>2, <1>5 DEF CrtcSteps, Steps, Running
  <2>2. waited = y
    BY <1>5 DEF OverlayWait, Require
  <2>3. filled = y
    <3> HIDE DEF waited, y
    <3> QED  BY <1>5, <2>2 DEF Require
  <2>4. flipped = y
    <3> HIDE DEF filled, y
    <3> QED  BY <2>1, <2>3 DEF OverlaySetup
  <2>5. t = Ignoring(y)
    <3> HIDE DEF flipped, y, t, e
    <3> QED  BY <1>3, <2>1, <2>4
  <2>6. CrtcSteps(y, t)
    <3> HIDE DEF y, t
    <3> QED  BY <2>1, <2>5, CrtcStepsIgnoring
  <2>7. t.server # "up"
    <3> HIDE DEF y, t
    <3> QED  BY <1>5, <2>6 DEF CrtcSteps, Steps
  <2> HIDE DEF y, t
  <2> QED  BY <1>2, <2>6, <2>7, CrtcStepsAgain, CrtcPortSteps DEF t
<1> QED  BY <1>4, <1>5

(* With the key of its display as it wants it, or the timer armed. *)
LEMMA ShowIs ==
  ASSUME NEW s, NEW v \in Ports, NEW enable, GoodBut(s, v),
         s.server = "up" => ~s.failed /\ Started(s, v)
  PROVE  LET t == Show(s, v, enable) IN Good(t)
<1> DEFINE q == [s.port[v] EXCEPT !.timer = s.port[v].noKey]
           a == [s EXCEPT !.port[v] = q]
           k == SetupColorkey(a, v, ~s.port[v].noKey)
           n == OverlayEnable(k, Ovl(s, v))
           i == Ignoring(n)
           t == Show(s, v, enable)
<1>0. s \in Running /\ s.port[v] \in Port
  BY PortOf DEF GoodBut, Safe
<1>1. CASE s.server # "up"
  <2>1. Steps(s, t)
    BY <1>0, ShowType
  <2> QED  BY <1>1, <2>1, DeadGood DEF GoodBut, Safe
<1>2. CASE s.server = "up"
  <2>1. /\ q \in Port /\ q.ovl = s.port[v].ovl /\ q.state = s.port[v].state
        /\ q.crtc = s.port[v].crtc /\ q.turn = s.port[v].turn
        /\ q.rotation = s.port[v].rotation /\ q.dirty = s.port[v].dirty
        /\ q.kind = s.port[v].kind /\ q.noKey = s.port[v].noKey /\ q.timer = q.noKey
    BY <1>0 DEF Port
  <2> HIDE DEF q
  <2>2. PortOnly(s, a, v) /\ a.port[v] = q
    BY <1>0, <2>1, PortKeepIs DEF Ovl, GoodBut
  <2>3. RearmTimer(s, v) = a
    BY DEF RearmTimer, q
  <2>4. t = IF ~enable THEN a ELSE i
    BY <1>2, <2>3 DEF Show
  <2> HIDE DEF a, t
  <2>5. a \in Running /\ a.server = "up" /\ Started(a, v) /\ GoodBut(a, v)
    <3>1. Started(a, v)
      BY <1>2, <2>1, <2>2, StartedAgain DEF PortOnly, Ovl, Active
    <3> QED  BY <1>2, <2>2, <3>1, PortStepsGood DEF PortOnly, PortSteps, Steps
  <2>6. \A u : /\ GoodBut(u, v) /\ u.server = "up" /\ u.port = a.port /\ u.out = a.out
               /\ u.rotation = a.rotation /\ u.buffered = a.buffered /\ u.mapped = a.mapped
               => Good(u)
    <3> SUFFICES ASSUME NEW u, GoodBut(u, v), u.server = "up", u.port = a.port, u.out = a.out,
                        u.rotation = a.rotation, u.buffered = a.buffered, u.mapped = a.mapped
                 PROVE  Good(u)
      OBVIOUS
    <3>1. Started(u, v)
      BY <2>5, StartedAgain DEF Ovl, Active
    <3>2. Guarded(u, v)
      BY <2>1, <2>2 DEF Guarded
    <3>3. PortFine(u, v)
      BY <3>1, <3>2 DEF Started, PortFine, Placed
    <3> QED  BY <3>3, GoodButOne
  <2>7. CASE ~enable
    BY <2>4, <2>5, <2>6, <2>7 DEF t
  <2>8. CASE enable
    <3>1. /\ PortSteps(a, k, v) /\ k.port = a.port /\ k.out = a.out /\ k.rotation = a.rotation
          /\ k.buffered = a.buffered /\ k.mapped = a.mapped /\ k.server = a.server
      <4>1. (~s.port[v].noKey) \in BOOLEAN
        OBVIOUS
      <4>2. \A b \in BOOLEAN :
              LET u == SetupColorkey(a, v, b) IN
              /\ PortSteps(a, u, v) /\ u.port = a.port /\ u.out = a.out
              /\ u.rotation = a.rotation
              /\ u.buffered = a.buffered /\ u.mapped = a.mapped /\ u.server = a.server
        BY <2>5, KeySteps
      <4> QED  BY <4>1, <4>2, Zenon
    <3> HIDE DEF k
    <3>2. k \in Running /\ Ovl(k, v) = Ovl(s, v) /\ Active(k, v) /\ Ovl(s, v) # NoOverlay
      BY <2>1, <2>2, <2>5, <3>1 DEF PortSteps, Steps, Ovl, Active, Started
    <3>3. Ovl(s, v) \in Overlay
      BY <1>0, <3>2, PortFields DEF OrNone
    <3>4. Tuned(k, n, Ovl(s, v)) /\ n.fb = k.fb /\ n.out = k.out
      BY <3>2, <3>3, EnableIs
    <3> HIDE DEF n
    <3>5. PortSteps(k, n, v) /\ n \in Running
      BY <3>2, <3>4, TunedPort DEF Tuned, Apart, Steps
    <3>6. /\ Tuned(n, i, Ovl(s, v)) /\ i.out = n.out /\ CrtcSteps(n, i)
      BY <3>5, IgnoringTuned, CrtcStepsIgnoring
    <3> HIDE DEF i
    <3>7. PortSteps(a, i, v)
      BY <3>1, <3>5, <3>6, CrtcPortSteps, PortStepsAgain
    <3>8. GoodBut(i, v)
      BY <2>5, <3>7, PortStepsGood
    <3>9. Good(i)
      BY <2>5, <2>6, <3>1, <3>4, <3>6, <3>8 DEF Tuned, Apart
    <3> QED  BY <2>4, <2>8, <3>9 DEF t
  <2> QED  BY <2>7, <2>8
<1> QED  BY <1>1, <1>2

(* All of that, or the port is given up. *)
LEMMA FillIs ==
  ASSUME NEW s, NEW v \in Ports, NEW enable, NEW buf, GoodBut(s, v), s.server = "up",
         ~s.failed => Started(s, v) /\ s.port[v].kind = "image"
  PROVE  Good(Fill(s, v, enable, buf))
<1> DEFINE x == IF buf THEN FillAndFlip(s, v) ELSE s
<1>1. CASE s.failed
  BY <1>1, GiveUpIs DEF Fill
<1>2. CASE ~s.failed
  <2>1. PortSteps(s, x, v) /\ (x.server = "up" => ~x.failed /\ Started(x, v))
    <3>1. CASE buf
      BY <1>2, <3>1, FillAndFlipIs
    <3>2. CASE ~buf
      BY <1>2, <3>2, PortStepsNot DEF GoodBut, Safe
    <3> QED  BY <3>1, <3>2
  <2> HIDE DEF x
  <2>2. GoodBut(x, v)
    BY <2>1, PortStepsGood
  <2>3. Fill(s, v, enable, buf) = Show(x, v, enable)
    BY <1>2 DEF Fill, x
  <2> QED  BY <2>1, <2>2, <2>3, ShowIs
<1> QED  BY <1>1, <1>2

(* An image that is seen nowhere is not shown. *)
LEMMA PutImageOnIs ==
  ASSUME NEW s, NEW v \in Ports, NEW moved, NEW buf, GoodBut(s, v), s.server = "up",
         ~s.failed => Ready(s, v) /\ s.port[v].kind = "image"
  PROVE  Good(PutImageOn(s, v, moved, buf))
<1> DEFINE x == Restart(s, v, moved)
<1>1. CASE s.failed
  BY <1>1, GiveUpIs DEF PutImageOn
<1>2. CASE ~s.failed /\ s.port[v].crtc = NoCrtc
  <2>1. PortFine(s, v)
    BY <1>2 DEF Ready, PortFine, Guarded
  <2>2. PutImageOn(s, v, moved, buf) = s
    BY <1>2 DEF PutImageOn
  <2> QED  BY <2>1, <2>2, GoodButOne
<1>3. CASE ~s.failed /\ s.port[v].crtc # NoCrtc
  <2>1. /\ PortSteps(s, x, v) /\ x.server = "up"
        /\ ~x.failed => Started(x, v) /\ x.port[v].kind = s.port[v].kind
    BY <1>3, RestartIs
  <2> HIDE DEF x
  <2>2. GoodBut(x, v)
    BY <2>1, PortStepsGood
  <2>3. PutImageOn(s, v, moved, buf) = Fill(x, v, s.port[v].dirty \/ moved, buf)
    BY <1>3 DEF PutImageOn, x
  <2> QED  BY <1>3, <2>1, <2>2, <2>3, FillIs
<1> QED  BY <1>1, <1>2, <1>3

(* From the allocation on. *)
LEMMA PlaceImageIs ==
  ASSUME NEW s, NEW v \in Ports, NEW n \in Sizes, NEW c \in Crtc \cup {NoCrtc},
         NEW moved, NEW buf, Good(s), s.server = "up", ~s.failed => Ovl(s, v) # NoOverlay
  PROVE  Good(PlaceImage(s, v, n, c, moved, buf))
<1> DEFINE a == AllocMem(s, v, n)
           k == AsKind(a, v, "image")
           r == Retarget(k, v, c)
<1>1. CASE s.failed
  BY <1>1 DEF PlaceImage
<1>2. CASE ~s.failed
  <2>0. GoodBut(s, v)
    BY DEF Good, GoodBut
  <2>1. /\ PortSteps(s, a, v) /\ a.server = "up"
        /\ ~a.failed => /\ PortFine(a, v) /\ Ovl(a, v) # NoOverlay
                        /\ a.buffered[VideoFb(v)] /\ a.mem[VideoFb(v)] # 0
    BY <1>2, AllocMemIs
  <2> HIDE DEF a
  <2>2. GoodBut(a, v)
    BY <2>0, <2>1, PortStepsGood
  <2>3. /\ PortSteps(a, k, v) /\ k.server = "up" /\ k.failed = a.failed
        /\ ~k.failed /\ PortFine(a, v) /\ Ovl(a, v) # NoOverlay =>
              /\ PortFine(k, v) /\ Ovl(k, v) # NoOverlay /\ k.port[v].kind = "image"
              /\ k.buffered = a.buffered /\ k.mem = a.mem
    BY <2>1, <2>2, AsKindIs
  <2> HIDE DEF k
  <2>4. GoodBut(k, v)
    BY <2>2, <2>3, PortStepsGood
  <2>5. ~k.failed => PortFine(k, v) /\ Ovl(k, v) # NoOverlay /\ Stock(k, v)
                     /\ k.port[v].kind = "image"
    BY <2>1, <2>3 DEF Stock
  <2>6. /\ PortSteps(k, r, v) /\ r.server = "up"
        /\ ~r.failed => Ready(r, v) /\ r.port[v].kind = k.port[v].kind
    BY <2>3, <2>4, <2>5, RetargetIs
  <2>7. k.failed => r = k
    BY DEF Retarget
  <2> HIDE DEF r
  <2>8. GoodBut(r, v)
    BY <2>4, <2>6, PortStepsGood
  <2>9. Good(PutImageOn(r, v, moved, buf))
    BY <2>5, <2>6, <2>7, <2>8, PutImageOnIs
  <2>10. PlaceImage(s, v, n, c, moved, buf) = PutImageOn(r, v, moved, buf)
    BY <1>2 DEF PlaceImage, r, k, a
  <2> QED  BY <2>9, <2>10
<1> QED  BY <1>1, <1>2

-----------------------------------------------------------------------------
(* The requests of the clients. *)

(* What a request leaves behind when it has ended. *)
Done(t) == Good(t) /\ (t.server = "up" => ~t.failed)

(* Bringing the clone up to date ends a request. *)
LEMMA CloneUpdateDone ==
  ASSUME NEW s, Good(s)
  PROVE  Done(CloneUpdate(s))
<1> DEFINE v == CloneInfo(s)
           c == s.port[v].cloneCrtc
           m == SetModeMajor(Ignoring(s), c)
           i == Ignoring(m)
           e == [i EXCEPT !.port[v].updateClone = FALSE]
           t == CloneUpdate(s)
<1>0. s \in Running
  BY DEF Good, Safe
<1>1. CrtcSteps(s, t)
  BY <1>0, CloneUpdateIs
<1>2. Good(t)
  <2> HIDE DEF t
  <2> QED  BY <1>1, CrtcGood
<1>3. t = Ignoring(s) \/ (t = e /\ v \in Ports /\ c \in Crtc)
  <2>1. v # NoPort => v \in Ports
    BY CloneInfoIs
  <2>2. v \in Ports /\ c # NoCrtc => c \in Crtc
    BY <1>0, PortFields
  <2> HIDE DEF v, c
  <2> QED  BY <2>1, <2>2 DEF CloneUpdate, v, c
<1>4. CASE t = Ignoring(s)
  <2>1. t.failed <=> t.server # "up"
    BY <1>0, <1>4 DEF Ignoring, Running, Device
  <2> QED  BY <1>2, <2>1 DEF Done
<1>5. CASE t = e /\ v \in Ports /\ c \in Crtc
  <2>1. Ignoring(s) \in Running
    BY <1>0, IgnoringType DEF Running
  <2>2. m \in Running
    <3>1. Steps(Ignoring(s), m)
      BY <1>5, <2>1, SetModeMajorType
    <3> HIDE DEF m
    <3> QED  BY <3>1 DEF Steps
  <2> HIDE DEF m, v, t
  <2>3. i.server = m.server /\ (i.failed <=> m.server # "up") /\ i \in Running
    <3>1. i.server = m.server /\ (i.failed <=> m.server # "up")
      BY <2>2 DEF Ignoring, Running, Device
    <3> QED  BY <2>2, <3>1, IgnoringType DEF Running
  <2> HIDE DEF i
  <2>4. t.failed = i.failed /\ t.server = i.server
    BY <1>5, <2>3 DEF Running, Device
  <2> QED  BY <1>2, <2>3, <2>4 DEF Done, t
<1> QED  BY <1>3, <1>4, <1>5

(* All of omap_video_putimage. *)
LEMMA PutImageIs ==
  ASSUME NEW s, NEW v \in Ports, NEW n \in Sizes, NEW c \in Crtc \cup {NoCrtc},
         NEW moved, NEW buf, Good(s), s.server = "up"
  PROVE  Done(PutImage(s, v, n, c, moved, buf))
<1> DEFINE g == GetOverlay(s, v)
<1>1. Good(g) /\ g.server = "up" /\ (~g.failed => Ovl(g, v) # NoOverlay)
  BY GetOverlayIs
<1> HIDE DEF g
<1>2. Good(PlaceImage(g, v, n, c, moved, buf))
  BY <1>1, PlaceImageIs
<1> QED  BY <1>2, CloneUpdateDone DEF PutImage, g

(* The memory of a video is what the client has left there. *)
LEMMA FbRefreshIs ==
  ASSUME NEW s, NEW v \in Ports, Good(s), s.server = "up", ~s.failed
  PROVE  LET t == FbRefresh(s, VideoFb(v), Ovl(s, v)) IN
         /\ PortSteps(s, t, v)
         /\ ~t.failed => /\ PortFine(t, v) /\ Ovl(t, v) # NoOverlay
                         /\ ~t.buffered[VideoFb(v)] /\ t.server = "up"
<1> DEFINE f == VideoFb(v)
           o == Ovl(s, v)
           r == Require(s, o # NoOverlay, "refresh")
           e == [s EXCEPT !.size[f] = s.mem[f], !.buffered[f] = FALSE]
           t == FbRefresh(s, f, o)
<1>0. s \in Running /\ Shared(s) /\ s \in Device /\ f \in Fb /\ PortFine(s, v)
  BY VideoFbIs DEF Good, Safe, Running
<1>1. CASE o = NoOverlay
  <2>1. CrtcSteps(s, r)
    BY <1>0, RequireIs DEF Death, Doomed
  <2>2. r.failed
    BY <1>0, <1>1 DEF Require, Device
  <2>3. r.failed => t = r
    BY DEF FbRefresh
  <2> HIDE DEF r, t
  <2> QED  BY <2>1, <2>2, <2>3, CrtcPortSteps DEF t
<1>2. CASE o # NoOverlay
  <2>1. r = s
    BY <1>2 DEF Require
  <2>2. s.fb[o] = f
    BY <1>0, <1>2 DEF Shared
  <2>3. t = IF r.failed THEN r
            ELSE IF r.fb[o] # f \/ Fails(r, "refresh") THEN [r EXCEPT !.failed = TRUE]
            ELSE [r EXCEPT !.size[f] = r.mem[f], !.buffered[f] = FALSE]
    BY DEF FbRefresh
  <2>4. t \in {[s EXCEPT !.failed = TRUE], e}
    <3> HIDE DEF r, t
    <3> QED  BY <2>1, <2>2, <2>3
  <2>5. Steps(s, t)
    BY <1>0, <1>2, FbRefreshType, PortFields
  <2> HIDE DEF t, f
  <2>6. /\ t.port = s.port /\ t.out = s.out /\ t.on = s.on /\ t.fb = s.fb /\ t.mem = s.mem
        /\ t.mapped = s.mapped /\ t.rotation = s.rotation
        /\ t.key = s.key /\ t.server = s.server
        /\ t.usage = s.usage /\ t.crtcOvl = s.crtcOvl
        /\ ~t.failed => ~t.buffered[f]
        /\ (s.size[f] # 0 => s.mem[f] # 0) => (t.size[f] # 0 => t.mem[f] # 0)
        /\ \A g \in Fb : g # f => t.size[g] = s.size[g] /\ t.buffered[g] = s.buffered[g]
    <3>1. CASE t = [s EXCEPT !.failed = TRUE]
      BY <1>0, <3>1 DEF Device
    <3>2. CASE t = e
      BY <1>0, <3>2 DEF Device
    <3> QED  BY <2>4, <3>1, <3>2
  <2>7. PortSteps(s, t, v)
    BY <1>0, <2>5, <2>6, FbSteps DEF f
  <2>8. ASSUME ~t.failed PROVE PortFine(t, v)
    <3>1. Filled(t, v)
      BY <2>6, <2>8 DEF Filled, f
    <3> QED  BY <1>0, <2>6, <3>1, FineAgain
  <2> QED  BY <1>2, <2>6, <2>7, <2>8 DEF t, f, Ovl
<1> QED  BY <1>1, <1>2

(* A video that is seen nowhere is not shown. *)
LEMMA PutVideoOnIs ==
  ASSUME NEW s, NEW v \in Ports, NEW moved, NEW enable, GoodBut(s, v),
         ~s.failed => s.server = "up" /\ Ready(s, v) /\ s.port[v].kind = "video"
  PROVE  Good(PutVideoOn(s, v, moved, enable))
<1> DEFINE x == Restart(s, v, moved)
<1>1. CASE s.failed
  BY <1>1, StopIs DEF PutVideoOn
<1>2. CASE ~s.failed /\ s.port[v].crtc = NoCrtc
  <2>1. PortFine(s, v)
    BY <1>2 DEF Ready, PortFine, Guarded
  <2>2. PutVideoOn(s, v, moved, enable) = s
    BY <1>2 DEF PutVideoOn
  <2> QED  BY <2>1, <2>2, GoodButOne
<1>3. CASE ~s.failed /\ s.port[v].crtc # NoCrtc
  <2>1. PortSteps(s, x, v) /\ ~x.failed /\ Started(x, v)
    BY <1>3, RestartIs
  <2> HIDE DEF x
  <2>2. GoodBut(x, v)
    BY <2>1, PortStepsGood
  <2>3. PutVideoOn(s, v, moved, enable) = Show(x, v, enable)
    BY <1>3 DEF PutVideoOn, x
  <2> QED  BY <2>1, <2>2, <2>3, ShowIs
<1> QED  BY <1>1, <1>2, <1>3

(* All of omap_video_putvideo. *)
LEMMA PutVideoIs ==
  ASSUME NEW s, NEW v \in Ports, NEW c \in Crtc \cup {NoCrtc}, NEW moved,
         Good(s), s.server = "up", ~s.failed
  PROVE  Done(PutVideo(s, v, c, moved))
<1> DEFINE a == FbRefresh(s, VideoFb(v), Ovl(s, v))
           k == AsKind(a, v, "video")
           r == Retarget(k, v, c)
           p == PutVideoOn(r, v, moved, s.port[v].dirty \/ c # s.port[v].crtc)
<1>1. PutVideo(s, v, c, moved) = CloneUpdate(IF ~s.port[v].reserved THEN s ELSE p)
  BY DEF PutVideo
<1>0. GoodBut(s, v)
  BY DEF Good, GoodBut
<1>2. /\ PortSteps(s, a, v)
      /\ ~a.failed => /\ PortFine(a, v) /\ Ovl(a, v) # NoOverlay
                      /\ ~a.buffered[VideoFb(v)] /\ a.server = "up"
  BY FbRefreshIs
<1> HIDE DEF a
<1>3. GoodBut(a, v)
  BY <1>0, <1>2, PortStepsGood
<1>4. GoodBut(r, v)
      /\ (~r.failed => r.server = "up" /\ Ready(r, v) /\ r.port[v].kind = "video")
  <2>1. CASE a.failed
    <3>1. k = a
      BY <2>1 DEF AsKind
    <3> HIDE DEF k
    <3>2. r = a
      BY <2>1, <3>1 DEF Retarget
    <3> HIDE DEF r
    <3> QED  BY <1>3, <2>1, <3>2
  <2>2. CASE ~a.failed
    <3>1. /\ PortSteps(a, k, v) /\ k.server = "up" /\ ~k.failed
          /\ PortFine(k, v) /\ Ovl(k, v) # NoOverlay /\ k.port[v].kind = "video"
          /\ k.buffered = a.buffered
      BY <1>2, <1>3, <2>2, AsKindIs
    <3> HIDE DEF k
    <3>2. GoodBut(k, v) /\ Stock(k, v)
      BY <1>2, <1>3, <2>2, <3>1, PortStepsGood DEF Stock
    <3>3. /\ PortSteps(k, r, v) /\ r.server = "up"
          /\ ~r.failed => Ready(r, v) /\ r.port[v].kind = k.port[v].kind
      BY <3>1, <3>2, RetargetIs
    <3> HIDE DEF r
    <3> QED  BY <3>1, <3>2, <3>3, PortStepsGood
  <2> QED  BY <2>1, <2>2
<1> HIDE DEF r
<1>5. Good(p)
  BY <1>4, PutVideoOnIs
<1> HIDE DEF p
<1> QED  BY <1>1, <1>5, CloneUpdateDone

-----------------------------------------------------------------------------
(* Stopping, and the attributes. *)

(* A port at rest may be given other attributes. *)
LEMMA RestingSet ==
  ASSUME NEW s, NEW v \in Ports, NEW q \in Port, Good(s),
         s.server = "up" => Rests(s, v),
         q.ovl = Ovl(s, v), q.state = s.port[v].state, q.crtc = s.port[v].crtc
  PROVE  LET t == [s EXCEPT !.port[v] = q] IN
         /\ Good(t) /\ PortOnly(s, t, v) /\ (Rests(s, v) => Rests(t, v))
         /\ t.port[v] = q
<1> DEFINE t == [s EXCEPT !.port[v] = q]
<1>0. Safe(s) /\ s \in Running /\ GoodBut(s, v)
  BY DEF Good, GoodBut, Safe
<1>1. PortOnly(s, t, v) /\ t.port[v] = q
  BY <1>0, PortKeepIs
<1> HIDE DEF t
<1>2. GoodBut(t, v) /\ t.server = s.server
  BY <1>0, <1>1, PortStepsGood DEF PortOnly
<1>3. Rests(s, v) => Rests(t, v)
  BY <1>1 DEF Rests, Active
<1>4. Good(t)
  BY <1>2, <1>3, RestsFine, GoodButOne
<1> QED  BY <1>1, <1>3, <1>4 DEF t

(* Its memory may be freed. *)
LEMMA FreedAtRest ==
  ASSUME NEW s, NEW v \in Ports, Good(s), s.server = "up", Rests(s, v)
  PROVE  LET t == Ignoring(FbFree(s, VideoFb(v))) IN
         /\ Good(t) /\ t.server = "up" /\ ~t.failed /\ Rests(t, v)
         /\ t.port = s.port /\ t.on = s.on
<1> DEFINE a == FbFree(s, VideoFb(v))
           t == Ignoring(a)
<1>0. s \in Running /\ GoodBut(s, v)
  BY DEF Good, GoodBut, Safe
<1>1. PortSteps(s, a, v) /\ a.port = s.port /\ a.on = s.on /\ a.server = "up"
  BY <1>0, FreeIs
<1> HIDE DEF a
<1>2. GoodBut(a, v) /\ a \in Running
  BY <1>0, <1>1, PortStepsGood DEF GoodBut, Safe
<1>3. Tuned(a, t, 0) /\ t.on = a.on /\ ~t.failed /\ CrtcSteps(a, t)
  BY <1>1, <1>2, IgnoringTuned, CrtcStepsIgnoring
<1> HIDE DEF t
<1>4. Rests(t, v) /\ t.server = "up" /\ t.port = s.port
  BY <1>1, <1>3 DEF Tuned, Apart, Rests, Active
<1>5. Good(t)
  BY <1>2, <1>3, <1>4, CrtcPortSteps, PortStepsGood, RestsFine, GoodButOne
<1> QED  BY <1>1, <1>3, <1>4, <1>5 DEF t, a

(* And all of it be left as it was at first. *)
LEMMA ResetIs ==
  ASSUME NEW s, NEW v \in Ports, NEW exit, Good(s), s.server = "up", Rests(s, v),
         Ovl(s, v) \notin s.on
  PROVE  LET t == Reset(s, v, exit) IN
         Good(t) /\ t.server = "up" /\ Rests(t, v) /\ Ovl(t, v) \notin t.on
<1> DEFINE a == Ignoring(FbFree(s, VideoFb(v)))
           q == [a.port[v] EXCEPT !.noKey = FALSE, !.clone = TRUE, !.rotation = Rotate0,
                                  !.stacking = "XV", !.reserved = FALSE]
           e == [a EXCEPT !.port[v] = q]
<1>1. CASE ~exit
  BY <1>1 DEF Reset
<1>2. CASE exit
  <2>1. /\ Good(a) /\ a.server = "up" /\ Rests(a, v)
        /\ a.port = s.port /\ a.on = s.on
    BY FreedAtRest
  <2>2. Reset(s, v, exit) = e
    BY <1>2 DEF Reset
  <2> HIDE DEF a
  <2>3. /\ q \in Port /\ q.ovl = Ovl(a, v) /\ q.state = a.port[v].state
        /\ q.crtc = a.port[v].crtc
    <3>1. a.port[v] \in Port
      BY <2>1, PortOf DEF Good, Safe
    <3> QED  BY <3>1, Rotate0Type DEF Port, Ovl
  <2> HIDE DEF q
  <2>4. Good(e) /\ PortOnly(a, e, v) /\ Rests(e, v) /\ e.port[v] = q
    BY <2>1, <2>3, RestingSet
  <2> HIDE DEF e
  <2>5. Ovl(e, v) \notin e.on /\ e.server = "up"
    BY <2>1, <2>3, <2>4 DEF PortOnly, Ovl
  <2> QED  BY <2>2, <2>4, <2>5
<1> QED  BY <1>1, <1>2

(* Its overlay may go back. *)
LEMMA PutAtRest ==
  ASSUME NEW s, NEW v \in Ports, Good(s), s.server = "up", Rests(s, v)
  PROVE  LET t == PutOverlay(s, v) IN
         Good(t) /\ t.server = "up" /\ Rests(t, v) /\ (~s.failed => ~t.failed)
<1> DEFINE t == PutOverlay(s, v)
<1>0. s \in Running /\ GoodBut(s, v) /\ Ovl(s, v) \notin s.on
  BY DEF Good, GoodBut, Safe, Shared, Rests
<1>1. PortSteps(s, t, v) /\ t.server = "up" /\ Rests(t, v) /\ (~s.failed => ~t.failed)
  BY <1>0, PutOverlayIs DEF Rests
<1> HIDE DEF t
<1>2. Good(t)
  BY <1>0, <1>1, PortStepsGood, RestsFine, GoodButOne
<1> QED  BY <1>1, <1>2 DEF t

(* All of omap_video_stop. *)
LEMMA StopVideoIs ==
  ASSUME NEW s, NEW v \in Ports, NEW exit, Good(s), s.server = "up"
  PROVE  Done(StopVideo(s, v, exit))
<1> DEFINE k == CloneStop(s, v)
           p == Stop(k, v)
           q == [p.port[v] EXCEPT !.dirty = TRUE, !.updateClone = TRUE]
           e == [p EXCEPT !.port[v] = q]
           r == Reset(e, v, exit)
           u == PutUnreserved(r, v)
<1>1. Good(k) /\ k.server = "up"
  <2>1. s \in Running /\ Shared(s)
    BY DEF Good, Safe
  <2>2. CrtcSteps(s, k) /\ k.server = "up"
    BY <2>1, CloneStopIs, CloneStopUp
  <2> HIDE DEF k
  <2> QED  BY <2>2, CrtcGood
<1> HIDE DEF k
<1>2. Good(p) /\ p.server = "up" /\ Rests(p, v) /\ Ovl(p, v) \notin p.on
  <2>1. GoodBut(k, v)
    BY <1>1 DEF Good, GoodBut
  <2> QED  BY <1>1, <2>1, StopIs
<1> HIDE DEF p
<1>3. /\ q \in Port /\ q.ovl = Ovl(p, v) /\ q.state = p.port[v].state
      /\ q.crtc = p.port[v].crtc
  <2>1. p.port[v] \in Port
    BY <1>2, PortOf DEF Good, Safe
  <2> QED  BY <2>1 DEF Port, Ovl
<1> HIDE DEF q
<1>4. Good(e) /\ PortOnly(p, e, v) /\ Rests(e, v) /\ e.port[v] = q
  BY <1>2, <1>3, RestingSet
<1> HIDE DEF e
<1>5. e.server = "up" /\ Ovl(e, v) \notin e.on
  BY <1>2, <1>3, <1>4 DEF PortOnly, Ovl
<1>6. Good(r) /\ r.server = "up" /\ Rests(r, v) /\ Ovl(r, v) \notin r.on
  BY <1>4, <1>5, ResetIs
<1> HIDE DEF r
<1>7. Good(u)
  BY <1>6, PutAtRest DEF PutUnreserved
<1>8. StopVideo(s, v, exit) = CloneUpdate(u)
  BY DEF StopVideo, u, r, e, q, p, k
<1> HIDE DEF u
<1> QED  BY <1>7, <1>8, CloneUpdateDone

(* Attributes of a port that the invariant does not look at. *)
LEMMA FineSet ==
  ASSUME NEW s, NEW v \in Ports, NEW q \in Port, Good(s), s.server = "up",
         q.ovl = Ovl(s, v), q.state = s.port[v].state, q.crtc = s.port[v].crtc,
         q.turn = s.port[v].turn, q.rotation = s.port[v].rotation,
         q.noKey = s.port[v].noKey, q.timer = s.port[v].timer, q.dirty = s.port[v].dirty
  PROVE  LET t == [s EXCEPT !.port[v] = q] IN
         Good(t) /\ t.server = "up" /\ t.failed = s.failed
<1> DEFINE t == [s EXCEPT !.port[v] = q]
<1>0. Safe(s) /\ s \in Running /\ GoodBut(s, v) /\ PortFine(s, v)
  BY DEF Good, GoodBut, Safe
<1>1. PortOnly(s, t, v) /\ t.port[v] = q
  BY <1>0, PortKeepIs
<1> HIDE DEF t
<1>2. GoodBut(t, v) /\ t.server = "up" /\ t.failed = s.failed
  BY <1>0, <1>1, PortStepsGood DEF PortOnly
<1>3. Filled(t, v)
  BY <1>0, <1>1 DEF PortFine, Filled, PortOnly, Active
<1>4. PortFine(t, v)
  BY <1>0, <1>1, <1>3, FineAgain DEF PortOnly, Ovl
<1> QED  BY <1>2, <1>4, GoodButOne DEF t

(* A port is reserved, or is no longer. *)
LEMMA SetReserveIs ==
  ASSUME NEW s, NEW v \in Ports, NEW value \in BOOLEAN, Good(s), s.server = "up", ~s.failed
  PROVE  Done(SetReserve(s, v, value))
<1> DEFINE r == Require(s, Ovl(s, v) = NoOverlay, "reserve")
           taken == GetOverlay(r, v)
           qt == [taken.port[v] EXCEPT !.reserved = TRUE]
           l == Require(s, Ovl(s, v) # NoOverlay, "release")
           f == FbFree(l, VideoFb(v))
           i == Ignoring(f)
           given == PutOverlay(i, v)
           qg == [given.port[v] EXCEPT !.reserved = FALSE]
           t == SetReserve(s, v, value)
<1>0. s \in Running /\ Shared(s) /\ PortFine(s, v)
  BY DEF Good, Safe
<1>1. t = IF Active(s, v) THEN s
          ELSE IF ~value THEN [given EXCEPT !.port[v] = qg]
          ELSE IF taken.failed THEN Ignoring(taken) ELSE [taken EXCEPT !.port[v] = qt]
  BY DEF SetReserve
<1> HIDE DEF t
<1>2. CASE Active(s, v)
  BY <1>1, <1>2 DEF Done, t
<1>3. CASE ~Active(s, v) /\ value
  <2>1. t = IF taken.failed THEN Ignoring(taken) ELSE [taken EXCEPT !.port[v] = qt]
    BY <1>1, <1>3
  <2>2. CrtcSteps(s, r) /\ (r.server = "up" => r = s)
    BY <1>0, RequireIs DEF Death, Doomed
  <2> HIDE DEF r
  <2>3. CASE r.server = "up"
    <3>1. Good(taken) /\ taken.server = "up"
      BY <2>2, <2>3, GetOverlayIs
    <3> HIDE DEF taken
    <3>2. CASE taken.failed
      <4>1. CrtcSteps(taken, t)
        BY <2>1, <3>1, <3>2, CrtcStepsIgnoring DEF Good, Safe
      <4>2. ~t.failed
        BY <2>1, <3>1, <3>2 DEF Good, Safe, Running, Device, Ignoring
      <4> QED  BY <3>1, <4>1, <4>2, CrtcGood DEF Done, t
    <3>3. CASE ~taken.failed
      <4>1. /\ qt \in Port /\ qt.ovl = Ovl(taken, v) /\ qt.state = taken.port[v].state
            /\ qt.crtc = taken.port[v].crtc /\ qt.turn = taken.port[v].turn
            /\ qt.rotation = taken.port[v].rotation /\ qt.noKey = taken.port[v].noKey
            /\ qt.timer = taken.port[v].timer /\ qt.dirty = taken.port[v].dirty
        <5>1. taken.port[v] \in Port
          BY <3>1, PortOf DEF Good, Safe
        <5> QED  BY <5>1 DEF Port, Ovl
      <4> HIDE DEF qt
      <4> QED  BY <2>1, <3>1, <3>3, <4>1, FineSet DEF Done, t
    <3> QED  BY <3>2, <3>3
  <2>4. CASE r.server # "up"
    <3>1. r \in Running /\ r.server \notin Doomed
      BY <1>0, <2>2 DEF CrtcSteps, Steps
    <3>2. Steps(r, taken)
      BY <3>1, GetOverlayType
    <3> HIDE DEF taken
    <3>3. taken \in Running /\ taken.failed /\ taken.server = r.server
      BY <2>4, <3>2 DEF Steps, Running
    <3>4. CrtcSteps(taken, t)
      BY <2>1, <3>3, CrtcStepsIgnoring
    <3>5. Good(t) /\ t.server # "up"
      BY <2>4, <3>1, <3>3, <3>4, DeadGood DEF CrtcSteps, Steps
    <3> QED  BY <3>5 DEF Done, t
  <2> QED  BY <2>3, <2>4
<1>4. CASE ~Active(s, v) /\ ~value
  <2>1. t = [given EXCEPT !.port[v] = qg]
    BY <1>1, <1>4
  <2>2. CrtcSteps(s, l) /\ (l.server = "up" => l = s)
    BY <1>0, RequireIs DEF Death, Doomed
  <2> HIDE DEF l
  <2>3. CASE l.server = "up"
    <3>1. Rests(s, v)
      BY <1>0, <1>4 DEF Rests, PortFine
    <3>2. Good(i) /\ i.server = "up" /\ ~i.failed /\ Rests(i, v)
      BY <2>2, <2>3, <3>1, FreedAtRest
    <3> HIDE DEF i
    <3>3. Good(given) /\ given.server = "up" /\ Rests(given, v) /\ ~given.failed
      BY <3>2, PutAtRest
    <3> HIDE DEF given
    <3>4. /\ qg \in Port /\ qg.ovl = Ovl(given, v) /\ qg.state = given.port[v].state
          /\ qg.crtc = given.port[v].crtc
      <4>1. given.port[v] \in Port
        BY <3>3, PortOf DEF Good, Safe
      <4> QED  BY <4>1 DEF Port, Ovl
    <3> HIDE DEF qg
    <3>5. Good(t) /\ PortOnly(given, t, v)
      BY <2>1, <3>3, <3>4, RestingSet
    <3> QED  BY <3>3, <3>5 DEF Done, PortOnly, t
  <2>4. CASE l.server # "up"
    <3>1. l \in Running /\ l.server \notin Doomed
      BY <1>0, <2>2 DEF CrtcSteps, Steps
    <3>2. Steps(l, f)
      BY <3>1, FbFreeType, VideoFbIs
    <3> HIDE DEF f
    <3>3. Steps(f, i)
      BY <3>2, IgnoringType DEF Steps, Running
    <3> HIDE DEF i
    <3>4. Steps(i, given)
      BY <3>3, PutOverlayType DEF Steps
    <3> HIDE DEF given
    <3>5. qg \in Port
      <4>1. given.port[v] \in Port
        BY <3>4, PortOf DEF Steps
      <4> QED  BY <4>1 DEF Port
    <3> HIDE DEF qg
    <3>6. Steps(given, t)
      BY <2>1, <3>4, <3>5, SetPort DEF Steps
    <3>7. Good(t) /\ t.server # "up"
      BY <2>4, <3>1, <3>2, <3>3, <3>4, <3>6, StepsAgain, DeadGood DEF Steps
    <3> QED  BY <3>7 DEF Done, t
  <2> QED  BY <2>3, <2>4
<1> QED  BY <1>2, <1>3, <1>4

(* An attribute of a port that PortFine is about. *)
LEMMA AttributeSet ==
  ASSUME NEW s, NEW v \in Ports, NEW q \in Port, Good(s), s.server = "up", ~s.failed,
         q.ovl = Ovl(s, v), q.state = s.port[v].state
  PROVE  LET t == [s EXCEPT !.port[v] = q] IN
         /\ GoodBut(t, v) /\ t.server = "up" /\ ~t.failed
         /\ t.port[v] = q /\ PortOnly(s, t, v)
         /\ PortFine(t, v) => Done(t)
<1> DEFINE t == [s EXCEPT !.port[v] = q]
<1>0. Safe(s) /\ s \in Running /\ GoodBut(s, v)
  BY DEF Good, GoodBut, Safe
<1>1. PortOnly(s, t, v) /\ t.port[v] = q
  BY <1>0, PortKeepIs
<1> HIDE DEF t
<1>2. GoodBut(t, v) /\ t.server = "up" /\ ~t.failed
  BY <1>0, <1>1, PortStepsGood DEF PortOnly
<1> QED  BY <1>1, <1>2, GoodButOne DEF Done, t

(* Its clone is allowed, or is no longer: it has to be placed again. *)
LEMMA SetCloneIs ==
  ASSUME NEW s, NEW v \in Ports, NEW b \in BOOLEAN, Good(s), s.server = "up", ~s.failed,
         "clone" \in Attributes
  PROVE  Done(SetClone(s, v, b))
<1> DEFINE q == [s.port[v] EXCEPT !.clone = b, !.crtc = NoCrtc]
           t == [s EXCEPT !.port[v] = q]
<1>0. PortFine(s, v) /\ s.port[v] \in Port
  BY PortOf DEF Good, Safe
<1>1. /\ q \in Port /\ q.ovl = Ovl(s, v) /\ q.state = s.port[v].state
      /\ q.crtc = NoCrtc /\ q.dirty = s.port[v].dirty
  BY <1>0 DEF Port, Ovl
<1> HIDE DEF q
<1>2. t.port[v] = q /\ PortOnly(s, t, v) /\ (PortFine(t, v) => Done(t))
  BY <1>1, AttributeSet
<1>3. SetClone(s, v, b) = t
  BY DEF SetClone, q
<1> HIDE DEF t
<1>4. PortFine(t, v)
  BY <1>0, <1>1, <1>2 DEF PortFine, Aimed, Filled, Guarded, Placed, Active, PortOnly
<1> QED  BY <1>2, <1>3, <1>4

(* The value of the key is changed, which turns it off again after the timer has fired. *)
LEMMA SetColorkeyIs ==
  ASSUME NEW s, NEW v \in Ports, Good(s), s.server = "up", ~s.failed, "colorkey" \in Attributes
  PROVE  Done(SetColorkey(s, v))
<1> DEFINE t == SetColorkey(s, v)
<1>0. PortFine(s, v) /\ s \in Running /\ GoodBut(s, v)
  BY DEF Good, Safe, GoodBut
<1>1. /\ PortSteps(s, t, v) /\ t.port = s.port /\ t.out = s.out /\ t.rotation = s.rotation
      /\ t.buffered = s.buffered /\ t.mapped = s.mapped /\ t.server = s.server
      /\ t.failed = s.failed /\ t.on = s.on
  <2>1. (~s.port[v].noKey) \in BOOLEAN
    OBVIOUS
  <2>2. \A b \in BOOLEAN :
          LET u == SetupColorkey(s, v, b) IN
          /\ PortSteps(s, u, v) /\ u.port = s.port /\ u.out = s.out /\ u.rotation = s.rotation
          /\ u.buffered = s.buffered /\ u.mapped = s.mapped /\ u.server = s.server
          /\ u.failed = s.failed /\ u.on = s.on
    BY <1>0, KeySteps
  <2> QED  BY <2>1, <2>2, Zenon DEF SetColorkey
<1> HIDE DEF t
<1>2. GoodBut(t, v)
  BY <1>0, <1>1, PortStepsGood
<1>3. PortFine(t, v)
  BY <1>0, <1>1 DEF PortFine, Aimed, Filled, Guarded, Placed, Active, Ovl, CrtcTurn
<1> QED  BY <1>1, <1>2, <1>3, GoodButOne DEF Done, t

(* The key is turned off and the timer armed, or on. *)
LEMMA SetDisableColorkeyIs ==
  ASSUME NEW s, NEW v \in Ports, NEW value \in BOOLEAN, Good(s), s.server = "up", ~s.failed
  PROVE  Done(SetDisableColorkey(s, v, value))
<1> DEFINE q == [s.port[v] EXCEPT !.noKey = value]
           a == [s EXCEPT !.port[v] = q]
           k == SetupColorkey(a, v, ~value)
           p == [k.port[v] EXCEPT !.timer = k.port[v].noKey]
           t == [k EXCEPT !.port[v] = p]
<1>0. PortFine(s, v) /\ s.port[v] \in Port /\ s \in Running
  BY PortOf DEF Good, Safe
<1>1. /\ q \in Port /\ q.ovl = Ovl(s, v) /\ q.state = s.port[v].state
      /\ q.crtc = s.port[v].crtc /\ q.dirty = s.port[v].dirty
      /\ q.turn = s.port[v].turn /\ q.rotation = s.port[v].rotation
  BY <1>0 DEF Port, Ovl
<1> HIDE DEF q
<1>2. /\ a.port[v] = q /\ PortOnly(s, a, v) /\ GoodBut(a, v) /\ a.server = "up" /\ ~a.failed
  BY <1>1, AttributeSet
<1>3. SetDisableColorkey(s, v, value) = t
  BY DEF SetDisableColorkey, RearmTimer, q
<1> HIDE DEF a
<1>4. a \in Running
  BY <1>2 DEF GoodBut, Safe
<1>5. /\ PortSteps(a, k, v) /\ k.port = a.port /\ k.out = a.out /\ k.rotation = a.rotation
      /\ k.buffered = a.buffered /\ k.mapped = a.mapped /\ k.server = a.server
      /\ k.failed = a.failed /\ k.on = a.on
  <2>1. (~value) \in BOOLEAN
    OBVIOUS
  <2>2. \A b \in BOOLEAN :
          LET u == SetupColorkey(a, v, b) IN
          /\ PortSteps(a, u, v) /\ u.port = a.port /\ u.out = a.out /\ u.rotation = a.rotation
          /\ u.buffered = a.buffered /\ u.mapped = a.mapped /\ u.server = a.server
          /\ u.failed = a.failed /\ u.on = a.on
    BY <1>4, KeySteps
  <2> QED  BY <2>1, <2>2, Zenon
<1> HIDE DEF k
<1>6. GoodBut(k, v) /\ k \in Running
  BY <1>2, <1>5, PortStepsGood DEF GoodBut, Safe
<1>7. /\ p \in Port /\ p.ovl = Ovl(k, v) /\ p.state = k.port[v].state
      /\ p.crtc = q.crtc /\ p.dirty = q.dirty /\ p.turn = q.turn /\ p.rotation = q.rotation
      /\ p.timer = p.noKey
  <2>1. k.port[v] \in Port
    BY <1>6, PortOf
  <2> QED  BY <1>2, <1>5, <2>1 DEF Port, Ovl
<1> HIDE DEF p
<1>8. PortOnly(k, t, v) /\ t.port[v] = p
  BY <1>6, <1>7, PortKeepIs DEF GoodBut
<1> HIDE DEF t
<1>9. GoodBut(t, v) /\ t.server = "up" /\ ~t.failed
  BY <1>2, <1>5, <1>6, <1>8, PortStepsGood DEF PortOnly
<1>10. /\ Ovl(t, v) = Ovl(s, v) /\ (Active(t, v) <=> Active(s, v))
       /\ t.port[v].crtc = s.port[v].crtc /\ t.port[v].dirty = s.port[v].dirty
       /\ t.port[v].turn = s.port[v].turn /\ t.port[v].rotation = s.port[v].rotation
       /\ t.out = s.out /\ t.rotation = s.rotation /\ t.buffered = s.buffered
       /\ t.mapped = s.mapped /\ t.on = s.on /\ t.port[v].timer = t.port[v].noKey
  BY <1>1, <1>2, <1>5, <1>7, <1>8 DEF PortOnly, Ovl, Active
<1>11. PortFine(t, v)
  BY <1>0, <1>10 DEF PortFine, Aimed, Filled, Guarded, Placed, CrtcTurn
<1> QED  BY <1>3, <1>9, <1>11, GoodButOne DEF Done

(* The client waits for its frame. *)
LEMMA SyncVideoIs ==
  ASSUME NEW s, NEW v \in Ports, Good(s), s.server = "up", ~s.failed, Active(s, v)
  PROVE  Done(SyncVideo(s, v))
<1> DEFINE y == CloneSync(s)
           t == SyncVideo(s, v)
<1>0. s \in Running /\ Ovl(s, v) # NoOverlay
  BY DEF Good, Safe, Shared
<1>1. CrtcSteps(s, y) /\ (y.server = "up" => y = s)
  BY <1>0, CloneSyncIs
<1>2. t = y
  BY <1>0 DEF SyncVideo, OverlayWait, Require
<1> HIDE DEF y, t
<1> QED  BY <1>1, <1>2, CrtcGood DEF Done, t

(* The picture is turned, and what is left to the overlay with it. *)
LEMMA SetRotationIs ==
  ASSUME NEW s, NEW v \in Ports, NEW r \in Rotation, Good(s), s.server = "up", ~s.failed
  PROVE  Done(SetRotation(s, v, r))
<1> DEFINE q == [s.port[v] EXCEPT !.rotation = r]
           a == [s EXCEPT !.port[v] = q]
           p == TurnedPort(a, v)
           t == [a EXCEPT !.port[v] = p]
<1>0. PortFine(s, v) /\ s.port[v] \in Port /\ s \in Running
  BY PortOf DEF Good, Safe
<1>1. /\ q \in Port /\ q.ovl = Ovl(s, v) /\ q.state = s.port[v].state
      /\ q.crtc = s.port[v].crtc /\ q.rotation = r
      /\ q.noKey = s.port[v].noKey /\ q.timer = s.port[v].timer
  BY <1>0 DEF Port, Ovl
<1> HIDE DEF q
<1>2. /\ a.port[v] = q /\ PortOnly(s, a, v) /\ GoodBut(a, v) /\ a.server = "up" /\ ~a.failed
  BY <1>1, AttributeSet
<1>3. SetRotation(s, v, r) = UpdateRotation(a, v)
  BY DEF SetRotation, q
<1> HIDE DEF a
<1>4. a \in Running
  BY <1>2 DEF GoodBut, Safe
<1>5. UpdateRotation(a, v) = t
  BY <1>4, UpdateRotationIs
<1>6. /\ p \in Port /\ p.ovl = q.ovl /\ p.state = q.state
      /\ p.crtc = q.crtc /\ p.rotation = q.rotation /\ p.dirty
      /\ p.noKey = q.noKey /\ p.timer = q.timer
      /\ p.turn = update_rotation(q.rotation, CrtcTurn(a, q.crtc))
  <2>1. p \in Port
    BY <1>4, TurnedPortType
  <2> QED  BY <1>1, <1>2, <2>1 DEF TurnedPort, Port
<1> HIDE DEF p
<1>7. PortOnly(a, t, v) /\ t.port[v] = p
  BY <1>2, <1>4, <1>6, PortKeepIs DEF Ovl, GoodBut
<1> HIDE DEF t
<1>8. GoodBut(t, v) /\ t.server = "up" /\ ~t.failed
  BY <1>2, <1>7, PortStepsGood DEF PortOnly
<1>9. /\ Ovl(t, v) = Ovl(s, v) /\ (Active(t, v) <=> Active(s, v))
      /\ t.out = s.out /\ t.on = s.on /\ t.key = s.key
      /\ CrtcTurn(t, q.crtc) = CrtcTurn(a, q.crtc)
  BY <1>1, <1>2, <1>6, <1>7 DEF PortOnly, Ovl, Active, CrtcTurn
<1>10. PortFine(t, v)
  BY <1>0, <1>1, <1>6, <1>7, <1>9 DEF PortFine, Aimed, Filled, Guarded, Placed
<1> QED  BY <1>3, <1>5, <1>8, <1>10, GoodButOne DEF Done

(* The timer has fired: the key is on. *)
LEMMA KeyTimerIs ==
  ASSUME NEW s, NEW v \in Ports, Good(s), s.server = "up", ~s.failed
  PROVE  Done(KeyTimer(s, v))
<1> DEFINE k == SetupColorkey(s, v, TRUE)
           p == [k.port[v] EXCEPT !.timer = FALSE, !.dirty = TRUE]
           t == [k EXCEPT !.port[v] = p]
<1>0. PortFine(s, v) /\ s \in Running /\ GoodBut(s, v) /\ Shared(s)
  BY DEF Good, Safe, GoodBut
<1>1. /\ PortSteps(s, k, v) /\ k.port = s.port /\ k.out = s.out /\ k.rotation = s.rotation
      /\ k.buffered = s.buffered /\ k.mapped = s.mapped /\ k.server = s.server
      /\ k.failed = s.failed /\ k.on = s.on
      /\ Aimed(s, v) /\ s.port[v].crtc # NoCrtc /\ Ovl(s, v) # NoOverlay
           => k.key[s.port[v].crtc] = TRUE
  <2>1. \A b \in BOOLEAN :
          LET u == SetupColorkey(s, v, b) IN
          /\ PortSteps(s, u, v) /\ u.port = s.port /\ u.out = s.out /\ u.rotation = s.rotation
          /\ u.buffered = s.buffered /\ u.mapped = s.mapped /\ u.server = s.server
          /\ u.failed = s.failed /\ u.on = s.on
          /\ Aimed(s, v) /\ s.port[v].crtc # NoCrtc /\ Ovl(s, v) # NoOverlay
               => u.key[s.port[v].crtc] = b
    BY <1>0, KeySteps
  <2>2. TRUE \in BOOLEAN
    OBVIOUS
  <2> QED  BY <2>1, <2>2, Zenon
<1> HIDE DEF k
<1>2. GoodBut(k, v) /\ k \in Running
  BY <1>0, <1>1, PortStepsGood DEF GoodBut, Safe
<1>3. /\ p \in Port /\ p.ovl = Ovl(k, v) /\ p.state = k.port[v].state
      /\ p.crtc = s.port[v].crtc /\ p.dirty /\ p.turn = s.port[v].turn
      /\ p.rotation = s.port[v].rotation
  <2>1. k.port[v] \in Port
    BY <1>2, PortOf
  <2> QED  BY <1>1, <2>1 DEF Port, Ovl
<1>4. KeyTimer(s, v) = t
  BY DEF KeyTimer, k
<1> HIDE DEF p
<1>5. PortOnly(k, t, v) /\ t.port[v] = p
  BY <1>2, <1>3, PortKeepIs DEF GoodBut
<1> HIDE DEF t
<1>6. GoodBut(t, v) /\ t.server = "up" /\ ~t.failed
  BY <1>1, <1>2, <1>5, PortStepsGood DEF PortOnly
<1>7. /\ Ovl(t, v) = Ovl(s, v) /\ (Active(t, v) <=> Active(s, v))
      /\ t.out = s.out /\ t.on = s.on /\ CrtcTurn(t, p.crtc) = CrtcTurn(s, p.crtc)
  BY <1>1, <1>3, <1>5 DEF PortOnly, Ovl, Active, CrtcTurn
<1>8. p.crtc # NoCrtc => t.key[p.crtc]
  <2>1. p.crtc # NoCrtc => Ovl(s, v) # NoOverlay /\ Aimed(s, v)
    BY <1>0, <1>3 DEF PortFine, Shared
  <2> QED  BY <1>1, <1>3, <1>5, <2>1 DEF PortOnly
<1>9. PortFine(t, v)
  BY <1>0, <1>3, <1>5, <1>7, <1>8 DEF PortFine, Aimed, Filled, Guarded, Placed
<1> QED  BY <1>4, <1>6, <1>9, GoodButOne DEF Done

(* The next overlay is taken from another place. *)
LEMMA SetStackingIs ==
  ASSUME NEW s, NEW v \in Ports, NEW use \in Xv, Good(s), s.server = "up", ~s.failed
  PROVE  Done([s EXCEPT !.port[v].stacking = use])
<1> DEFINE q == [s.port[v] EXCEPT !.stacking = use]
<1>1. /\ q \in Port /\ q.ovl = Ovl(s, v) /\ q.state = s.port[v].state
      /\ q.crtc = s.port[v].crtc /\ q.turn = s.port[v].turn
      /\ q.rotation = s.port[v].rotation /\ q.noKey = s.port[v].noKey
      /\ q.timer = s.port[v].timer /\ q.dirty = s.port[v].dirty
  <2>1. s.port[v] \in Port
    BY PortOf DEF Good, Safe
  <2> QED  BY <2>1 DEF Port, Ovl, Xv
<1>2. [s EXCEPT !.port[v].stacking = use] = [s EXCEPT !.port[v] = q]
  OBVIOUS
<1> HIDE DEF q
<1> QED  BY <1>1, <1>2, FineSet DEF Done

-----------------------------------------------------------------------------
(* The requests of RandR, DPMS and page flips. *)

(* What happens to a CRTC is over when the request has ended. *)
LEMMA SetDpmsSettled ==
  ASSUME NEW s \in Running, NEW c \in Crtc, NEW on \in BOOLEAN, s.server = "up", ~s.failed
  PROVE  SetDpms(s, c, on).server = "up" => ~SetDpms(s, c, on).failed
<1> DEFINE r == [s EXCEPT !.dpms[c] = on]
           got == GetCrtcOverlay(r, c)
           lit == OverlayEnable(got, got.crtcOvl[c])
           any == IF got.failed THEN got ELSE lit
           off == OverlayDisable(r, s.crtcOvl[c])
           p == PoolPut(off, off.crtcOvl[c])
           put == PutCrtcOverlay(off, c)
           t == SetDpms(s, c, on)
<1>1. r \in Running /\ r.crtcOvl = s.crtcOvl /\ ~r.failed /\ r.server = "up"
  BY SetDpmsFlag DEF Steps, Running, Device
<1>2. CASE on
  <2>1. Steps(r, got)
    BY <1>1, GetCrtcOverlayType
  <2>2. Steps(got, lit)
    <3> HIDE DEF got
    <3> QED  BY <2>1, EnableType, CrtcFields DEF Steps
  <2>3. any \in Running
    <3> HIDE DEF got, lit
    <3> QED  BY <2>1, <2>2 DEF Steps
  <2>4. t = Ignoring(any)
    BY <1>2 DEF SetDpms
  <2> HIDE DEF any, t
  <2> QED  BY <2>3, <2>4 DEF Ignoring, Running, Device, t
<1>3. CASE ~on /\ s.crtcOvl[c] = NoOverlay
  BY <1>1, <1>3 DEF SetDpms
<1>4. CASE ~on /\ s.crtcOvl[c] # NoOverlay
  <2>1. s.crtcOvl[c] \in Overlay
    BY <1>4, CrtcFields DEF OrNone
  <2> HIDE DEF r
  <2>2. Tuned(r, off, s.crtcOvl[c]) /\ off.failed = r.failed
    BY <1>1, <2>1, DisableIs
  <2>3. t = IF s.enabled[c] THEN off ELSE put
    BY <1>4 DEF SetDpms, r
  <2> HIDE DEF off
  <2>4. off \in Running /\ off.crtcOvl = s.crtcOvl /\ off.server = "up" /\ ~off.failed
    BY <1>1, <2>2 DEF Tuned, Apart, Steps
  <2>5. put = [p EXCEPT !.crtcOvl[c] = NoOverlay]
    BY <1>4, <2>4 DEF PutCrtcOverlay
  <2>6. Apart(off, p, off.crtcOvl[c]) /\ ~p.failed
    BY <2>1, <2>4, PoolPutIs
  <2> HIDE DEF p, put, t
  <2>7. put.failed = p.failed
    BY <2>5, <2>6 DEF Apart, Steps, Running, Device
  <2> QED  BY <2>3, <2>4, <2>6, <2>7 DEF t
<1> QED  BY <1>2, <1>3, <1>4

(* All of crtc_dpms. *)
LEMMA SetDpmsDone ==
  ASSUME NEW s, NEW c \in Crtc, NEW on \in BOOLEAN, Good(s), s.server = "up", ~s.failed
  PROVE  Done(SetDpms(s, c, on))
  BY SetDpmsIs, SetDpmsSettled, CrtcGood DEF Good, Safe, Done

(* A CRTC is disabled. *)
LEMMA DisableCrtcDone ==
  ASSUME NEW s, NEW c \in Crtc, Good(s), s.server = "up", ~s.failed
  PROVE  Done(DisableCrtc(s, c))
<1> DEFINE r == [s EXCEPT !.enabled[c] = FALSE]
<1>0. s \in Running
  BY DEF Good, Safe
<1>1. r \in Running /\ r.server = "up" /\ ~r.failed
  BY <1>0 DEF Running, Device
<1>2. Good(DisableCrtc(s, c))
  BY <1>0, DisableCrtcIs, CrtcGood
<1>3. DisableCrtc(s, c) = SetDpms(r, c, FALSE)
  BY DEF DisableCrtc
<1> HIDE DEF r
<1> QED  BY <1>1, <1>2, <1>3, SetDpmsSettled DEF Done

(* A pan that fails is not a failure of the request. *)
LEMMA PanSettled ==
  ASSUME NEW s \in Running, NEW o
  PROVE  OverlayPan(s, o).server = "up" => ~OverlayPan(s, o).failed
<1> DEFINE r == Require(s, o # NoOverlay /\ s.fb[o] # NoFb, "pan")
<1>1. r \in Running
  BY RequireType DEF Steps, Death
<1>2. OverlayPan(s, o) = Ignoring(r)
  BY DEF OverlayPan
<1> HIDE DEF r
<1> QED  BY <1>1, <1>2 DEF Ignoring, Running, Device

(* A CRTC shows another part of the screen. *)
LEMMA SetOriginDone ==
  ASSUME NEW s, NEW c \in Crtc, Good(s), s.server = "up", ~s.failed
  PROVE  Done(SetOrigin(s, c))
<1> DEFINE p == OverlayPan(s, s.crtcOvl[c])
           t == SetOrigin(s, c)
<1>0. s \in Running
  BY DEF Good, Safe
<1>1. Good(t)
  BY <1>0, SetOriginIs, CrtcGood
<1>2. t \in {s, UpdateCrtc(p, c)}
  BY DEF SetOrigin
<1>3. p \in Running /\ (p.server = "up" => ~p.failed)
  BY <1>0, PanIs, PanSettled DEF CrtcSteps, Steps
<1> HIDE DEF p, t
<1>4. UpdateCrtc(p, c).server = p.server /\ UpdateCrtc(p, c).failed = p.failed
  BY <1>3, UpdateCrtcSteps
<1> QED  BY <1>1, <1>2, <1>3, <1>4 DEF Done, t

(* All CRTCs do. *)
LEMMA FlipCrtcsDone ==
  ASSUME NEW s, Good(s), s.server = "up", ~s.failed
  PROVE  Done(FlipCrtcs(s))
<1> DEFINE p == OverlayPan(s, s.crtcOvl["CRTC0"])
           t == FlipCrtcs(s)
<1>0. s \in Running
  BY DEF Good, Safe
<1>1. Good(t)
  BY <1>0, FlipCrtcsIs, CrtcGood
<1>2. p \in Running /\ (p.server = "up" => ~p.failed)
  BY <1>0, PanIs, PanSettled DEF CrtcSteps, Steps
<1>3. t \in {s, p, OverlayPan(s, s.crtcOvl["CRTC1"]), OverlayPan(p, s.crtcOvl["CRTC1"])}
  BY DEF FlipCrtcs
<1> HIDE DEF p, t
<1> QED  BY <1>0, <1>1, <1>2, <1>3, PanSettled DEF Done, t

(* RandR sets a mode, or goes back to the one before. *)
LEMMA SetCrtcModeIs ==
  ASSUME NEW s, NEW c \in Crtc, NEW r \in Rotation, Good(s), s.server = "up", ~s.failed
  PROVE  Done(SetCrtcMode(s, c, r))
<1> DEFINE m == [s EXCEPT !.enabled[c] = TRUE, !.rotation[c] = r]
           set == SetModeMajor(m, c)
           i == Ignoring(set)
           en == s.enabled[c]
           ro == s.rotation[c]
           d == [i EXCEPT !.enabled[c] = en, !.rotation[c] = ro]
           t == SetCrtcMode(s, c, r)
<1>0. s \in Running /\ s \in Device /\ Shared(s) /\ \A v \in Ports : PortFine(s, v)
  BY DEF Good, Safe, Running
<1>1. Steps(s, m)
  BY <1>0, SetModeFields
<1>2. /\ m.port = s.port /\ m.usage = s.usage /\ m.fb = s.fb /\ m.out = s.out /\ m.on = s.on
      /\ m.mem = s.mem /\ m.size = s.size /\ m.buffered = s.buffered /\ m.mapped = s.mapped
      /\ m.key = s.key /\ m.crtcOvl = s.crtcOvl /\ m.server = "up" /\ m.enabled[c]
      /\ \A e \in Crtc : e # c => m.rotation[e] = s.rotation[e]
  BY <1>0 DEF Device
<1>3. t = IF set.failed THEN d ELSE set
  BY DEF SetCrtcMode
<1> HIDE DEF m
<1>4. Shared(m) /\ m \in Running
  <2>1. \A v \in Ports : Ovl(m, v) = Ovl(s, v) /\ (Active(m, v) <=> Active(s, v))
    BY <1>2 DEF Ovl, Active
  <2> QED  BY <1>0, <1>1, <1>2, <2>1, SameShared DEF Steps
<1>5. ModeSet(m, set, c)
  BY <1>2, <1>4, SetModeMajorIs
<1> HIDE DEF set, t
<1>6. /\ set.server = "up" /\ set.rotation = m.rotation
      /\ set.failed => set.port = m.port
      /\ ~set.failed => \A v \in Ports : set.port[v] = UpdatedPort(m, v, c)
      /\ Shared(set) /\ Framed(m, set) /\ set \in Running
  BY <1>2, <1>4, <1>5 DEF ModeSet, CrtcSteps, Steps
<1>7. CASE set.failed
  <2>1. /\ CrtcSteps(set, i) /\ Tuned(set, i, 0) /\ i.fb = set.fb /\ i.on = set.on
        /\ i.out = set.out /\ ~i.failed
    BY <1>6, CrtcStepsIgnoring, IgnoringTuned
  <2> HIDE DEF i
  <2>2. i \in Running /\ Shared(i) /\ i.server = "up"
    BY <1>6, <2>1 DEF CrtcSteps, Steps, Tuned, Apart
  <2>3. en \in BOOLEAN /\ ro \in Rotation
    BY <1>0 DEF Device
  <2>4. Steps(i, d)
    <3> HIDE DEF en, ro
    <3> QED  BY <2>2, <2>3, SetModeFields
  <2>5. /\ d.port = i.port /\ d.usage = i.usage /\ d.fb = i.fb /\ d.out = i.out /\ d.on = i.on
        /\ d.mem = i.mem /\ d.size = i.size /\ d.buffered = i.buffered /\ d.mapped = i.mapped
        /\ d.key = i.key /\ d.crtcOvl = i.crtcOvl /\ d.server = "up" /\ ~d.failed
    BY <2>1, <2>2 DEF Running, Device
  <2>6. d.rotation = s.rotation
    <3>1. i.rotation = m.rotation
      BY <1>6, <2>1 DEF Tuned, Apart
    <3>2. m.rotation = [s.rotation EXCEPT ![c] = r]
      BY <1>0 DEF m, Device
    <3>3. d.rotation = [i.rotation EXCEPT ![c] = ro]
      BY <2>2 DEF Running, Device
    <3> HIDE DEF d
    <3> QED  BY <1>0, <3>1, <3>2, <3>3 DEF Device
  <2> HIDE DEF d
  <2>7. Shared(d) /\ d \in Running
    <3>1. \A v \in Ports : Ovl(d, v) = Ovl(i, v) /\ (Active(d, v) <=> Active(i, v))
      BY <2>5 DEF Ovl, Active
    <3> QED  BY <2>2, <2>4, <2>5, <3>1, SameShared DEF Steps
  <2>8. /\ d.port = s.port /\ d.key = s.key /\ d.buffered = s.buffered /\ d.mapped = s.mapped
        /\ d.fb = set.fb /\ d.out = set.out /\ d.on = set.on
    BY <1>2, <1>6, <1>7, <2>1, <2>5 DEF Tuned, Apart, Framed
  <2>9. \A v \in Ports : PortFine(d, v)
    <3> TAKE v \in Ports
    <3>1. Kept(m, set, v)
      BY <1>6 DEF Framed
    <3>2. Spared(s, d, v)
      BY <1>2, <2>8, <3>1 DEF Spared, Kept, Ovl, Active
    <3> QED  BY <1>0, <2>6, <2>8, <3>2, SparedFine
  <2> QED  BY <1>3, <1>7, <2>5, <2>7, <2>9 DEF Done, Good, Safe, Doomed, t
<1>8. CASE ~set.failed
  <2>1. \A v \in Ports : PortFine(set, v)
    <3> TAKE v \in Ports
    <3> DEFINE q == UpdatedPort(m, v, c)
    <3>1. Kept(m, set, v) /\ set.port[v] = q
      BY <1>6, <1>8 DEF Framed
    <3>2. /\ q.state = s.port[v].state /\ q.ovl = s.port[v].ovl /\ q.crtc = s.port[v].crtc
          /\ q.noKey = s.port[v].noKey /\ q.timer = s.port[v].timer
          /\ q.rotation = s.port[v].rotation
          /\ s.port[v].dirty => q.dirty
          /\ IF s.port[v].crtc = c
             THEN q.turn = update_rotation(s.port[v].rotation, CrtcTurn(m, c))
             ELSE q = s.port[v]
      BY <1>2, <1>4, UpdatedPortIs
    <3> HIDE DEF q
    <3>3. /\ Ovl(set, v) = Ovl(s, v) /\ (Active(set, v) <=> Active(s, v))
          /\ Ovl(s, v) # NoOverlay => set.out[Ovl(s, v)] = s.out[Ovl(s, v)]
      BY <1>2, <3>1 DEF Kept, Ovl, Active
    <3>4. CrtcTurn(set, s.port[v].crtc) = CrtcTurn(m, s.port[v].crtc)
      BY <1>6 DEF CrtcTurn
    <3>5. s.port[v].crtc # c => CrtcTurn(m, s.port[v].crtc) = CrtcTurn(s, s.port[v].crtc)
      BY <1>0, <1>2, PortFields DEF CrtcTurn
    <3>6. PortFine(s, v)
      BY <1>0
    <3>7. Aimed(set, v)
      <4> SUFFICES ASSUME s.port[v].crtc # NoCrtc PROVE Aimed(set, v)
        BY <3>1, <3>2 DEF Aimed
      <4>1. Ovl(s, v) # NoOverlay
        BY <1>0, <3>6 DEF PortFine, Shared
      <4> QED  BY <3>1, <3>2, <3>3, <3>4, <3>5, <3>6, <4>1 DEF Aimed, PortFine
    <3>8. Filled(set, v)
      BY <1>2, <1>6, <3>1, <3>2, <3>3, <3>6 DEF Filled, PortFine, Framed
    <3>9. Guarded(set, v)
      BY <1>2, <1>6, <3>1, <3>2, <3>6 DEF Guarded, PortFine, Framed
    <3>10. Placed(set, v)
      BY <1>0, <1>2, <3>1, <3>2, <3>3, <3>6 DEF Placed, PortFine, Shared, Kept
    <3> QED  BY <3>1, <3>2, <3>3, <3>6, <3>7, <3>8, <3>9, <3>10 DEF PortFine
  <2> QED  BY <1>3, <1>6, <1>8, <2>1 DEF Done, Good, Safe, Doomed, t
<1> QED  BY <1>7, <1>8

-----------------------------------------------------------------------------
(* A new size of the screen. *)

(* Nothing but the screen's memory, the planes that are on and the failure. *)
Screened(s, t) ==
  /\ Steps(s, t)
  /\ t.port = s.port /\ t.out = s.out /\ t.fb = s.fb /\ t.usage = s.usage
  /\ t.crtcOvl = s.crtcOvl /\ t.key = s.key /\ t.rotation = s.rotation
  /\ \A f \in Fb : f # 0 =>
       /\ t.mem[f] = s.mem[f] /\ t.size[f] = s.size[f]
       /\ t.buffered[f] = s.buffered[f] /\ t.mapped[f] = s.mapped[f]

(* Two such steps are one. *)
LEMMA ScreenedAgain ==
  ASSUME NEW s, NEW t, NEW u, Screened(s, t), Screened(t, u)
  PROVE  Screened(s, u)
<1>1. Steps(s, u)
  BY StepsAgain DEF Screened
<1> QED  BY <1>1 DEF Screened

(* The screen's memory is there when the driver thinks so. *)
Backed(s) == s.size[0] # 0 => s.mem[0] # 0

(* The screen is unmapped, the overlays that scan it go off. *)
LEMMA ScreenUnmapped ==
  ASSUME NEW s \in Running, NEW off
  PROVE  LET t == [FbUnmap(s, 0) EXCEPT !.on = @ \ off] IN
         /\ Screened(s, t) /\ t.server = s.server /\ t.failed = s.failed
         /\ t.on = s.on \ off /\ t.mem = s.mem /\ t.size = s.size
         /\ ~t.mapped[0]
<1> DEFINE t == [FbUnmap(s, 0) EXCEPT !.on = @ \ off]
<1>0. s \in Device
  BY DEF Running
<1>1. t = [s EXCEPT !.mapped[0] = FALSE, !.on = @ \ off]
  BY <1>0 DEF FbUnmap, Device
<1> HIDE DEF t
<1>2. /\ t.port = s.port /\ t.out = s.out /\ t.fb = s.fb /\ t.usage = s.usage
      /\ t.crtcOvl = s.crtcOvl /\ t.key = s.key /\ t.rotation = s.rotation
      /\ t.server = s.server /\ t.failed = s.failed /\ t.on = s.on \ off
      /\ t.mem = s.mem /\ t.size = s.size /\ t.buffered = s.buffered
      /\ t.mapped = [s.mapped EXCEPT ![0] = FALSE] /\ t.fault = s.fault
  BY <1>0, <1>1 DEF Device
<1>3. 0 \in Fb /\ s.mapped \in [Fb -> BOOLEAN]
  BY <1>0 DEF Fb, Device
<1>4. t.mapped[0] = FALSE /\ \A f \in Fb : f # 0 => t.mapped[f] = s.mapped[f]
  BY <1>2, <1>3
<1>5. Steps(s, t)
  BY <1>1 DEF Steps, Running, Device
<1> QED  BY <1>2, <1>4, <1>5 DEF Screened, t

(* It has its new memory, or the old. *)
LEMMA ScreenAllocated ==
  ASSUME NEW s \in Running, NEW n \in Sizes, s.server = "up", ~s.failed, Backed(s)
  PROVE  LET t == Ignoring(FbAlloc(s, 0, n)) IN
         /\ Screened(s, t) /\ t.server = "up" /\ ~t.failed
         /\ t.on = s.on /\ t.mapped = s.mapped /\ Backed(t)
         /\ s.mem[0] # 0 \/ (s.fault = "none" /\ s.on = {} /\ s.fb[0] = 0 /\ ~s.mapped[0])
              => t.mem[0] # 0
<1> DEFINE got == FbAlloc(s, 0, n)
           t == Ignoring(got)
<1>0. s \in Device /\ n # 0 /\ 0 \in Fb
  BY OverlaysAssumption DEF Running, Fb
<1>1. Steps(s, got)
  BY <1>0, FbAllocType
<1>2. \/ got = [s EXCEPT !.failed = TRUE]
         /\ ~(s.fault = "none" /\ s.on = {} /\ s.fb[0] = 0 /\ ~s.mapped[0])
      \/ s.size[0] = n /\ got = [s EXCEPT !.buffered[0] = TRUE]
      \/ got = [s EXCEPT !.mem[0] = n, !.size[0] = n, !.buffered[0] = TRUE]
  <2>1. s.fb[0] = 0 => FbReachable(s, 0)
    BY DEF FbReachable, Overlay
  <2>2. s.on = {} /\ ~s.mapped[0] => ~MemBusy(s, 0)
    BY DEF MemBusy
  <2>3. s.fault = "none" => ~Fails(s, "alloc")
    BY DEF Fails
  <2> QED  BY <2>1, <2>2, <2>3 DEF FbAlloc
<1>3. got \in Running
  BY <1>1 DEF Steps
<1>4. t = [got EXCEPT !.failed = got.server # "up"]
  BY DEF Ignoring
<1> HIDE DEF got, t
<1>5. /\ got.port = s.port /\ got.out = s.out /\ got.fb = s.fb /\ got.usage = s.usage
      /\ got.crtcOvl = s.crtcOvl /\ got.key = s.key /\ got.rotation = s.rotation
      /\ got.server = s.server /\ got.on = s.on /\ got.mapped = s.mapped
      /\ got.size[0] # 0 => got.mem[0] # 0
      /\ s.mem[0] # 0 \/ (s.fault = "none" /\ s.on = {} /\ s.fb[0] = 0 /\ ~s.mapped[0])
           => got.mem[0] # 0
      /\ \A f \in Fb : f # 0 => /\ got.mem[f] = s.mem[f] /\ got.size[f] = s.size[f]
                                /\ got.buffered[f] = s.buffered[f]
  <2>1. CASE got = [s EXCEPT !.failed = TRUE]
         /\ ~(s.fault = "none" /\ s.on = {} /\ s.fb[0] = 0 /\ ~s.mapped[0])
    BY <1>0, <2>1 DEF Device, Backed
  <2>2. CASE s.size[0] = n /\ got = [s EXCEPT !.buffered[0] = TRUE]
    BY <1>0, <2>2 DEF Device, Backed
  <2>3. CASE got = [s EXCEPT !.mem[0] = n, !.size[0] = n, !.buffered[0] = TRUE]
    BY <1>0, <2>3 DEF Device
  <2> QED  BY <1>2, <2>1, <2>2, <2>3
<1>6. /\ t.port = got.port /\ t.out = got.out /\ t.fb = got.fb /\ t.usage = got.usage
      /\ t.crtcOvl = got.crtcOvl /\ t.key = got.key /\ t.rotation = got.rotation
      /\ t.server = got.server /\ t.on = got.on /\ t.mapped = got.mapped
      /\ t.mem = got.mem /\ t.size = got.size /\ t.buffered = got.buffered /\ ~t.failed
  BY <1>3, <1>4, <1>5 DEF Running, Device
<1>7. Steps(got, t)
  BY <1>3, IgnoringType DEF t, Running
<1>8. Steps(s, t)
  BY <1>1, <1>7, StepsAgain
<1> QED  BY <1>5, <1>6, <1>8 DEF Screened, Backed, t, got

(* It is mapped again: there is memory to map. *)
LEMMA ScreenMapped ==
  ASSUME NEW s \in Running, s.server = "up", ~s.failed, s.mem[0] # 0, ~s.mapped[0]
  PROVE  LET t == FbMap(s, 0) IN
         /\ Screened(s, t) /\ t.server = "up" /\ t.on = s.on /\ t.mem = s.mem
         /\ t.size = s.size
         /\ s.fault = "none" /\ s.fb[0] = 0 => ~t.failed
<1> DEFINE with == [s EXCEPT !.fb = [o \in Overlay |-> 0]]
           r == Require(s, HasMem(with, 0), "map")
           t == FbMap(s, 0)
<1>0. s \in Device /\ 0 \in Fb /\ 0 \in Overlay
  BY DEF Running, Fb, Overlay
<1>1. HasMem(with, 0)
  <2>1. with.fb = [o \in Overlay |-> 0] /\ with.mem = s.mem
    BY <1>0 DEF Device
  <2> HIDE DEF with
  <2>2. with.fb[0] = 0
    BY <1>0, <2>1
  <2> QED  BY <2>1, <2>2, OverlaysAssumption DEF HasMem
<1> HIDE DEF with
<1>2. r = s
  BY <1>1 DEF Require
<1>3. \/ t = [s EXCEPT !.failed = TRUE] /\ ~(s.fault = "none" /\ s.fb[0] = 0)
      \/ t = [s EXCEPT !.mapped[0] = TRUE]
  <2>1. s.fb[0] = 0 => FbReachable(s, 0)
    BY DEF FbReachable, Overlay
  <2>2. t = IF Fails(s, "map") \/ ~FbReachable(s, 0)
            THEN [s EXCEPT !.failed = TRUE] ELSE [s EXCEPT !.mapped[0] = TRUE]
    <3>1. t = IF r.failed \/ Fails(r, "map") \/ ~FbReachable(r, 0)
              THEN [r EXCEPT !.failed = TRUE] ELSE [r EXCEPT !.mapped[0] = TRUE]
      BY DEF FbMap, with
    <3> HIDE DEF r, t
    <3> QED  BY <1>2, <3>1
  <2> HIDE DEF t
  <2> QED  BY <2>1, <2>2 DEF Fails
<1>4. Steps(s, t)
  BY <1>0, FbMapType
<1> HIDE DEF t
<1>5. /\ t.port = s.port /\ t.out = s.out /\ t.fb = s.fb /\ t.usage = s.usage
      /\ t.crtcOvl = s.crtcOvl /\ t.key = s.key /\ t.rotation = s.rotation
      /\ t.server = s.server /\ t.on = s.on /\ t.mem = s.mem /\ t.size = s.size
      /\ t.buffered = s.buffered
      /\ s.fault = "none" /\ s.fb[0] = 0 => ~t.failed
      /\ \A f \in Fb : f # 0 => t.mapped[f] = s.mapped[f]
  <2>1. CASE t = [s EXCEPT !.failed = TRUE] /\ ~(s.fault = "none" /\ s.fb[0] = 0)
    BY <1>0, <2>1 DEF Device
  <2>2. CASE t = [s EXCEPT !.mapped[0] = TRUE]
    BY <1>0, <2>2 DEF Device
  <2> QED  BY <1>3, <2>1, <2>2
<1> QED  BY <1>4, <1>5 DEF Screened, t

(* All of realloc_fb; what it cannot map ends the server. *)
LEMMA ReallocFbIs ==
  ASSUME NEW s \in Running, NEW n \in Sizes, s.server = "up", ~s.failed, Backed(s),
         s.mem[0] # 0 \/ (s.fault = "none" /\ s.on = {} /\ s.fb[0] = 0)
  PROVE  LET t == ReallocFb(s, n) IN
         /\ Steps(s, t) /\ t.server \in {"up", "fatal"}
         /\ t.server = "up" =>
              /\ Screened(s, t) /\ ~t.failed
              /\ Backed(t) /\ t.mem[0] # 0 /\ t.on \subseteq s.on
              /\ \A o \in s.on : o \in t.on \/ s.usage[o] \in Crtc
         /\ s.fault = "none" /\ s.fb[0] = 0 => t.server = "up"
<1> DEFINE lit == {o \in s.on : s.usage[o] \in Crtc}
           b == [FbUnmap(s, 0) EXCEPT !.on = @ \ lit]
           d == Ignoring(FbAlloc(b, 0, n))
           back == FbMap(d, 0)
           calm == Ignoring(back)
           dead == Require(calm, FALSE, "fatal")
           again == IF Fails(s, "enable") THEN {} ELSE lit
           e == [back EXCEPT !.on = @ \cup again]
           t == ReallocFb(s, n)
<1>0. Steps(s, t)
  BY ReallocFbType
<1>1. t = IF back.failed THEN dead ELSE e
  BY DEF ReallocFb
<1>2. /\ Screened(s, b) /\ b.server = s.server /\ b.failed = s.failed
      /\ b.on = s.on \ lit /\ b.mem = s.mem /\ b.size = s.size /\ ~b.mapped[0]
  BY ScreenUnmapped
<1> HIDE DEF b, t
<1>3. b \in Running /\ Backed(b) /\ b.fault = s.fault /\ b.fb = s.fb
  BY <1>2 DEF Screened, Steps, Backed
<1>4. /\ Screened(b, d) /\ d.server = "up" /\ ~d.failed
      /\ d.on = b.on /\ d.mapped = b.mapped /\ Backed(d)
      /\ b.mem[0] # 0 \/ (b.fault = "none" /\ b.on = {} /\ b.fb[0] = 0 /\ ~b.mapped[0])
              => d.mem[0] # 0
  BY <1>2, <1>3, ScreenAllocated
<1>5. d.mem[0] # 0
  <2>1. s.on = {} => b.on = {}
    BY <1>2
  <2> QED  BY <1>2, <1>3, <1>4, <2>1
<1> HIDE DEF d
<1>6. d \in Running /\ d.fault = s.fault /\ d.fb = s.fb
  BY <1>3, <1>4 DEF Screened, Steps
<1>7. /\ Screened(d, back) /\ back.server = "up" /\ back.on = d.on /\ back.mem = d.mem
      /\ back.size = d.size
      /\ d.fault = "none" /\ d.fb[0] = 0 => ~back.failed
  BY <1>2, <1>4, <1>5, <1>6, ScreenMapped
<1> HIDE DEF back
<1>8. back \in Running
  BY <1>7 DEF Screened, Steps
<1>9. CASE back.failed
  <2>1. calm \in Device /\ calm.server = "up"
    BY <1>7, <1>8 DEF Ignoring, Running, Device
  <2> HIDE DEF calm
  <2>2. dead.server = "fatal"
    BY <2>1 DEF Require, Device
  <2> QED  BY <1>0, <1>1, <1>6, <1>7, <1>9, <2>2 DEF t
<1>10. CASE ~back.failed
  <2>1. again \subseteq lit /\ lit \subseteq s.on /\ s.on \subseteq Overlay
    BY DEF Running, Device
  <2>2. b.on \subseteq s.on /\ back.on = b.on
    BY <1>2, <1>4, <1>7
  <2>3. \A o \in s.on : o \in b.on \/ s.usage[o] \in Crtc
    BY <1>2
  <2> HIDE DEF again, lit
  <2>4. /\ e.port = back.port /\ e.out = back.out /\ e.fb = back.fb /\ e.usage = back.usage
        /\ e.crtcOvl = back.crtcOvl /\ e.key = back.key /\ e.rotation = back.rotation
        /\ e.server = back.server /\ e.failed = back.failed /\ e.mem = back.mem
        /\ e.size = back.size /\ e.buffered = back.buffered /\ e.mapped = back.mapped
        /\ e.on = back.on \cup again /\ e.fault = back.fault
    BY <1>8 DEF Running, Device
  <2>5. t = e
    BY <1>1, <1>10
  <2> HIDE DEF e
  <2>6. Screened(s, back)
    BY <1>2, <1>4, <1>7, ScreenedAgain
  <2>7. Screened(s, t)
    BY <1>0, <2>4, <2>5, <2>6 DEF Screened
  <2>8. Backed(t) /\ t.mem[0] # 0
    BY <1>4, <1>5, <1>7, <2>4, <2>5 DEF Backed
  <2>9. t.on \subseteq s.on /\ \A o \in s.on : o \in t.on \/ s.usage[o] \in Crtc
    BY <2>1, <2>2, <2>3, <2>4, <2>5
  <2>10. t.server = "up" /\ ~t.failed
    BY <1>7, <1>10, <2>4, <2>5
  <2> QED  BY <1>0, <2>7, <2>8, <2>9, <2>10 DEF t
<1> QED  BY <1>9, <1>10

(* The screen changes its memory: only CRTC overlays are touched. *)
LEMMA ReallocFbDone ==
  ASSUME NEW s, NEW n \in Sizes, Good(s), s.server = "up", ~s.failed
  PROVE  Done(ReallocFb(s, n))
<1> DEFINE t == ReallocFb(s, n)
<1>0. s \in Running /\ Shared(s) /\ Backed(s) /\ s.mem[0] # 0
  BY DEF Good, Safe, Shared, Backed, Fb
<1>1. /\ Steps(s, t) /\ t.server \in {"up", "fatal"}
      /\ t.server = "up" =>
           /\ Screened(s, t) /\ ~t.failed
           /\ Backed(t) /\ t.mem[0] # 0 /\ t.on \subseteq s.on
           /\ \A o \in s.on : o \in t.on \/ s.usage[o] \in Crtc
  BY <1>0, ReallocFbIs
<1> HIDE DEF t
<1>2. CASE t.server # "up"
  <2>1. t.server \notin Doomed /\ t \in Running
    BY <1>1 DEF Doomed, Steps
  <2> QED  BY <1>2, <2>1 DEF Good, Safe, Done, t
<1>3. CASE t.server = "up"
  <2>1. \A v \in Ports : Ovl(t, v) = Ovl(s, v) /\ (Active(t, v) <=> Active(s, v))
    BY <1>1, <1>3 DEF Screened, Ovl, Active
  <2>2. \A v \in Ports : Ovl(s, v) # NoOverlay => Ovl(s, v) \in Overlay /\ s.usage[Ovl(s, v)] \notin Crtc
    BY <1>0, PortFields DEF Shared, PoolOf, OrNone, Xv, Crtc
  <2>3. NoOverlay \notin s.on
    BY <1>0, OverlaysAssumption DEF Running, Device, Overlay
  <2>4. \A v \in Ports : Ovl(s, v) \in t.on <=> Ovl(s, v) \in s.on
    BY <1>1, <1>3, <2>2, <2>3
  <2>5. PoolOf(t)
    BY <1>0, <1>1, <1>3, <2>1 DEF Shared, PoolOf, Screened
  <2>6. \A f \in Fb : t.size[f] # 0 => t.mem[f] # 0
    BY <1>0, <1>1, <1>3 DEF Shared, Screened, Backed
  <2>7. Shared(t)
    BY <1>0, <1>1, <1>3, <2>1, <2>4, <2>5, <2>6 DEF Shared, Screened
  <2>8. \A w \in Ports : Spared(s, t, w)
    BY <1>1, <1>3, <2>1, <2>4, VideoFbIs DEF Spared, Kept, Screened
  <2>9. \A w \in Ports : PortFine(t, w)
    BY <1>0, <1>1, <1>3, <2>8, SparedFine DEF Good, Screened
  <2>10. t.server \notin Doomed /\ t \in Running /\ ~t.failed
    BY <1>1, <1>3 DEF Doomed, Steps
  <2> QED  BY <1>3, <2>7, <2>9, <2>10 DEF Good, Safe, Done, t
<1> QED  BY <1>2, <1>3 DEF t

(* A client gives the framebuffer of its port memory. *)
LEMMA ClientAllocIs ==
  ASSUME NEW s, NEW v \in Ports, NEW n \in Sizes, Good(s), s.server = "up", ~s.failed
  PROVE  Done([s EXCEPT !.mem[VideoFb(v)] = n])
<1> DEFINE f == VideoFb(v)
           t == [s EXCEPT !.mem[f] = n]
<1>0. s \in Running /\ s \in Device /\ PortFine(s, v) /\ n # 0 /\ f \in Fb
  BY OverlaysAssumption, VideoFbIs DEF Good, Safe, Running
<1>1. Steps(s, t)
  BY <1>0, ClientAllocType
<1> HIDE DEF f
<1>2. /\ t.server = s.server /\ t.usage = s.usage /\ t.fb = s.fb /\ t.out = s.out
      /\ t.on = s.on /\ t.size = s.size /\ t.crtcOvl = s.crtcOvl
      /\ t.buffered = s.buffered /\ t.mapped = s.mapped /\ t.key = s.key
      /\ t.rotation = s.rotation /\ t.port = s.port /\ t.failed = s.failed
      /\ t.mem[f] = n /\ \A g \in Fb : g # f => t.mem[g] = s.mem[g]
  BY <1>0 DEF Device
<1> HIDE DEF t
<1>3. PortSteps(s, t, v)
  BY <1>0, <1>1, <1>2, FbSteps DEF f
<1>4. GoodBut(t, v)
  BY <1>3, GoodButOne, PortStepsGood
<1>5. Filled(t, v)
  BY <1>0, <1>2 DEF PortFine, Filled, Active
<1>6. PortFine(t, v)
  BY <1>0, <1>2, <1>5, FineAgain
<1> QED  BY <1>2, <1>4, <1>6, GoodButOne DEF Done, t, f

-----------------------------------------------------------------------------
(* The start. *)

(* Before the first request: nobody has an overlay, nothing is on or mapped. *)
Fresh(s) ==
  /\ s \in Running /\ s.server = "up" /\ s.fault = "none" /\ ~s.failed
  /\ s.on = {} /\ s.port = [v \in Ports |-> FreshPort]
  /\ \A o \in Overlay : s.usage[o] = "NONE"
  /\ \A c \in Crtc : s.crtcOvl[c] = NoOverlay
  /\ \A f \in Fb : ~s.mapped[f] /\ (s.size[f] # 0 => s.mem[f] # 0)

(* A port that was never used. *)
LEMMA FreshPortType == FreshPort \in Port
  BY DEF FreshPort, Port, Rotate0, Rotation, Bit

(* So is everything when it has been opened, whatever the kernel had allocated. *)
LEMMA OpenedFresh ==
  ASSUME NEW kernel \in [Fb -> Sizes \cup {0}]
  PROVE  Fresh(Opened(kernel))
<1>1. Rotate0 \in Rotation
  BY DEF Rotate0, Rotation, Bit
<1>2. Opened(kernel) \in Device
  BY <1>1, FreshPortType
     DEF Opened, OpenedOverlays, OpenedFbs, Device, Usage, Fault, Death
<1> QED  BY <1>2 DEF Fresh, Running, Opened, OpenedOverlays, OpenedFbs

(* And stays so while nobody takes or switches on anything. *)
LEMMA FreshSame ==
  ASSUME NEW s, NEW t, Fresh(s), Steps(s, t), t.server = s.server, t.failed = s.failed,
         t.on = s.on, t.port = s.port, t.usage = s.usage, t.crtcOvl = s.crtcOvl,
         t.mapped = s.mapped, \A f \in Fb : t.size[f] # 0 => t.mem[f] # 0
  PROVE  Fresh(t)
  BY DEF Fresh, Steps

(* Framebuffers may be assigned. *)
LEMMA FreshAssign ==
  ASSUME NEW s, NEW f \in Fb, NEW o \in Overlay, Fresh(s)
  PROVE  LET t == FbAssignOverlay(s, f, o) IN Fresh(t) /\ t.fb[o] = f
<1> DEFINE t == FbAssignOverlay(s, f, o)
<1>0. s \in Device /\ s \in Running
  BY DEF Fresh, Running
<1>1. Steps(s, t)
  BY <1>0, FbAssignType DEF OrNone
<1>2. CASE s.fb[o] = f
  BY <1>2 DEF FbAssignOverlay
<1>3. CASE s.fb[o] # f
  <2>1. t = [s EXCEPT !.fb[o] = f]
    BY <1>3 DEF FbAssignOverlay, Fresh, Fails
  <2> HIDE DEF t
  <2>2. /\ t.server = s.server /\ t.failed = s.failed /\ t.fb[o] = f
        /\ t.on = s.on /\ t.port = s.port /\ t.usage = s.usage /\ t.crtcOvl = s.crtcOvl
        /\ t.mapped = s.mapped /\ t.size = s.size /\ t.mem = s.mem
    BY <1>0, <2>1 DEF Device
  <2>3. \A g \in Fb : t.size[g] # 0 => t.mem[g] # 0
    BY <2>2 DEF Fresh
  <2> QED  BY <1>1, <2>2, <2>3, FreshSame DEF t
<1> QED  BY <1>2, <1>3

(* And displays. *)
LEMMA FreshShown ==
  ASSUME NEW s, NEW c \in Crtc, NEW o \in Overlay, Fresh(s)
  PROVE  LET t == OutputAssignOverlay(s, c, o) IN Fresh(t) /\ t.fb = s.fb
<1> DEFINE r == Require(s, o # NoOverlay, "overlay")
           t == OutputAssignOverlay(s, c, o)
<1>0. s \in Device /\ s \in Running
  BY DEF Fresh, Running
<1>1. Steps(s, t)
  BY <1>0, OutputAssignType DEF OrNone
<1>2. r = s
  BY OverlaysAssumption DEF Require, Overlay
<1>3. t = AssignDevice(r, c, o)
  BY DEF OutputAssignOverlay
<1> HIDE DEF r, t
<1>4. t = s \/ t = [s EXCEPT !.out[o] = c, !.on = @]
  BY <1>2, <1>3 DEF AssignDevice, Fresh, Fails
<1>5. /\ t.server = s.server /\ t.failed = s.failed /\ t.fb = s.fb
      /\ t.on = s.on /\ t.port = s.port /\ t.usage = s.usage /\ t.crtcOvl = s.crtcOvl
      /\ t.mapped = s.mapped /\ t.size = s.size /\ t.mem = s.mem
  BY <1>0, <1>4 DEF Device
<1>6. \A g \in Fb : t.size[g] # 0 => t.mem[g] # 0
  BY <1>5 DEF Fresh
<1> QED  BY <1>1, <1>5, <1>6, FreshSame DEF t

(* And keys set. *)
LEMMA FreshKey ==
  ASSUME NEW s, NEW c \in Crtc, Fresh(s)
  PROVE  LET t == OutputColorKey(s, c, FALSE) IN Fresh(t) /\ t.fb = s.fb
<1> DEFINE t == OutputColorKey(s, c, FALSE)
<1>0. s \in Device /\ s \in Running
  BY DEF Fresh, Running
<1>1. Steps(s, t)
  BY <1>0, ColorKeyType
<1>4. t = s \/ t = [s EXCEPT !.key[c] = FALSE]
  BY DEF OutputColorKey
<1> HIDE DEF t
<1>5. /\ t.server = s.server /\ t.failed = s.failed /\ t.fb = s.fb
      /\ t.on = s.on /\ t.port = s.port /\ t.usage = s.usage /\ t.crtcOvl = s.crtcOvl
      /\ t.mapped = s.mapped /\ t.size = s.size /\ t.mem = s.mem
  BY <1>0, <1>4 DEF Device
<1>6. \A g \in Fb : t.size[g] # 0 => t.mem[g] # 0
  BY <1>5 DEF Fresh
<1> QED  BY <1>1, <1>5, <1>6, FreshSame DEF t

(* Memory may be freed through an overlay that reaches it. *)
LEMMA FreshFree ==
  ASSUME NEW s, NEW f \in Fb, Fresh(s), s.fb[0] = f
  PROVE  Fresh(FbFree(s, f))
<1> DEFINE t == FbFree(s, f)
<1>0. s \in Device /\ s \in Running
  BY DEF Fresh, Running
<1>1. Steps(s, t)
  BY <1>0, FbFreeType
<1>2. FbReachable(s, f) /\ ~MemBusy(s, f) /\ ~Fails(s, "free") /\ ~s.failed
  BY DEF FbReachable, Overlay, MemBusy, Fails, Fresh
<1>4. \/ t = [s EXCEPT !.buffered[f] = FALSE]
      \/ t = [s EXCEPT !.mem[f] = 0, !.size[f] = 0, !.buffered[f] = FALSE]
  BY <1>2 DEF FbFree
<1> HIDE DEF t
<1>5. /\ t.server = s.server /\ t.failed = s.failed
      /\ t.on = s.on /\ t.port = s.port /\ t.usage = s.usage /\ t.crtcOvl = s.crtcOvl
      /\ t.mapped = s.mapped
      /\ \A g \in Fb : t.size[g] # 0 => t.mem[g] # 0
  <2>0. \A g \in Fb : s.size[g] # 0 => s.mem[g] # 0
    BY DEF Fresh
  <2>1. CASE t = [s EXCEPT !.buffered[f] = FALSE]
    BY <1>0, <2>0, <2>1 DEF Device
  <2>2. CASE t = [s EXCEPT !.mem[f] = 0, !.size[f] = 0, !.buffered[f] = FALSE]
    BY <1>0, <2>0, <2>2 DEF Device
  <2> QED  BY <1>4, <2>1, <2>2
<1> QED  BY <1>1, <1>5, FreshSame DEF t

(* All of omap_preinit: no call of it can fail. *)
LEMMA PreInitFresh ==
  ASSUME NEW s, Fresh(s)
  PROVE  LET t == PreInit(s) IN Fresh(t) /\ t.fb[0] = 0
<1> DEFINE Freed(t, f) == FbFree(FbAssignOverlay(t, f, 0), f)
           Unkeyed(t, c) == OutputColorKey(OutputAssignOverlay(t, c, 0), c, FALSE)
           Shown(t, o) == OutputAssignOverlay(t, "CRTC0", o)
           a1 == FbAssignOverlay(s, 0, 0)
           a2 == FbAssignOverlay(a1, 1, 1)
           a3 == FbAssignOverlay(a2, 2, 2)
           a4 == Shown(a3, 0)
           a5 == Shown(a4, 1)
           a6 == Shown(a5, 2)
           a7 == Freed(a6, 1)
           a8 == Freed(a7, 2)
           a9 == FbAssignOverlay(a8, 0, 0)
           a10 == Unkeyed(a9, "CRTC0")
           a11 == Unkeyed(a10, "CRTC1")
<1>0. /\ 0 \in Overlay /\ 1 \in Overlay /\ 2 \in Overlay /\ 0 \in Fb /\ 1 \in Fb /\ 2 \in Fb
      /\ "CRTC0" \in Crtc /\ "CRTC1" \in Crtc
  BY DEF Overlay, Fb, Crtc
<1>1. \A t, f, o : Fresh(t) /\ f \in Fb /\ o \in Overlay =>
        Fresh(FbAssignOverlay(t, f, o)) /\ FbAssignOverlay(t, f, o).fb[o] = f
  BY FreshAssign
<1>2. \A t, o : Fresh(t) /\ o \in Overlay => Fresh(Shown(t, o)) /\ Shown(t, o).fb = t.fb
  BY <1>0, FreshShown
<1>3. \A t, f : Fresh(t) /\ f \in Fb => Fresh(Freed(t, f))
  BY <1>0, <1>1, FreshFree
<1>4. \A t, c : Fresh(t) /\ c \in Crtc => Fresh(Unkeyed(t, c)) /\ Unkeyed(t, c).fb = t.fb
  <2> TAKE t, c
  <2> SUFFICES ASSUME Fresh(t), c \in Crtc PROVE Fresh(Unkeyed(t, c)) /\ Unkeyed(t, c).fb = t.fb
    OBVIOUS
  <2> DEFINE u == OutputAssignOverlay(t, c, 0)
  <2>1. Fresh(u) /\ u.fb = t.fb
    BY <1>0, FreshShown
  <2> HIDE DEF u
  <2>2. Fresh(OutputColorKey(u, c, FALSE)) /\ OutputColorKey(u, c, FALSE).fb = u.fb
    BY <2>1, FreshKey
  <2> QED  BY <2>1, <2>2 DEF u
<1>5. PreInit(s) = Shown(a11, 0)
  BY DEF PreInit
<1> HIDE DEF Freed, Unkeyed, Shown
<1>6. Fresh(a3)
  BY <1>0, <1>1
<1> HIDE DEF a3
<1>7. Fresh(a6)
  BY <1>0, <1>2, <1>6
<1> HIDE DEF a6
<1>8. Fresh(a8)
  BY <1>0, <1>3, <1>7
<1> HIDE DEF a8
<1>9. Fresh(a9) /\ a9.fb[0] = 0
  BY <1>0, <1>1, <1>8
<1> HIDE DEF a9
<1>10. Fresh(a11) /\ a11.fb[0] = 0
  BY <1>0, <1>4, <1>9
<1> HIDE DEF a11
<1> QED  BY <1>0, <1>2, <1>5, <1>10

(* The screen gets its memory, and the requests may begin. *)
LEMMA FreshRealloc ==
  ASSUME NEW s, Fresh(s), s.fb[0] = 0, NEW n \in Sizes
  PROVE  LET t == ReallocFb(s, n) IN
         Good(t) /\ t.server = "up" /\ ~t.failed /\ t.fault = "none"
<1> DEFINE t == ReallocFb(s, n)
<1>0. s \in Running /\ 0 \in Fb
  BY DEF Fresh, Fb
<1>1. /\ Steps(s, t) /\ Screened(s, t) /\ ~t.failed /\ t.server = "up"
      /\ Backed(t) /\ t.mem[0] # 0 /\ t.on \subseteq s.on
  BY <1>0, ReallocFbIs DEF Fresh, Backed
<1> HIDE DEF t
<1>2. t.on = {} /\ t.port = [v \in Ports |-> FreshPort] /\ t.fault = "none" /\ t \in Running
  BY <1>1 DEF Fresh, Screened, Steps
<1>3. \A v \in Ports : Ovl(t, v) = NoOverlay /\ Rests(t, v)
  BY <1>2 DEF Ovl, Rests, Active, FreshPort
<1>4. NoOverlay \notin Overlay /\ "NONE" \notin Crtc /\ "NONE" \notin Xv
  BY OverlaysAssumption DEF Overlay, Crtc, Xv
<1>5. \A o \in Overlay : t.usage[o] = "NONE"
  BY <1>1 DEF Fresh, Screened
<1>6. \A c \in Crtc : t.crtcOvl[c] = NoOverlay
  BY <1>1 DEF Fresh, Screened
<1>7. PoolOf(t)
  BY <1>3, <1>4, <1>5, <1>6 DEF PoolOf
<1>8. \A f \in Fb : t.size[f] # 0 => t.mem[f] # 0
  BY <1>1 DEF Fresh, Screened, Backed
<1>9. Shared(t)
  <2>1. \A v \in Ports : ~Active(t, v)
    BY <1>3 DEF Rests
  <2> QED  BY <1>1, <1>2, <1>3, <1>7, <1>8, <2>1 DEF Shared
<1>10. \A v \in Ports : PortFine(t, v)
  BY <1>3, RestsFine
<1> QED  BY <1>1, <1>2, <1>9, <1>10 DEF Good, Safe, Doomed, t

-----------------------------------------------------------------------------
(* The invariant. *)

(* What the requests need to find, and leave; a server that has died stays as it was. *)
Sound(s) ==
  /\ s \in Device /\ s.fault = "none" /\ ~s.failed /\ s.server \notin Doomed
  /\ Good([s EXCEPT !.server = "up"])

(* The inductive invariant. *)
IInv == Sound(dev)

(* Which step is to fail makes no difference before it does. *)
LEMMA GoodFault ==
  ASSUME NEW s, NEW f \in Fault, Good(s), s.server = "up"
  PROVE  LET t == [s EXCEPT !.fault = f] IN
         /\ Good(t) /\ t.server = "up" /\ t.failed = s.failed /\ t.fault = f
         /\ t.port = s.port /\ t.size = s.size /\ t.enabled = s.enabled
<1> DEFINE t == [s EXCEPT !.fault = f]
<1>0. s \in Device /\ Shared(s)
  BY DEF Good, Safe, Running
<1>1. t \in Running
  BY <1>0 DEF Running, Device
<1>2. /\ t.server = s.server /\ t.usage = s.usage /\ t.fb = s.fb /\ t.out = s.out
      /\ t.on = s.on /\ t.mem = s.mem /\ t.size = s.size /\ t.crtcOvl = s.crtcOvl
      /\ t.buffered = s.buffered /\ t.mapped = s.mapped /\ t.key = s.key
      /\ t.rotation = s.rotation /\ t.port = s.port /\ t.failed = s.failed
      /\ t.fault = f /\ t.enabled = s.enabled
  BY <1>0 DEF Device
<1> HIDE DEF t
<1>3. \A v \in Ports : Ovl(t, v) = Ovl(s, v) /\ (Active(t, v) <=> Active(s, v))
  BY <1>2 DEF Ovl, Active
<1>4. Shared(t)
  BY <1>0, <1>2, <1>3, SameShared
<1>5. \A w \in Ports : Spared(s, t, w)
  BY <1>2, <1>3 DEF Spared, Kept
<1>6. \A w \in Ports : PortFine(t, w)
  BY <1>0, <1>2, <1>5, SparedFine DEF Good
<1> QED  BY <1>1, <1>2, <1>4, <1>6 DEF Good, Safe, Doomed, t

(* While the server is up, putting "up" there changes nothing. *)
LEMMA SoundGood ==
  ASSUME NEW s, Sound(s), s.server = "up"
  PROVE  Good(s)
<1>1. [s EXCEPT !.server = "up"] = s
  BY DEF Sound, Device
<1> QED  BY <1>1 DEF Sound

(* A request that has left things as it should keeps it. *)
LEMMA EndedSound ==
  ASSUME IInv, dev.server = "up", NEW t, Done(t)
  PROVE  Sound(Ended(t))
<1> DEFINE e == [t EXCEPT !.fault = "none"]
           g == [dev EXCEPT !.server = t.server]
           u == [g EXCEPT !.server = "up"]
<1>1. t \in Running /\ t \in Device /\ t.server \notin Doomed
  BY DEF Done, Good, Safe, Running
<1>2. CASE t.server = "up"
  <2>1. Good(e) /\ e.server = "up" /\ ~e.failed /\ e.fault = "none"
    <3>1. Good(t) /\ ~t.failed /\ "none" \in Fault
      BY <1>2 DEF Done, Fault
    <3> QED  BY <1>2, <3>1, GoodFault
  <2>2. Ended(t) = e
    BY <1>2 DEF Ended
  <2> HIDE DEF e
  <2>3. e \in Device
    BY <2>1 DEF Good, Safe, Running
  <2>4. [e EXCEPT !.server = "up"] = e
    BY <2>1, <2>3 DEF Device
  <2> QED  BY <2>1, <2>2, <2>3, <2>4 DEF Sound, Doomed
<1>3. CASE t.server # "up"
  <2>1. dev \in Device /\ dev.fault = "none" /\ ~dev.failed /\ t.server \in Death
    BY <1>1 DEF IInv, Sound, Device
  <2>2. Ended(t) = g
    BY <1>3 DEF Ended
  <2>3. g \in Device /\ g.fault = "none" /\ ~g.failed /\ g.server = t.server
    BY <2>1 DEF Device
  <2>4. u = [dev EXCEPT !.server = "up"]
    BY <2>1 DEF Device
  <2>5. Good(u)
    BY <2>4 DEF IInv, Sound
  <2> QED  BY <1>1, <2>2, <2>3, <2>5 DEF Sound
<1> QED  BY <1>2, <1>3

(* It holds at first. *)
LEMMA InitSound == Init => IInv
<1> SUFFICES ASSUME Init PROVE IInv
  OBVIOUS
<1>1. PICK kernel \in [Fb -> Sizes \cup {0}] : dev = ReallocFb(PreInit(Opened(kernel)), ScreenSize)
  BY DEF Init
<1> DEFINE p == PreInit(Opened(kernel))
<1>2. Fresh(p) /\ p.fb[0] = 0
  BY OpenedFresh, PreInitFresh
<1>3. ScreenSize \in Sizes
  BY VideoPortAssumption
<1> HIDE DEF p
<1>4. Good(dev) /\ dev.server = "up" /\ ~dev.failed /\ dev.fault = "none"
  BY <1>1, <1>2, <1>3, FreshRealloc DEF p
<1>5. dev \in Device
  BY <1>4 DEF Good, Safe, Running
<1>6. [dev EXCEPT !.server = "up"] = dev
  BY <1>4, <1>5 DEF Device
<1> QED  BY <1>4, <1>5, <1>6 DEF IInv, Sound, Doomed

(* A request that settles whatever fails in it keeps the invariant. *)
LEMMA BegunGood ==
  ASSUME IInv, dev.server = "up", NEW f \in Fault
  PROVE  LET s == [dev EXCEPT !.fault = f] IN
         /\ Good(s) /\ s.server = "up" /\ ~s.failed
         /\ s.port = dev.port /\ s.size = dev.size /\ s.enabled = dev.enabled
<1>1. Good(dev) /\ ~dev.failed
  BY SoundGood DEF IInv, Sound
<1> QED  BY <1>1, GoodFault

-----------------------------------------------------------------------------
(* Each action keeps it. *)

(* What may fail is a fault. *)
LEMMA FaultsAre == Faults \cup {"none"} \subseteq Fault
  BY VideoPortAssumption DEF Fault

(* The clipping finds a CRTC or none. *)
LEMMA ClipResultIs == ClipResult \subseteq Crtc \cup {NoCrtc}
  BY DEF ClipResult

(* The requests of the Xv clients that show and stop. *)
LEMMA XvRequestsSound ==
  ASSUME IInv, XvPutImage \/ XvReputImage \/ XvPutVideo \/ XvStopVideo
  PROVE  IInv'
<1>1. CASE XvPutImage
  <2>1. PICK v \in Ports, n \in Sizes, c \in ClipResult, moved \in BOOLEAN, f \in Faults \cup {"none"} :
          dev.server = "up" /\ dev' = Ended(PutImage([dev EXCEPT !.fault = f], v, n, c, moved, TRUE))
    BY <1>1 DEF XvPutImage, Request, RequestUnder, Moves
  <2> DEFINE s == [dev EXCEPT !.fault = f]
  <2>2. Good(s) /\ s.server = "up"
    BY <2>1, BegunGood, FaultsAre
  <2> HIDE DEF s
  <2>3. Done(PutImage(s, v, n, c, moved, TRUE))
    BY <2>2, PutImageIs, ClipResultIs
  <2> QED  BY <2>1, <2>3, EndedSound DEF s, IInv
<1>2. CASE XvReputImage
  <2>1. PICK v \in Ports, c \in ClipResult, f \in Faults \cup {"none"} :
          /\ dev.server = "up" /\ dev.size[VideoFb(v)] # 0
          /\ dev' = Ended(PutImage([dev EXCEPT !.fault = f], v, dev.size[VideoFb(v)], c, TRUE, FALSE))
    BY <1>2 DEF XvReputImage, Request, RequestUnder
  <2> DEFINE s == [dev EXCEPT !.fault = f]
             n == dev.size[VideoFb(v)]
  <2>2. Good(s) /\ s.server = "up"
    BY <2>1, BegunGood, FaultsAre
  <2>3. n \in Sizes
    BY <2>1, VideoFbIs DEF IInv, Sound, Device
  <2> HIDE DEF s, n
  <2>4. Done(PutImage(s, v, n, c, TRUE, FALSE))
    BY <2>2, <2>3, PutImageIs, ClipResultIs
  <2> QED  BY <2>1, <2>4, EndedSound DEF s, n, IInv
<1>3. CASE XvPutVideo
  <2>1. PICK v \in Ports, c \in ClipResult, moved \in BOOLEAN, f \in Faults \cup {"none"} :
          dev.server = "up" /\ dev' = Ended(PutVideo([dev EXCEPT !.fault = f], v, c, moved))
    BY <1>3 DEF XvPutVideo, Request, RequestUnder, Moves
  <2> DEFINE s == [dev EXCEPT !.fault = f]
  <2>2. Good(s) /\ s.server = "up" /\ ~s.failed
    BY <2>1, BegunGood, FaultsAre
  <2> HIDE DEF s
  <2>3. Done(PutVideo(s, v, c, moved))
    BY <2>2, PutVideoIs, ClipResultIs
  <2> QED  BY <2>1, <2>3, EndedSound DEF s, IInv
<1>4. CASE XvStopVideo
  <2>1. PICK v \in Ports, exit \in BOOLEAN, f \in Faults \cup {"none"} :
          dev.server = "up" /\ dev' = Ended(StopVideo([dev EXCEPT !.fault = f], v, exit))
    BY <1>4 DEF XvStopVideo, Request, RequestUnder
  <2> DEFINE s == [dev EXCEPT !.fault = f]
  <2>2. Good(s) /\ s.server = "up"
    BY <2>1, BegunGood, FaultsAre
  <2> HIDE DEF s
  <2>3. Done(StopVideo(s, v, exit))
    BY <2>2, StopVideoIs
  <2> QED  BY <2>1, <2>3, EndedSound DEF s, IInv
<1> QED  BY <1>1, <1>2, <1>3, <1>4

(* Those that set an attribute, and the timer of the colour key. *)
LEMMA AttributesSound ==
  ASSUME IInv, \/ XvSetPortAttribute \/ XvSetColorkey \/ XvSyncVideo \/ XvSetRotation
               \/ XvSetStacking \/ KeyTimerFires
  PROVE  IInv'
<1> DEFINE s(f) == [dev EXCEPT !.fault = f]
<1>0. "none" \in Fault
  BY DEF Fault
<1>1. CASE XvSetPortAttribute
  <2>1. PICK v \in Ports, value \in BOOLEAN, f \in Faults \cup {"none"} :
          /\ dev.server = "up"
          /\ \/ dev' = Ended(SetReserve(s(f), v, value))
             \/ "clone" \in Attributes /\ dev' = Ended(SetClone(s(f), v, value))
             \/ dev' = Ended(SetDisableColorkey(s(f), v, value))
    BY <1>1 DEF XvSetPortAttribute, Request, PlainRequest, RequestUnder
  <2>2. Good(s(f)) /\ s(f).server = "up" /\ ~s(f).failed
    BY <2>1, BegunGood, FaultsAre
  <2> HIDE DEF s
  <2>3. /\ Done(SetReserve(s(f), v, value)) /\ Done(SetDisableColorkey(s(f), v, value))
        /\ "clone" \in Attributes => Done(SetClone(s(f), v, value))
    BY <2>2, SetReserveIs, SetCloneIs, SetDisableColorkeyIs
  <2> QED  BY <2>1, <2>3, EndedSound DEF IInv
<1>2. CASE XvSetColorkey
  <2>1. PICK v \in Ports :
          /\ dev.server = "up" /\ "colorkey" \in Attributes
          /\ dev' = Ended(SetColorkey(s("none"), v))
    BY <1>2 DEF XvSetColorkey, PlainRequest, RequestUnder
  <2>2. Good(s("none")) /\ s("none").server = "up" /\ ~s("none").failed
    BY <1>0, <2>1, BegunGood
  <2> HIDE DEF s
  <2>3. Done(SetColorkey(s("none"), v))
    BY <2>1, <2>2, SetColorkeyIs
  <2> QED  BY <2>1, <2>3, EndedSound DEF IInv
<1>3. CASE XvSyncVideo
  <2>1. PICK v \in Ports :
          /\ dev.server = "up" /\ Active(dev, v)
          /\ dev' = Ended(SyncVideo(s("none"), v))
    BY <1>3 DEF XvSyncVideo, PlainRequest, RequestUnder
  <2>2. Good(s("none")) /\ s("none").server = "up" /\ ~s("none").failed /\ s("none").port = dev.port
    BY <1>0, <2>1, BegunGood
  <2> HIDE DEF s
  <2>3. Active(s("none"), v)
    BY <2>1, <2>2 DEF Active
  <2>4. Done(SyncVideo(s("none"), v))
    BY <2>2, <2>3, SyncVideoIs
  <2> QED  BY <2>1, <2>4, EndedSound DEF IInv
<1>4. CASE XvSetRotation
  <2>1. PICK v \in Ports, r \in Rotations :
          dev.server = "up" /\ dev' = Ended(SetRotation(s("none"), v, r))
    BY <1>4 DEF XvSetRotation, PlainRequest, RequestUnder
  <2>2. Good(s("none")) /\ s("none").server = "up" /\ ~s("none").failed
    BY <1>0, <2>1, BegunGood
  <2> HIDE DEF s
  <2>3. Done(SetRotation(s("none"), v, r))
    BY <2>2, SetRotationIs, VideoPortAssumption
  <2> QED  BY <2>1, <2>3, EndedSound DEF IInv
<1>5. CASE XvSetStacking
  <2>1. PICK v \in Ports, use \in Stackings \cup {"XV"} :
          dev.server = "up" /\ dev' = Ended([s("none") EXCEPT !.port[v].stacking = use])
    BY <1>5 DEF XvSetStacking, PlainRequest, RequestUnder
  <2>2. Good(s("none")) /\ s("none").server = "up" /\ ~s("none").failed
    BY <1>0, <2>1, BegunGood
  <2>3. use \in Xv
    BY VideoPortAssumption DEF Xv
  <2> HIDE DEF s
  <2>4. Done([s("none") EXCEPT !.port[v].stacking = use])
    BY <2>2, <2>3, SetStackingIs
  <2> QED  BY <2>1, <2>4, EndedSound DEF IInv
<1>6. CASE KeyTimerFires
  <2>1. PICK v \in Ports : dev.server = "up" /\ dev' = Ended(KeyTimer(s("none"), v))
    BY <1>6 DEF KeyTimerFires, PlainRequest, RequestUnder
  <2>2. Good(s("none")) /\ s("none").server = "up" /\ ~s("none").failed
    BY <1>0, <2>1, BegunGood
  <2> HIDE DEF s
  <2>3. Done(KeyTimer(s("none"), v))
    BY <2>2, KeyTimerIs
  <2> QED  BY <2>1, <2>3, EndedSound DEF IInv
<1> QED  BY <1>1, <1>2, <1>3, <1>4, <1>5, <1>6

(* Those of RandR and DPMS, the page flips, and the client's own memory. *)
LEMMA ScreenRequestsSound ==
  ASSUME IInv, \/ RandRSetMode \/ RandRDisable \/ RandRPan \/ RandRResize
               \/ DpmsSet \/ PageFlip \/ ClientAlloc
  PROVE  IInv'
<1> DEFINE s(f) == [dev EXCEPT !.fault = f]
<1>0. "none" \in Fault
  BY DEF Fault
<1>1. CASE RandRSetMode
  <2>1. PICK c \in Crtc, r \in Rotations \cup {Rotate0}, f \in Faults \cup {"none"} :
          dev.server = "up" /\ dev' = Ended(SetCrtcMode(s(f), c, r))
    BY <1>1 DEF RandRSetMode, Request, RequestUnder
  <2>2. Good(s(f)) /\ s(f).server = "up" /\ ~s(f).failed
    BY <2>1, BegunGood, FaultsAre
  <2>3. r \in Rotation
    BY VideoPortAssumption DEF Rotate0, Rotation, Bit
  <2> HIDE DEF s
  <2>4. Done(SetCrtcMode(s(f), c, r))
    BY <2>2, <2>3, SetCrtcModeIs
  <2> QED  BY <2>1, <2>4, EndedSound DEF IInv
<1>2. CASE RandRDisable
  <2>1. PICK c \in Crtc, f \in Faults \cup {"none"} :
          dev.server = "up" /\ dev' = Ended(DisableCrtc(s(f), c))
    BY <1>2 DEF RandRDisable, Request, RequestUnder
  <2>2. Good(s(f)) /\ s(f).server = "up" /\ ~s(f).failed
    BY <2>1, BegunGood, FaultsAre
  <2> HIDE DEF s
  <2>3. Done(DisableCrtc(s(f), c))
    BY <2>2, DisableCrtcDone
  <2> QED  BY <2>1, <2>3, EndedSound DEF IInv
<1>3. CASE RandRPan
  <2>1. PICK c \in Crtc : dev.server = "up" /\ dev' = Ended(SetOrigin(s("none"), c))
    BY <1>3 DEF RandRPan, PlainRequest, RequestUnder
  <2>2. Good(s("none")) /\ s("none").server = "up" /\ ~s("none").failed
    BY <1>0, <2>1, BegunGood
  <2> HIDE DEF s
  <2>3. Done(SetOrigin(s("none"), c))
    BY <2>2, SetOriginDone
  <2> QED  BY <2>1, <2>3, EndedSound DEF IInv
<1>4. CASE RandRResize
  <2>1. PICK n \in Sizes, f \in Faults \cup {"none"} :
          dev.server = "up" /\ dev' = Ended(ReallocFb(s(f), n))
    BY <1>4 DEF RandRResize, Request, RequestUnder
  <2>2. Good(s(f)) /\ s(f).server = "up" /\ ~s(f).failed
    BY <2>1, BegunGood, FaultsAre
  <2> HIDE DEF s
  <2>3. Done(ReallocFb(s(f), n))
    BY <2>2, ReallocFbDone
  <2> QED  BY <2>1, <2>3, EndedSound DEF IInv
<1>5. CASE DpmsSet
  <2>1. PICK c \in Crtc, on \in BOOLEAN, f \in Faults \cup {"none"} :
          dev.server = "up" /\ dev' = Ended(SetDpms(s(f), c, on))
    BY <1>5, VideoPortAssumption DEF DpmsSet, Request, RequestUnder
  <2>2. Good(s(f)) /\ s(f).server = "up" /\ ~s(f).failed
    BY <2>1, BegunGood, FaultsAre
  <2> HIDE DEF s
  <2>3. Done(SetDpms(s(f), c, on))
    BY <2>2, SetDpmsDone
  <2> QED  BY <2>1, <2>3, EndedSound DEF IInv
<1>6. CASE PageFlip
  <2>1. dev.server = "up" /\ dev' = Ended(FlipCrtcs(s("none")))
    BY <1>6 DEF PageFlip, PlainRequest, RequestUnder
  <2>2. Good(s("none")) /\ s("none").server = "up" /\ ~s("none").failed
    BY <1>0, <2>1, BegunGood
  <2> HIDE DEF s
  <2>3. Done(FlipCrtcs(s("none")))
    BY <2>2, FlipCrtcsDone
  <2> QED  BY <2>1, <2>3, EndedSound DEF IInv
<1>7. CASE ClientAlloc
  <2>1. PICK v \in Ports, n \in Sizes :
          dev.server = "up" /\ dev' = Ended([s("none") EXCEPT !.mem[VideoFb(v)] = n])
    BY <1>7 DEF ClientAlloc, PlainRequest, RequestUnder
  <2>2. Good(s("none")) /\ s("none").server = "up" /\ ~s("none").failed
    BY <1>0, <2>1, BegunGood
  <2> HIDE DEF s
  <2>3. Done([s("none") EXCEPT !.mem[VideoFb(v)] = n])
    BY <2>2, ClientAllocIs
  <2> QED  BY <2>1, <2>3, EndedSound DEF IInv
<1> QED  BY <1>1, <1>2, <1>3, <1>4, <1>5, <1>6, <1>7

(***************************************************************************)
(* The invariant holds in every state between requests.                    *)
(***************************************************************************)
THEOREM VideoPortInductive == Spec => []IInv
<1>1. Init => IInv
  BY InitSound
<1>2. IInv /\ [Next]_dev => IInv'
  <2> SUFFICES ASSUME IInv, [Next]_dev PROVE IInv'
    OBVIOUS
  <2>1. CASE UNCHANGED dev
    BY <2>1 DEF IInv
  <2>2. CASE Next
    BY <2>2, XvRequestsSound, AttributesSound, ScreenRequestsSound DEF Next
  <2> QED  BY <2>1, <2>2
<1> QED  BY <1>1, <1>2, PTL DEF Spec

-----------------------------------------------------------------------------
(* What follows from it. *)

(* What holds of the ports, whether or not the server has died since. *)
LEMMA StillGood ==
  ASSUME IInv
  PROVE  Shared(dev) /\ \A v \in Ports : PortFine(dev, v)
<1> DEFINE s == [dev EXCEPT !.server = "up"]
<1>0. dev \in Device /\ Good(s)
  BY DEF IInv, Sound
<1>1. /\ s.usage = dev.usage /\ s.fb = dev.fb /\ s.out = dev.out /\ s.server = "up"
      /\ s.on = dev.on /\ s.mem = dev.mem /\ s.size = dev.size /\ s.crtcOvl = dev.crtcOvl
      /\ s.buffered = dev.buffered /\ s.mapped = dev.mapped /\ s.key = dev.key
      /\ s.rotation = dev.rotation /\ s.port = dev.port
  BY <1>0 DEF Device
<1> HIDE DEF s
<1>2. Shared(s) /\ \A v \in Ports : PortFine(s, v)
  BY <1>0, <1>1 DEF Good, Safe
<1>3. \A v \in Ports : Ovl(dev, v) = Ovl(s, v) /\ (Active(dev, v) <=> Active(s, v))
  BY <1>1 DEF Ovl, Active
<1>4. Shared(dev)
  BY <1>1, <1>2, <1>3, SameShared
<1>5. \A v \in Ports : Spared(s, dev, v)
  BY <1>1, <1>3 DEF Spared, Kept
<1>6. \A v \in Ports : PortFine(dev, v)
  BY <1>1, <1>2, <1>5, SparedFine
<1> QED  BY <1>4, <1>6

(***************************************************************************)
(* The tables stay well typed, and every request ends with its failures    *)
(* dealt with, whichever of its steps the kernel has refused.              *)
(***************************************************************************)
THEOREM VideoTypeCorrect == Spec => []TypeOK
<1>1. IInv => TypeOK
  BY DEF IInv, Sound, TypeOK
<1> QED  BY <1>1, VideoPortInductive, PTL

(***************************************************************************)
(* The pool and its users agree after every request: no overlay leaks and  *)
(* none is held twice.                                                     *)
(***************************************************************************)
THEOREM PoolStaysExact == Spec => []PoolExact
<1>1. IInv => PoolExact
  <2> SUFFICES ASSUME IInv PROVE PoolExact
    OBVIOUS
  <2>1. PoolOf(dev)
    BY StillGood DEF Shared
  <2>2. NoOverlay \notin Overlay
    BY OverlaysAssumption DEF Overlay
  <2> QED  BY <2>1, <2>2 DEF PoolOf, PoolExact, Xv
<1> QED  BY <1>1, VideoPortInductive, PTL

(***************************************************************************)
(* What realloc_fb relies on: the overlays that scan the screen are those  *)
(* it switches off.                                                        *)
(***************************************************************************)
THEOREM ScreenStaysWithCrtcs == Spec => []ScreenScannedByCrtcs
<1>1. IInv => ScreenScannedByCrtcs
  <2> SUFFICES ASSUME IInv, NEW o \in dev.on, dev.fb[o] = 0 PROVE dev.usage[o] \in Crtc
    BY DEF ScreenScannedByCrtcs
  <2>1. Shared(dev)
    BY StillGood
  <2>2. o \in Overlay /\ dev.usage[o] \in Usage
    BY DEF IInv, Sound, Device
  <2>3. dev.usage[o] \notin Xv
    <3> SUFFICES ASSUME NEW v \in Ports, Ovl(dev, v) = o PROVE FALSE
      BY <2>1, <2>2 DEF Shared, PoolOf
    <3>1. o # NoOverlay
      BY <2>2, OverlaysAssumption DEF Overlay
    <3> QED  BY <2>1, <3>1, VideoFbIs DEF Shared
  <2>4. dev.usage[o] # "NONE"
    BY <2>1 DEF Shared
  <2> QED  BY <2>2, <2>3, <2>4 DEF Usage, Xv
<1> QED  BY <1>1, VideoPortInductive, PTL

(***************************************************************************)
(* No request disables, enables, sets up or assigns an overlay that a port *)
(* or a CRTC has given back, waits for one that a port has given back,     *)
(* maps memory that is not there or writes through a mapping that is gone, *)
(* whatever fails.  Panning, the wait for a clone, and PutVideo and the    *)
(* release on a reserved port are not in it: there the code does so.       *)
(***************************************************************************)
THEOREM PlaneStepsStaySafe == Spec => []PlaneStepsSafe
<1>1. IInv => PlaneStepsSafe
  BY DEF IInv, Sound, PlaneStepsSafe, Doomed
<1> QED  BY <1>1, VideoPortInductive, PTL

(***************************************************************************)
(* A video that is shown is shown on the display it was clipped to.        *)
(***************************************************************************)
THEOREM PortStaysOnItsDisplay == Spec => []PortShownOnItsDisplay
<1>1. IInv => PortShownOnItsDisplay
  BY StillGood DEF PortShownOnItsDisplay, PortFine, Aimed
<1> QED  BY <1>1, VideoPortInductive, PTL

(***************************************************************************)
(* The picture of an active port is upright, for every size of image:      *)
(* the port has kept what update_rotation makes of the two rotations it    *)
(* has now, and that is the one that turns every point as both do.         *)
(***************************************************************************)
THEOREM PictureStaysUpright == Spec => []PictureUpright
<1>1. IInv => PictureUpright
  <2> SUFFICES ASSUME IInv, NEW v \in Ports, NEW c \in Crtc, dev.port[v].crtc = c,
                      NEW w \in Lengths, NEW h \in Lengths,
                      NEW x \in 0 .. w, NEW y \in 0 .. h
               PROVE LET xv == dev.port[v].rotation
                         p == Turned(xv, w, h, x, y)
                     IN Scanned(OmapSetup(dev.port[v].turn), w, h, x, y)
                          = Turned(CrtcTurn(dev, c), ModeWidth(xv, w, h),
                                   ModeHeight(xv, w, h), p[1], p[2])
    BY DEF PictureUpright
  <2>1. c # NoCrtc
    BY OverlaysAssumption DEF Crtc
  <2>2. dev.port[v].turn = update_rotation(dev.port[v].rotation, CrtcTurn(dev, c))
    BY <2>1, StillGood DEF PortFine, Aimed
  <2>3. dev.port[v].rotation \in Rotation /\ CrtcTurn(dev, c) \in Rotation
    <3>1. Rotate0 \in Rotation
      BY DEF Rotate0, Rotation, Bit
    <3>2. dev.port[v] \in Port /\ dev.rotation[c] \in Rotation
      BY DEF IInv, Sound, Device
    <3> QED  BY <3>1, <3>2 DEF CrtcTurn, LeftToOverlay, Port
  <2> QED  BY <2>2, <2>3, OverlayUpright DEF RotationsAddUp
<1> QED  BY <1>1, VideoPortInductive, PTL

(***************************************************************************)
(* With one port, and clients that leave the value of the colour key as it *)
(* is, the key of the CRTC that an active port knows is never off without  *)
(* the timer being armed, through stops, failures, mode changes and moves. *)
(* Of a port that the clone attribute has taken its CRTC it says nothing.  *)
(***************************************************************************)
THEOREM KeyStaysGuarded ==
  ASSUME \A v, w \in Ports : v = w, "colorkey" \notin Attributes
  PROVE  Spec => []KeyGuarded
<1>1. IInv => KeyGuarded
  <2> SUFFICES ASSUME IInv, NEW v \in Ports, NEW c \in Crtc, dev.port[v].crtc = c,
                      dev.port[v].noKey
               PROVE dev.key[c] \/ dev.port[v].timer
    BY DEF KeyGuarded
  <2>1. c # NoCrtc
    BY OverlaysAssumption DEF Crtc
  <2> QED  BY <2>1, StillGood DEF PortFine, Guarded
<1> QED  BY <1>1, VideoPortInductive, PTL

(***************************************************************************)
(* If clients leave the clone attribute alone as well, the colour key does *)
(* come back: wherever the overlay of the port is seen, the key of that    *)
(* display is on or the timer is armed.  The overlay is on only while the  *)
(* port knows its CRTC (Placed), and feeds that one (Aimed).               *)
(***************************************************************************)
THEOREM KeyAlwaysReturns ==
  ASSUME \A v, w \in Ports : v = w, "colorkey" \notin Attributes, "clone" \notin Attributes
  PROVE  Spec => []KeyReturns
<1>1. IInv => KeyReturns
  <2> SUFFICES ASSUME IInv, NEW v \in Ports, NEW c \in Crtc, Ovl(dev, v) \in dev.on,
                      dev.out[Ovl(dev, v)] = c, dev.port[v].noKey
               PROVE dev.key[c] \/ dev.port[v].timer
    BY DEF KeyReturns
  <2>1. Active(dev, v)
    BY StillGood DEF Shared
  <2>2. dev.port[v].crtc # NoCrtc
    BY <2>1, StillGood DEF PortFine, Placed
  <2>3. dev.port[v].crtc = c
    BY <2>2, StillGood DEF PortFine, Aimed
  <2> QED  BY <2>2, <2>3, StillGood DEF PortFine, Guarded
<1> QED  BY <1>1, VideoPortInductive, PTL

-----------------------------------------------------------------------------
(* What the overlays of CRTCs scan: the steps that leave it alone. *)

(* The overlays of CRTCs that show no clone scan the screen, or nothing while they are off. *)
ScreenOnly(s) ==
  \A o \in Overlay : s.usage[o] \in Crtc \ Clones =>
    s.fb[o] \in {0, NoFb} /\ (o \in s.on => s.fb[o] = 0)

(* Nobody holds an overlay that is taken for another: half of PoolOf, and true between the steps. *)
Owned(s) ==
  /\ \A c \in Crtc : s.crtcOvl[c] # NoOverlay => s.usage[s.crtcOvl[c]] = c
  /\ \A v \in Ports : Ovl(s, v) # NoOverlay => s.usage[Ovl(s, v)] \in Xv
  /\ \A v, w \in Ports : Ovl(s, v) # NoOverlay /\ Ovl(s, v) = Ovl(s, w) => v = w

(* This is what every step of every request keeps. *)
Seen(s) == s \in Running /\ ScreenOnly(s) /\ Owned(s)

(* Overlays that change no hands and are only switched off scan what they did. *)
LEMMA SeenSamePorts ==
  ASSUME NEW s, NEW t \in Running, Seen(s), t.usage = s.usage, t.fb = s.fb, t.on \subseteq s.on,
         t.crtcOvl = s.crtcOvl, \A v \in Ports : Ovl(t, v) = Ovl(s, v)
  PROVE  Seen(t)
<1>1. ScreenOnly(t)
  BY DEF Seen, ScreenOnly
<1>2. Owned(t)
  BY DEF Seen, Owned
<1> QED  BY <1>1, <1>2 DEF Seen

(* In particular if nothing happens to the ports. *)
LEMMA SeenSame ==
  ASSUME NEW s, NEW t \in Running, Seen(s), t.usage = s.usage, t.fb = s.fb, t.on \subseteq s.on,
         t.crtcOvl = s.crtcOvl, t.port = s.port
  PROVE  Seen(t)
  BY SeenSamePorts DEF Ovl

(* So do those that nothing happens to. *)
LEMMA SeenIgnoring ==
  ASSUME NEW s, Seen(s)
  PROVE  Seen(Ignoring(s))
<1>1. s \in Device /\ Ignoring(s) \in Running
  BY IgnoringType DEF Seen, Running
<1> QED  BY <1>1, SeenSame DEF Ignoring, Device

(* Or that an assertion is about. *)
LEMMA SeenRequire ==
  ASSUME NEW s, Seen(s), NEW cond, NEW how \in Death
  PROVE  Seen(Require(s, cond, how))
<1>1. s \in Device /\ Require(s, cond, how) \in Running
  BY RequireType DEF Seen, Running, Steps
<1> QED  BY <1>1, SeenSame DEF Require, Device

(* The steps on an overlay that leave it its framebuffer. *)
LEMMA SeenDisable ==
  ASSUME NEW s, Seen(s), NEW o \in OrNone
  PROVE  Seen(OverlayDisable(s, o))
<1>1. s \in Device /\ OverlayDisable(s, o) \in Running
  BY DisableType DEF Seen, Running, Steps
<1> QED  BY <1>1, SeenSame DEF OverlayDisable, Require, Device

(* One that is enabled scans something, and so the screen. *)
LEMMA SeenEnable ==
  ASSUME NEW s, Seen(s), NEW o \in OrNone
  PROVE  Seen(OverlayEnable(s, o))
<1> DEFINE r == Require(s, o # NoOverlay, "overlay")
           t == OverlayEnable(s, o)
<1>1. Seen(r) /\ t \in Running
  BY SeenRequire, EnableType DEF Seen, Steps, Death
<1>2. t \in {r, [r EXCEPT !.failed = TRUE]} \/ (t = [r EXCEPT !.on = @ \cup {o}] /\ r.fb[o] # NoFb)
  BY DEF OverlayEnable, HasMem
<1> HIDE DEF r, t
<1>3. r \in Device
  BY <1>1 DEF Seen, Running
<1>4. t.usage = r.usage /\ t.fb = r.fb /\ t.crtcOvl = r.crtcOvl /\ t.port = r.port
      /\ (t.on = r.on \/ (t.on = r.on \cup {o} /\ r.fb[o] # NoFb))
  BY <1>2, <1>3 DEF Device
<1>5. ScreenOnly(t)
  BY <1>1, <1>4 DEF Seen, ScreenOnly
<1>6. Owned(t)
  BY <1>1, <1>4 DEF Seen, Owned, Ovl
<1> QED  BY <1>1, <1>5, <1>6 DEF Seen, t

(* The set-up changes neither. *)
LEMMA SeenSetup ==
  ASSUME NEW s, Seen(s), NEW o \in OrNone
  PROVE  Seen(OverlaySetup(s, o))
<1>1. s \in Device /\ OverlaySetup(s, o) \in Running
  BY SetupType DEF Seen, Running, Steps
<1> QED  BY <1>1, SeenSame DEF OverlaySetup, Require, Device

(* Nor does panning. *)
LEMMA SeenPan ==
  ASSUME NEW s, Seen(s), NEW o
  PROVE  Seen(OverlayPan(s, o))
  BY SeenRequire, SeenIgnoring DEF OverlayPan, Death

(* A display that is changed may switch the overlay off. *)
LEMMA SeenOutput ==
  ASSUME NEW s, Seen(s), NEW c \in Crtc, NEW o \in OrNone
  PROVE  Seen(OutputAssignOverlay(s, c, o))
<1> DEFINE r == Require(s, o # NoOverlay, "overlay")
<1>1. Seen(r) /\ OutputAssignOverlay(s, c, o) \in Running
  BY SeenRequire, OutputAssignType DEF Seen, Steps, Death
<1>2. OutputAssignOverlay(s, c, o) = AssignDevice(r, c, o)
  BY DEF OutputAssignOverlay
<1> HIDE DEF r
<1>3. r \in Device
  BY <1>1 DEF Seen, Running
<1>4. LET t == AssignDevice(r, c, o) IN
      t.usage = r.usage /\ t.fb = r.fb /\ t.on \subseteq r.on
      /\ t.crtcOvl = r.crtcOvl /\ t.port = r.port
  BY <1>3 DEF AssignDevice, Device
<1> QED  BY <1>1, <1>2, <1>4, SeenSame

(* Memory, mappings and keys are not the overlays'. *)
LEMMA SeenMemory ==
  ASSUME NEW s, Seen(s), NEW f \in Fb
  PROVE  /\ \A n \in Sizes : Seen(FbAlloc(s, f, n))
         /\ Seen(FbFree(s, f)) /\ Seen(FbMap(s, f)) /\ Seen(FbUnmap(s, f))
<1>1. s \in Running /\ s \in Device
  BY DEF Seen, Running
<1>2. \A n \in Sizes : Seen(FbAlloc(s, f, n))
  <2> SUFFICES ASSUME NEW n \in Sizes PROVE Seen(FbAlloc(s, f, n))
    OBVIOUS
  <2>1. FbAlloc(s, f, n) \in Running
    BY <1>1, FbAllocType DEF Steps
  <2> QED  BY <1>1, <2>1, SeenSame DEF FbAlloc, Device
<1>3. Seen(FbFree(s, f))
  <2>1. FbFree(s, f) \in Running
    BY <1>1, FbFreeType DEF Steps
  <2> QED  BY <1>1, <2>1, SeenSame DEF FbFree, Device
<1>4. Seen(FbMap(s, f))
  <2>1. FbMap(s, f) \in Running
    BY <1>1, FbMapType DEF Steps
  <2> QED  BY <1>1, <2>1, SeenSame DEF FbMap, Require, Device
<1>5. Seen(FbUnmap(s, f))
  <2>1. FbUnmap(s, f) \in Running
    BY <1>1, FbUnmapType DEF Steps
  <2> QED  BY <1>1, <2>1, SeenSame DEF FbUnmap, Device
<1> QED  BY <1>2, <1>3, <1>4, <1>5

(* Nor are what a client has changed and the keys. *)
LEMMA SeenRefresh ==
  ASSUME NEW s, Seen(s), NEW f \in Fb, NEW o \in OrNone
  PROVE  Seen(FbRefresh(s, f, o))
<1>1. s \in Device /\ FbRefresh(s, f, o) \in Running
  BY FbRefreshType DEF Seen, Running, Steps
<1> DEFINE r == Require(s, o # NoOverlay, "refresh")
           t == FbRefresh(s, f, o)
<1>2. /\ r.usage = s.usage /\ r.fb = s.fb /\ r.on = s.on
      /\ r.crtcOvl = s.crtcOvl /\ r.port = s.port
  BY <1>1 DEF Require, Device
<1>3. r \in Device
  BY <1>1, RequireType DEF Steps, Running, Seen, Death
<1>4. \/ t = r \/ t = [r EXCEPT !.failed = TRUE]
      \/ t = [r EXCEPT !.size[f] = r.mem[f], !.buffered[f] = FALSE]
  BY DEF FbRefresh
<1> HIDE DEF r
<1>5. /\ t.usage = r.usage /\ t.fb = r.fb /\ t.on = r.on
      /\ t.crtcOvl = r.crtcOvl /\ t.port = r.port
  <2>1. CASE t = r
    BY <2>1
  <2>2. CASE t = [r EXCEPT !.failed = TRUE]
    BY <1>3, <2>2 DEF Device
  <2>3. CASE t = [r EXCEPT !.size[f] = r.mem[f], !.buffered[f] = FALSE]
    BY <1>3, <2>3 DEF Device
  <2> HIDE DEF t
  <2> QED  BY <1>4, <2>1, <2>2, <2>3
<1> HIDE DEF t
<1> QED  BY <1>1, <1>2, <1>5, SeenSame DEF t

(* The keys. *)
LEMMA SeenKey ==
  ASSUME NEW s, Seen(s), NEW v \in Ports, NEW b \in BOOLEAN
  PROVE  Seen(SetupColorkey(s, v, b))
<1>1. s \in Running /\ s \in Device
  BY DEF Seen, Running
<1>2. SetupColorkey(s, v, b) \in Running
  BY <1>1, SetupColorkeyType DEF Steps
<1> QED  BY <1>1, <1>2, SeenSame DEF SetupColorkey, OutputColorKey, Device

(* Nor what a port remembers besides its overlay. *)
LEMMA SeenPort ==
  ASSUME NEW s, Seen(s), NEW v \in Ports, NEW q \in Port, q.ovl = Ovl(s, v)
  PROVE  Seen([s EXCEPT !.port[v] = q])
<1> DEFINE t == [s EXCEPT !.port[v] = q]
<1>1. s \in Running /\ s \in Device
  BY DEF Seen, Running
<1>2. t \in Running
  BY <1>1, SetPort DEF Steps
<1>3. /\ t.usage = s.usage /\ t.fb = s.fb /\ t.on = s.on /\ t.crtcOvl = s.crtcOvl
      /\ t.port = [s.port EXCEPT ![v] = q]
  BY <1>1 DEF Device
<1> HIDE DEF t
<1>4. \A w \in Ports : Ovl(t, w) = Ovl(s, w)
  BY <1>1, <1>3 DEF Ovl, Device
<1> QED  BY <1>2, <1>3, <1>4, SeenSamePorts DEF t

(* Nor what a CRTC does. *)
LEMMA SeenCrtc ==
  ASSUME NEW s, Seen(s), NEW c \in Crtc, NEW b \in BOOLEAN
  PROVE  /\ Seen([s EXCEPT !.dpms[c] = b]) /\ Seen([s EXCEPT !.enabled[c] = b])
         /\ \A r \in Rotation : Seen([s EXCEPT !.enabled[c] = b, !.rotation[c] = r])
         /\ Seen([s EXCEPT !.dpms[c] = b, !.failed = TRUE]) /\ Seen([s EXCEPT !.failed = TRUE])
<1>1. s \in Running /\ s \in Device
  BY DEF Seen, Running
<1>2. /\ [s EXCEPT !.dpms[c] = b] \in Running
      /\ [s EXCEPT !.enabled[c] = b] \in Running
      /\ [s EXCEPT !.dpms[c] = b, !.failed = TRUE] \in Running
      /\ [s EXCEPT !.failed = TRUE] \in Running
  BY <1>1 DEF Running, Device
<1>3. \A r \in Rotation : [s EXCEPT !.enabled[c] = b, !.rotation[c] = r] \in Running
  BY <1>1, SetModeFields DEF Steps
<1>4. Seen([s EXCEPT !.dpms[c] = b]) /\ Seen([s EXCEPT !.enabled[c] = b])
  BY <1>1, <1>2, SeenSame DEF Device
<1>5. Seen([s EXCEPT !.dpms[c] = b, !.failed = TRUE]) /\ Seen([s EXCEPT !.failed = TRUE])
  BY <1>1, <1>2, SeenSame DEF Device
<1>6. ASSUME NEW r \in Rotation PROVE Seen([s EXCEPT !.enabled[c] = b, !.rotation[c] = r])
  BY <1>1, <1>3, SeenSame DEF Device
<1> QED  BY <1>4, <1>5, <1>6

(* A CRTC may have an overlay that was taken for it. *)
LEMMA SeenCrtcOvl ==
  ASSUME NEW s, Seen(s), NEW c \in Crtc, NEW o \in Overlay, s.usage[o] = c
  PROVE  Seen([s EXCEPT !.crtcOvl[c] = o])
<1> DEFINE t == [s EXCEPT !.crtcOvl[c] = o]
<1>1. s \in Running /\ s \in Device
  BY DEF Seen, Running
<1>2. t \in Running
  BY <1>1, SetCrtcOvl DEF Steps, OrNone
<1>3. /\ t.usage = s.usage /\ t.fb = s.fb /\ t.on = s.on /\ t.port = s.port
      /\ t.crtcOvl = [s.crtcOvl EXCEPT ![c] = o] /\ s.crtcOvl \in [Crtc -> OrNone]
  BY <1>1 DEF Device, OrNone
<1> HIDE DEF t
<1>4. ScreenOnly(t)
  BY <1>3 DEF Seen, ScreenOnly
<1>5. Owned(t)
  BY <1>3 DEF Seen, Owned, Ovl
<1> QED  BY <1>2, <1>4, <1>5 DEF Seen, t

(* An overlay that goes back to the pool is no CRTC's. *)
LEMMA SeenPut ==
  ASSUME NEW s, Seen(s), NEW o \in Overlay
  PROVE  LET t == PoolPut(s, o) IN
         /\ t \in Running /\ ScreenOnly(t) /\ t.crtcOvl = s.crtcOvl /\ t.port = s.port
         /\ t.on = s.on /\ t.usage = [s.usage EXCEPT ![o] = "NONE"]
<1> DEFINE t == PoolPut(s, o)
<1>1. s \in Running /\ t \in Running
  BY PoolPutType DEF Seen, Steps
<1>2. Apart(s, t, o) /\ t.on = s.on /\ t.usage = [s.usage EXCEPT ![o] = "NONE"]
  BY <1>1, PoolPutIs
<1>3. s \in Device
  BY <1>1 DEF Running
<1> HIDE DEF t
<1>4. ScreenOnly(t)
  BY <1>2, <1>3 DEF Seen, ScreenOnly, Apart, Device, Crtc
<1> QED  BY <1>1, <1>2, <1>4 DEF Apart, t

(* One that is taken for a CRTC scans the screen, and nobody else has it. *)
LEMMA SeenGet ==
  ASSUME NEW s, Seen(s), NEW use \in Crtc \cup Xv, NEW f \in Fb, use \in Crtc => f = 0
  PROVE  LET o == PoolChoice(s, use)
             t == PoolGet(s, o, use, f)
         IN /\ Seen(t)
            /\ ~t.failed => /\ o \in Overlay /\ t.usage[o] = use
                            /\ \A v \in Ports : Ovl(t, v) # o
<1> DEFINE o == PoolChoice(s, use)
           t == PoolGet(s, o, use, f)
<1>1. o \in OrNone /\ s \in Running /\ s \in Device
  BY PoolChoiceType DEF Seen, Running
<1>2. t \in Running
  BY <1>1, PoolGetType DEF Steps
<1>3. ASSUME o = NoOverlay PROVE Seen(t) /\ t.failed
  <2>1. t = [s EXCEPT !.failed = TRUE]
    BY <1>3 DEF PoolGet
  <2> HIDE DEF t, o
  <2> QED  BY <2>1, <1>1, <1>2, SeenSame DEF Running, Device
<1>4. ASSUME o # NoOverlay
      PROVE  /\ Seen(t)
             /\ ~t.failed => /\ o \in Overlay /\ t.usage[o] = use
                             /\ \A v \in Ports : Ovl(t, v) # o
  <2>1. o \in Overlay /\ s.usage[o] = "NONE"
    BY <1>4, PoolChoiceFree
  <2>2. /\ Apart(s, t, o) /\ t.on = s.on
        /\ t.failed => t.usage = s.usage
        /\ ~t.failed => t.fb[o] = f /\ t.usage = [s.usage EXCEPT ![o] = use]
    BY <1>1, <2>1, PoolGetIs
  <2> HIDE DEF t, o
  <2>3. /\ t.crtcOvl = s.crtcOvl /\ t.port = s.port
        /\ \A p \in Overlay : p # o => t.fb[p] = s.fb[p]
    BY <2>2 DEF Apart
  <2>4. "NONE" \notin Crtc /\ "NONE" \notin Xv
    BY DEF Crtc, Xv
  <2>5. /\ \A v \in Ports : Ovl(s, v) # o
        /\ \A c \in Crtc : s.crtcOvl[c] # o
    BY <2>1, <2>4, OverlaysAssumption DEF Seen, Owned, Overlay
  <2>6. ASSUME t.failed PROVE Seen(t)
    <3>1. ScreenOnly(t)
      BY <2>1, <2>2, <2>3, <2>4, <2>6 DEF Seen, ScreenOnly
    <3>2. Owned(t)
      BY <2>2, <2>3, <2>6 DEF Seen, Owned, Ovl
    <3> QED  BY <1>2, <3>1, <3>2 DEF Seen
  <2>7. ASSUME ~t.failed
        PROVE  Seen(t) /\ t.usage[o] = use /\ \A v \in Ports : Ovl(t, v) # o
    <3>1. \A p \in Overlay : t.usage[p] = IF p = o THEN use ELSE s.usage[p]
      BY <1>1, <2>1, <2>2, <2>7 DEF Device
    <3>2. ScreenOnly(t)
      BY <2>1, <2>2, <2>3, <2>7, <3>1 DEF Seen, ScreenOnly
    <3>3. \A v \in Ports : Ovl(t, v) = Ovl(s, v)
      BY <2>3 DEF Ovl
    <3>4. /\ \A v \in Ports : Ovl(s, v) \in OrNone
          /\ \A c \in Crtc : s.crtcOvl[c] \in OrNone
      BY <1>1, PortFields, CrtcFields
    <3>5. Owned(t)
      BY <2>3, <2>5, <3>1, <3>3, <3>4 DEF Seen, Owned, OrNone
    <3> QED  BY <1>2, <2>1, <2>5, <3>1, <3>2, <3>3, <3>5 DEF Seen
  <2> QED  BY <2>1, <2>6, <2>7
<1> QED  BY <1>3, <1>4

-----------------------------------------------------------------------------
(* The steps of a CRTC give its overlay the screen, unless its output shows clones. *)

(* A CRTC takes an overlay that scans the screen, and gives back any. *)
LEMMA SeenGetCrtc ==
  ASSUME NEW s, Seen(s), NEW c \in Crtc
  PROVE  Seen(GetCrtcOverlay(s, c))
<1> DEFINE o == PoolChoice(s, c)
           got == PoolGet(s, o, c, 0)
<1>1. Seen(got) /\ (~got.failed => o \in Overlay /\ got.usage[o] = c)
  BY SeenGet DEF Fb
<1>2. \/ GetCrtcOverlay(s, c) \in {s, got}
      \/ ~got.failed /\ GetCrtcOverlay(s, c) = [got EXCEPT !.crtcOvl[c] = o]
  BY DEF GetCrtcOverlay
<1> HIDE DEF o, got
<1> QED  BY <1>1, <1>2, SeenCrtcOvl

(* What it gives back nobody else has. *)
LEMMA SeenPutCrtc ==
  ASSUME NEW s, Seen(s), NEW c \in Crtc
  PROVE  Seen(PutCrtcOverlay(s, c))
<1> DEFINE o == s.crtcOvl[c]
           a == PoolPut(s, o)
           t == [a EXCEPT !.crtcOvl[c] = NoOverlay]
<1>1. CASE o = NoOverlay
  BY <1>1 DEF PutCrtcOverlay
<1>2. ASSUME o # NoOverlay PROVE Seen(PutCrtcOverlay(s, c))
  <2>0. s \in Running /\ s \in Device
    BY DEF Seen, Running
  <2>1. o \in Overlay /\ s.usage[o] = c
    BY <1>2, <2>0, CrtcFields DEF Seen, OrNone, Owned
  <2> HIDE DEF o
  <2>2. /\ a \in Running /\ ScreenOnly(a) /\ a.crtcOvl = s.crtcOvl /\ a.port = s.port
        /\ a.usage = [s.usage EXCEPT ![o] = "NONE"]
    BY <2>1, SeenPut
  <2>3. PutCrtcOverlay(s, c) = t
    BY <1>2 DEF PutCrtcOverlay, o
  <2> HIDE DEF a
  <2>4. t \in Running
    BY <2>2, SetCrtcOvl DEF Steps, OrNone
  <2>5. /\ t.usage = [s.usage EXCEPT ![o] = "NONE"] /\ t.port = s.port
        /\ t.crtcOvl = [s.crtcOvl EXCEPT ![c] = NoOverlay]
        /\ t.fb = a.fb /\ t.on = a.on /\ t.usage = a.usage
    BY <2>2 DEF Running, Device
  <2> HIDE DEF t
  <2>6. ScreenOnly(t)
    BY <2>2, <2>5 DEF ScreenOnly
  <2>7. \A v \in Ports : Ovl(t, v) = Ovl(s, v) /\ Ovl(s, v) \in OrNone /\ Ovl(s, v) # o
    <3>1. c \notin Xv /\ o # NoOverlay
      BY <1>2 DEF Xv, Crtc
    <3> QED  BY <2>0, <2>1, <2>5, <3>1, PortFields DEF Seen, Owned, Ovl
  <2>8. /\ \A p \in Overlay : p # o => t.usage[p] = s.usage[p]
        /\ \A d \in Crtc : d # c => t.crtcOvl[d] = s.crtcOvl[d] /\ s.crtcOvl[d] \in OrNone
                                    /\ s.crtcOvl[d] # o
        /\ t.crtcOvl[c] = NoOverlay
    BY <2>0, <1>2, <2>1, <2>5 DEF Seen, Owned, Device, OrNone
  <2>9. Owned(t)
    BY <2>7, <2>8 DEF Seen, Owned, OrNone
  <2> QED  BY <2>3, <2>4, <2>6, <2>9 DEF Seen
<1> QED  BY <1>1, <1>2

(* If it shows no clone it is given the screen's framebuffer and no other. *)
LEMMA SeenSwitch ==
  ASSUME NEW s, Seen(s), NEW c \in Crtc, NEW f \in Fb, c \notin Clones => f = 0
  PROVE  Seen(SwitchFb(s, c, f))
<1> DEFINE o == s.crtcOvl[c]
           a == OverlayDisable(s, o)
           t == FbAssignOverlay(a, f, o)
<1>0. s \in Running /\ s \in Device
  BY DEF Seen, Running
<1>1. o \in OrNone /\ (o # NoOverlay => s.usage[o] = c)
  BY <1>0, CrtcFields DEF Seen, Owned
<1>2. Seen(a)
  BY <1>1, SeenDisable
<1> HIDE DEF o
<1>3. (a.failed \/ o \notin a.on) /\ a.usage = s.usage
  BY <1>0 DEF OverlayDisable, Require, Device
<1>4. t \in Running
  BY <1>1, <1>2, FbAssignType DEF Seen, Steps
<1> HIDE DEF a
<1>5. Seen(t)
  <2>1. a \in Device
    BY <1>2 DEF Seen, Running
  <2>2. t \in {a, [a EXCEPT !.fb[o] = NoFb, !.failed = TRUE], [a EXCEPT !.fb[o] = f]}
        /\ (t = a \/ ~a.failed)
    BY DEF FbAssignOverlay
  <2> HIDE DEF t
  <2>3. t = a \/ (~a.failed /\ t.usage = a.usage /\ t.on = a.on
                  /\ t.crtcOvl = a.crtcOvl /\ t.port = a.port
                  /\ \A p \in Overlay : t.fb[p] = a.fb[p] \/ (p = o /\ t.fb[p] \in {f, NoFb}))
    <3>1. CASE t = [a EXCEPT !.fb[o] = NoFb, !.failed = TRUE]
      BY <2>1, <2>2, <3>1 DEF Device
    <3>2. CASE t = [a EXCEPT !.fb[o] = f]
      BY <2>1, <2>2, <3>2 DEF Device
    <3> QED  BY <2>2, <3>1, <3>2
  <2>4. CASE t = a
    BY <1>2, <2>4
  <2>5. CASE t # a
    <3>1. o \in Overlay => a.usage[o] = c
      BY <1>1, <1>3, OverlaysAssumption DEF Overlay
    <3>2. ScreenOnly(t)
      BY <1>2, <1>3, <2>3, <2>5, <3>1 DEF Seen, ScreenOnly
    <3>3. Owned(t)
      BY <1>2, <2>3, <2>5 DEF Seen, Owned, Ovl
    <3> QED  BY <1>4, <3>2, <3>3 DEF Seen
  <2> QED  BY <2>4, <2>5
<1>6. SwitchFb(s, c, f) \in {s, t}
  BY DEF SwitchFb, a, o
<1> QED  BY <1>5, <1>6

(* A clone needs an output that shows clones. *)
LEMMA SeenSource ==
  ASSUME NEW s, Seen(s), NEW c \in Crtc
  PROVE  Seen(ChooseSource(s, c))
<1> DEFINE cloned == SwitchFb(s, c, VideoFb(CloneInfo(s)))
<1>1. \A t : Seen(t) => Seen(SwitchFb(t, c, 0))
  BY SeenSwitch DEF Fb
<1>2. ASSUME c \in Clones, CloneActive(s, c) PROVE Seen(cloned)
  <2>1. VideoFb(CloneInfo(s)) \in Fb
    BY <1>2, CloneInfoIs, VideoFbIs DEF CloneActive
  <2> QED  BY <1>2, <2>1, SeenSwitch
<1>3. CASE ~(c \in Clones /\ CloneActive(s, c))
  BY <1>1, <1>3 DEF ChooseSource
<1>4. CASE c \in Clones /\ CloneActive(s, c)
  <2>1. Seen(cloned)
    BY <1>2, <1>4
  <2>2. ChooseSource(s, c) \in {s, cloned, SwitchFb(Ignoring(cloned), c, 0)}
    BY <1>4 DEF ChooseSource
  <2> HIDE DEF cloned
  <2> QED  BY <1>1, <2>1, <2>2, SeenIgnoring
<1> QED  BY <1>3, <1>4

(* So the steps of a mode that is set keep it that way. *)
LEMMA SeenGiveUpMode ==
  ASSUME NEW s, Seen(s), NEW c \in Crtc
  PROVE  Seen(GiveUpMode(s, c))
<1> DEFINE a == OverlayDisable(Ignoring(s), s.crtcOvl[c])
           b == PutCrtcOverlay(a, c)
<1>1. s.crtcOvl[c] \in OrNone
  BY CrtcFields DEF Seen
<1>2. Seen(a)
  BY <1>1, SeenIgnoring, SeenDisable
<1>3. Seen(b)
  <2> HIDE DEF a
  <2> QED  BY <1>2, SeenPutCrtc
<1> HIDE DEF a, b
<1> QED  BY <1>3, SeenCrtc DEF GiveUpMode, a, b

(* The ports of a CRTC that has changed are turned with it. *)
LEMMA SeenUpdateCrtc ==
  ASSUME NEW s, Seen(s), NEW c \in Crtc
  PROVE  Seen(UpdateCrtc(s, c))
<1>1. s \in Running /\ s \in Device
  BY DEF Seen, Running
<1>2. UpdateCrtc(s, c) \in Running
  BY <1>1, UpdateCrtcIs DEF Steps
<1> DEFINE t == UpdateCrtc(s, c)
<1>3. t.usage = s.usage /\ t.fb = s.fb /\ t.on = s.on /\ t.crtcOvl = s.crtcOvl
  BY <1>1 DEF UpdateCrtc, Device
<1>4. \A v \in Ports : Ovl(t, v) = Ovl(s, v)
  <2> SUFFICES ASSUME NEW v \in Ports PROVE Ovl(t, v) = Ovl(s, v)
    OBVIOUS
  <2> DEFINE p == s.port[v]
             q == [UpdateRotation(s, v).port[v] EXCEPT !.updateClone = TRUE]
  <2>1. p \in Port
    BY <1>1, PortOf
  <2>2. t.port[v] = IF p.crtc = c THEN q ELSE p
    BY <1>1 DEF UpdateCrtc, Device
  <2>3. q.ovl = p.ovl
    BY <1>1, <2>1 DEF UpdateRotation, Device, Port
  <2> HIDE DEF t
  <2> QED  BY <2>2, <2>3 DEF Ovl
<1> HIDE DEF t
<1> QED  BY <1>1, <1>2, <1>3, <1>4, SeenSamePorts DEF t

(* A CRTC that takes an overlay for its mode sets up that one. *)
LEMMA SeenSetModeOn ==
  ASSUME NEW s, Seen(s), NEW c \in Crtc
  PROVE  Seen(SetModeOn(s, c))
<1> DEFINE o == s.crtcOvl[c]
           a == ChooseSource(s, c)
           b == OutputAssignOverlay(a, c, o)
           d == OverlaySetup(b, o)
           e == OverlayEnable(d, o)
<1>1. o \in OrNone
  BY CrtcFields DEF Seen
<1> HIDE DEF o
<1>2. Seen(a)
  BY SeenSource
<1> HIDE DEF a
<1>3. Seen(b)
  BY <1>1, <1>2, SeenOutput
<1> HIDE DEF b
<1>4. Seen(d)
  BY <1>1, <1>3, SeenSetup
<1> HIDE DEF d
<1>5. Seen(e)
  BY <1>1, <1>4, SeenEnable
<1>6. LightUp(s, c, s.crtcOvl[c]) = e
  BY DEF LightUp, a, b, d, e, o
<1> HIDE DEF e
<1>7. Seen(EndMode(e, c))
  BY <1>5, SeenGiveUpMode, SeenUpdateCrtc DEF EndMode
<1> QED  BY <1>6, <1>7, SeenCrtc DEF SetModeOn

(* A mode is set on a CRTC that is on or off. *)
LEMMA SeenSetMode ==
  ASSUME NEW s, Seen(s), NEW c \in Crtc
  PROVE  Seen(SetModeMajor(s, c))
<1> DEFINE a == [s EXCEPT !.dpms[c] = TRUE]
           b == GetCrtcOverlay(a, c)
<1>1. Seen(a)
  BY SeenCrtc
<1>2. Seen(b)
  <2> HIDE DEF a
  <2> QED  BY <1>1, SeenGetCrtc
<1>3. Seen(SetModeOn(b, c))
  <2> HIDE DEF b
  <2> QED  BY <1>2, SeenSetModeOn
<1> QED  BY <1>3 DEF SetModeMajor

(* A port is no part of it. *)
LEMMA SeenCloneStop ==
  ASSUME NEW s, Seen(s), NEW v \in Ports
  PROVE  Seen(CloneStop(s, v))
<1> DEFINE c == s.port[v].cloneCrtc
           q == [s.port[v] EXCEPT !.cloneCrtc = NoCrtc]
           r == [s EXCEPT !.port[v] = q]
<1>1. s.port[v] \in Port
  BY PortOf DEF Seen
<1>2. q \in Port /\ c \in Crtc \cup {NoCrtc} /\ q.ovl = Ovl(s, v)
  BY <1>1 DEF Port, Ovl
<1>3. Seen(r)
  <2> HIDE DEF q
  <2> QED  BY <1>2, SeenPort
<1>4. CloneStop(s, v) \in {r, Ignoring(SetModeMajor(r, c))} /\ (c = NoCrtc => CloneStop(s, v) = r)
  BY DEF CloneStop
<1> HIDE DEF q, r, c
<1> QED  BY <1>2, <1>3, <1>4, SeenSetMode, SeenIgnoring

(* A clone begins, ends or moves to another CRTC. *)
LEMMA SeenCloneUpdate ==
  ASSUME NEW s, Seen(s)
  PROVE  Seen(CloneUpdate(s))
<1> DEFINE v == CloneInfo(s)
           c == s.port[v].cloneCrtc
           a == Ignoring(SetModeMajor(Ignoring(s), c))
           q == [a.port[v] EXCEPT !.updateClone = FALSE]
<1>1. Seen(Ignoring(s))
  BY SeenIgnoring
<1>2. CASE v = NoPort \/ ~s.port[v].updateClone \/ c = NoCrtc \/ ~Lit(s, c)
  BY <1>1, <1>2 DEF CloneUpdate
<1>3. CASE ~(v = NoPort \/ ~s.port[v].updateClone \/ c = NoCrtc \/ ~Lit(s, c))
  <2>1. v \in Ports
    BY <1>3, CloneInfoIs
  <2> HIDE DEF v
  <2>2. s.port[v] \in Port
    BY <2>1, PortOf DEF Seen
  <2>3. c \in Crtc
    BY <1>3, <2>2 DEF Port
  <2> HIDE DEF c
  <2>4. Seen(a)
    BY <1>1, <2>3, SeenSetMode, SeenIgnoring
  <2> HIDE DEF a
  <2>5. a.port[v] \in Port
    BY <2>1, <2>4, PortOf DEF Seen
  <2>6. q \in Port /\ q.ovl = Ovl(a, v)
    BY <2>5 DEF Port, Ovl
  <2>7. CloneUpdate(s) = [a EXCEPT !.port[v] = q]
    BY <1>3 DEF CloneUpdate, a, c, v
  <2> HIDE DEF q
  <2> QED  BY <2>1, <2>4, <2>6, <2>7, SeenPort
<1> QED  BY <1>2, <1>3

(* A frame that waits for the clone changes no overlay. *)
LEMMA SeenCloneSync ==
  ASSUME NEW s, Seen(s)
  PROVE  Seen(CloneSync(s))
  BY SeenRequire DEF CloneSync, OverlayWait, Death

(* DPMS, the panning of a CRTC and the flip of a page. *)
LEMMA SeenSetDpms ==
  ASSUME NEW s, Seen(s), NEW c \in Crtc, NEW on \in BOOLEAN
  PROVE  Seen(SetDpms(s, c, on))
<1> DEFINE r == [s EXCEPT !.dpms[c] = on]
           got == GetCrtcOverlay(r, c)
           lit == OverlayEnable(got, got.crtcOvl[c])
           off == OverlayDisable(r, s.crtcOvl[c])
<1>1. Seen(r)
  BY SeenCrtc
<1> HIDE DEF r
<1>2. Seen(got)
  BY <1>1, SeenGetCrtc
<1> HIDE DEF got
<1>3. Seen(lit)
  BY <1>2, CrtcFields, SeenEnable DEF Seen
<1>4. Seen(off)
  BY <1>1, CrtcFields, SeenDisable DEF Seen
<1> HIDE DEF lit, off
<1>5. SetDpms(s, c, on) \in {Ignoring(got), Ignoring(lit), r, off, PutCrtcOverlay(off, c)}
  BY DEF SetDpms, lit, off, got, r
<1> QED  BY <1>1, <1>2, <1>3, <1>4, <1>5, SeenIgnoring, SeenPutCrtc

(* Panning a CRTC pans its overlay. *)
LEMMA SeenSetOrigin ==
  ASSUME NEW s, Seen(s), NEW c \in Crtc
  PROVE  Seen(SetOrigin(s, c))
  BY SeenPan, SeenUpdateCrtc DEF SetOrigin

(* A page flip pans every CRTC. *)
LEMMA SeenFlip ==
  ASSUME NEW s, Seen(s)
  PROVE  Seen(FlipCrtcs(s))
  BY SeenPan DEF FlipCrtcs

(* RandR sets a mode, and puts back the former one where that fails. *)
LEMMA SeenSetCrtcMode ==
  ASSUME NEW s, Seen(s), NEW c \in Crtc, NEW r \in Rotation
  PROVE  Seen(SetCrtcMode(s, c, r))
<1> DEFINE a == [s EXCEPT !.enabled[c] = TRUE, !.rotation[c] = r]
           t == SetModeMajor(a, c)
           back == [Ignoring(t) EXCEPT !.enabled[c] = s.enabled[c], !.rotation[c] = s.rotation[c]]
<1>1. Seen(a)
  BY SeenCrtc
<1> HIDE DEF a
<1>2. Seen(t)
  BY <1>1, SeenSetMode
<1> HIDE DEF t
<1>3. s.enabled[c] \in BOOLEAN /\ s.rotation[c] \in Rotation
  BY DEF Seen, Running, Device
<1>4. Seen(back)
  BY <1>2, <1>3, SeenIgnoring, SeenCrtc
<1>5. SetCrtcMode(s, c, r) \in {t, back}
  BY DEF SetCrtcMode, t, a
<1> HIDE DEF back
<1> QED  BY <1>2, <1>4, <1>5

(* A CRTC that RandR disables is switched off. *)
LEMMA SeenDisableCrtc ==
  ASSUME NEW s, Seen(s), NEW c \in Crtc
  PROVE  Seen(DisableCrtc(s, c))
  BY SeenCrtc, SeenSetDpms DEF DisableCrtc

(* The overlays that realloc_fb switches off and on again. *)
LEMMA SeenRealloc ==
  ASSUME NEW s, Seen(s), NEW n \in Sizes
  PROVE  Seen(ReallocFb(s, n))
<1> DEFINE lit == {o \in s.on : s.usage[o] \in Crtc}
           a == [FbUnmap(s, 0) EXCEPT !.on = @ \ lit]
           b == Ignoring(FbAlloc(a, 0, n))
           back == FbMap(b, 0)
           again == IF Fails(s, "enable") THEN {} ELSE lit
           e == [back EXCEPT !.on = @ \cup again]
<1>0. s \in Running /\ s \in Device
  BY DEF Seen, Running
<1>1. Seen(a) /\ a.usage = s.usage /\ a.fb = s.fb
  <2>1. /\ a.usage = s.usage /\ a.fb = s.fb /\ a.on = s.on \ lit /\ a \in Running
        /\ a.crtcOvl = s.crtcOvl /\ a.port = s.port
    BY <1>0 DEF FbUnmap, Running, Device
  <2> HIDE DEF a
  <2> QED  BY <2>1, SeenSame
<1> HIDE DEF a
<1>2. Seen(b) /\ b.usage = s.usage /\ b.fb = s.fb
  <2>1. a \in Device
    BY <1>1 DEF Seen, Running
  <2>2. b.usage = a.usage /\ b.fb = a.fb
    BY <2>1 DEF FbAlloc, Ignoring, Device
  <2> QED  BY <1>1, <2>2, SeenMemory, SeenIgnoring DEF Fb
<1> HIDE DEF b
<1>3. Seen(back) /\ back.usage = s.usage /\ back.fb = s.fb
  <2>1. b \in Device
    BY <1>2 DEF Seen, Running
  <2>2. back.usage = b.usage /\ back.fb = b.fb
    BY <2>1 DEF FbMap, Require, Device
  <2> QED  BY <1>2, <2>2, SeenMemory DEF Fb
<1> HIDE DEF back
<1>4. Seen(e)
  <2>1. back \in Device /\ again \subseteq Overlay /\ \A o \in again : o \in s.on
    BY <1>0, <1>3 DEF Seen, Running, Device
  <2> HIDE DEF again
  <2>2. /\ e \in Running /\ e.usage = s.usage /\ e.fb = s.fb /\ e.on = back.on \cup again
        /\ e.usage = back.usage /\ e.crtcOvl = back.crtcOvl /\ e.port = back.port
    BY <1>3, <2>1 DEF Seen, Running, Device
  <2> HIDE DEF e
  <2>3. ScreenOnly(e)
    BY <1>3, <2>1, <2>2 DEF Seen, ScreenOnly
  <2>4. Owned(e)
    BY <1>3, <2>2 DEF Seen, Owned, Ovl
  <2> QED  BY <2>2, <2>3, <2>4 DEF Seen
<1>5. ReallocFb(s, n) \in {Require(Ignoring(back), FALSE, "fatal"), e}
  BY DEF ReallocFb, lit, a, b, back, again, e
<1> HIDE DEF e
<1> QED  BY <1>3, <1>4, <1>5, SeenIgnoring, SeenRequire DEF Death

-----------------------------------------------------------------------------
(* The steps of a port give no CRTC's overlay another framebuffer. *)

(* The same of all but one port, while that one takes or gives back its overlay. *)
OwnedBut(s, v) ==
  /\ \A c \in Crtc : s.crtcOvl[c] # NoOverlay => s.usage[s.crtcOvl[c]] = c
  /\ \A w \in Ports \ {v} : Ovl(s, w) # NoOverlay => s.usage[Ovl(s, w)] \in Xv
  /\ \A w, u \in Ports \ {v} : Ovl(s, w) # NoOverlay /\ Ovl(s, w) = Ovl(s, u) => w = u

(* It may have an overlay that was taken for a port and that no other has. *)
MayOwn(s, v, o) == s.usage[o] \in Xv /\ \A w \in Ports \ {v} : Ovl(s, w) # o

(* Then all is as it was. *)
LEMMA SeenPortOvl ==
  ASSUME NEW s \in Running, ScreenOnly(s), NEW v \in Ports, NEW q \in Port,
         OwnedBut(s, v), q.ovl = NoOverlay \/ MayOwn(s, v, q.ovl)
  PROVE  Seen([s EXCEPT !.port[v] = q])
<1> DEFINE t == [s EXCEPT !.port[v] = q]
<1>1. s \in Device
  BY DEF Running
<1>2. t \in Running
  BY SetPort DEF Steps
<1>3. /\ t.usage = s.usage /\ t.fb = s.fb /\ t.on = s.on /\ t.crtcOvl = s.crtcOvl
      /\ t.port = [s.port EXCEPT ![v] = q]
  BY <1>1 DEF Device
<1> HIDE DEF t
<1>4. Ovl(t, v) = q.ovl /\ \A w \in Ports \ {v} : Ovl(t, w) = Ovl(s, w)
  BY <1>1, <1>3 DEF Ovl, Device
<1>5. ScreenOnly(t)
  BY <1>3 DEF ScreenOnly
<1>6. Owned(t)
  <2>1. \A w \in Ports : Ovl(t, w) # NoOverlay => t.usage[Ovl(t, w)] \in Xv
    BY <1>3, <1>4 DEF OwnedBut, MayOwn
  <2>2. \A w, u \in Ports : Ovl(t, w) # NoOverlay /\ Ovl(t, w) = Ovl(t, u) => w = u
    BY <1>4 DEF OwnedBut, MayOwn
  <2> QED  BY <1>3, <2>1, <2>2 DEF Owned, OwnedBut
<1> QED  BY <1>2, <1>5, <1>6 DEF Seen, t

(* The steps of a port: none gives a CRTC's overlay another framebuffer. *)
LEMMA SeenGetOverlay ==
  ASSUME NEW s, Seen(s), NEW v \in Ports
  PROVE  Seen(GetOverlay(s, v))
<1> DEFINE use == s.port[v].stacking
           o == PoolChoice(s, use)
           got == PoolGet(s, o, use, VideoFb(v))
           q == [got.port[v] EXCEPT !.ovl = o, !.dirty = TRUE]
<1>1. use \in Xv /\ use \notin Crtc
  BY PortFields DEF Seen, Xv, Crtc
<1> HIDE DEF use
<1>2. /\ Seen(got)
      /\ ~got.failed => /\ o \in Overlay /\ got.usage[o] = use
                        /\ \A w \in Ports : Ovl(got, w) # o
  BY <1>1, SeenGet, VideoFbIs
<1>3. \/ GetOverlay(s, v) \in {s, got}
      \/ ~got.failed /\ GetOverlay(s, v) = [got EXCEPT !.port[v].ovl = o, !.port[v].dirty = TRUE]
  BY DEF GetOverlay, use
<1> HIDE DEF got, o
<1>4. got.port[v] \in Port /\ got \in Device
  BY <1>2, PortOf DEF Seen, Running
<1>5. [got EXCEPT !.port[v].ovl = o, !.port[v].dirty = TRUE] = [got EXCEPT !.port[v] = q]
  BY <1>4 DEF Device
<1>6. ASSUME ~got.failed PROVE Seen([got EXCEPT !.port[v] = q])
  <2>1. q \in Port /\ q.ovl = o
    BY <1>2, <1>4, <1>6 DEF Port
  <2> HIDE DEF q
  <2>2. got \in Running /\ ScreenOnly(got) /\ OwnedBut(got, v)
    BY <1>2 DEF Seen, Owned, OwnedBut
  <2>3. MayOwn(got, v, o)
    BY <1>1, <1>2, <1>6 DEF MayOwn
  <2> QED  BY <2>1, <2>2, <2>3, SeenPortOvl
<1> QED  BY <1>2, <1>3, <1>5, <1>6

(* It gives back what nobody else has. *)
LEMMA SeenPutOverlay ==
  ASSUME NEW s, Seen(s), NEW v \in Ports
  PROVE  Seen(PutOverlay(s, v))
<1> DEFINE o == Ovl(s, v)
           a == PoolPut(s, o)
           q == [a.port[v] EXCEPT !.ovl = NoOverlay]
<1>1. CASE o = NoOverlay
  BY <1>1 DEF PutOverlay
<1>2. ASSUME o # NoOverlay PROVE Seen(PutOverlay(s, v))
  <2>0. s \in Running /\ s \in Device
    BY DEF Seen, Running
  <2>1. o \in Overlay /\ s.usage[o] \in Xv
    BY <1>2, <2>0, PortFields DEF Seen, OrNone, Owned
  <2>2. \A w \in Ports \ {v} : Ovl(s, w) # o
    BY <1>2 DEF Seen, Owned
  <2>3. PutOverlay(s, v) = [a EXCEPT !.port[v] = q]
    BY <1>2 DEF PutOverlay
  <2> HIDE DEF o
  <2>4. /\ a \in Running /\ ScreenOnly(a) /\ a.crtcOvl = s.crtcOvl /\ a.port = s.port
        /\ a.usage = [s.usage EXCEPT ![o] = "NONE"]
    BY <2>1, SeenPut
  <2> HIDE DEF a
  <2>5. q \in Port /\ q.ovl = NoOverlay
    BY <2>4, PortOf DEF Port
  <2> HIDE DEF q
  <2>6. /\ \A w \in Ports : Ovl(a, w) = Ovl(s, w) /\ Ovl(s, w) \in OrNone
        /\ \A c \in Crtc : s.crtcOvl[c] \in OrNone
    BY <2>0, <2>4, PortFields, CrtcFields DEF Ovl
  <2>7. \A p \in Overlay : p # o => a.usage[p] = s.usage[p]
    BY <2>0, <2>1, <2>4 DEF Device
  <2>8. \A c \in Crtc : s.crtcOvl[c] # o
    <3>1. o # NoOverlay /\ \A c \in Crtc : c \notin Xv
      BY <1>2 DEF o, Xv, Crtc
    <3> QED  BY <2>1, <3>1 DEF Seen, Owned
  <2>9. \A c \in Crtc : a.crtcOvl[c] # NoOverlay => a.usage[a.crtcOvl[c]] = c
    BY <2>4, <2>6, <2>7, <2>8 DEF Seen, Owned, OrNone
  <2>10. /\ \A w \in Ports \ {v} : Ovl(a, w) # NoOverlay => a.usage[Ovl(a, w)] \in Xv
         /\ \A w, u \in Ports \ {v} : Ovl(a, w) # NoOverlay /\ Ovl(a, w) = Ovl(a, u) => w = u
    BY <2>2, <2>6, <2>7 DEF Seen, Owned, OrNone
  <2>11. OwnedBut(a, v)
    BY <2>9, <2>10 DEF OwnedBut
  <2> QED  BY <2>3, <2>4, <2>5, <2>11, SeenPortOvl
<1> QED  BY <1>1, <1>2

(* Its memory may be changed and freed. *)
LEMMA SeenIdle ==
  ASSUME NEW s, Seen(s), NEW v \in Ports
  PROVE  Seen(Idle(s, v))
  BY PortFields, SeenDisable, SeenIgnoring, SeenMemory, VideoFbIs DEF Idle, Seen

(* The port remembers that it has memory, or has none. *)
LEMMA SeenSetAllocated ==
  ASSUME NEW s, Seen(s), NEW v \in Ports, NEW b \in BOOLEAN
  PROVE  /\ Seen([s EXCEPT !.port[v].allocated = b])
         /\ Seen([s EXCEPT !.port[v].allocated = b, !.port[v].dirty = TRUE])
<1> DEFINE p == [s.port[v] EXCEPT !.allocated = b]
           q == [s.port[v] EXCEPT !.allocated = b, !.dirty = TRUE]
<1>1. s.port[v] \in Port
  BY PortOf DEF Seen
<1>2. p \in Port /\ p.ovl = Ovl(s, v)
  BY <1>1 DEF Port, Ovl
<1>2a. q \in Port /\ q.ovl = Ovl(s, v)
  BY <1>1 DEF Port, Ovl
<1>3. Seen([s EXCEPT !.port[v] = p]) /\ Seen([s EXCEPT !.port[v] = q])
  <2> HIDE DEF p, q
  <2> QED  BY <1>2, <1>2a, SeenPort
<1>4. /\ [s EXCEPT !.port[v].allocated = b] = [s EXCEPT !.port[v] = p]
      /\ [s EXCEPT !.port[v].allocated = b, !.port[v].dirty = TRUE] = [s EXCEPT !.port[v] = q]
  BY DEF Seen, Running, Device
<1> QED  BY <1>3, <1>4

(* It is allocated for a picture. *)
LEMMA SeenAllocMem ==
  ASSUME NEW s, Seen(s), NEW v \in Ports, NEW n \in Sizes
  PROVE  Seen(AllocMem(s, v, n))
<1> DEFINE got == FbAlloc(Idle(s, v), VideoFb(v), n)
<1>1. Seen(got)
  BY SeenIdle, SeenMemory, VideoFbIs
<1>2. AllocMem(s, v, n)
        \in {s, got, [got EXCEPT !.port[v].allocated = TRUE, !.port[v].dirty = TRUE]}
  BY DEF AllocMem
<1> HIDE DEF got
<1>3. Seen([got EXCEPT !.port[v].allocated = TRUE, !.port[v].dirty = TRUE])
  BY <1>1, SeenSetAllocated
<1> QED  BY <1>1, <1>2, <1>3

(* A stopped port's overlay and memory are at rest. *)
LEMMA SeenStop ==
  ASSUME NEW s, Seen(s), NEW v \in Ports
  PROVE  Seen(Stop(s, v))
<1> DEFINE a == Idle(Ignoring(s), v)
           freed == FbFree(a, VideoFb(v))
           b == FreeMem(a, v)
<1>1. Seen(a)
  BY SeenIgnoring, SeenIdle
<1> HIDE DEF a
<1>2. Seen(freed)
  BY <1>1, SeenMemory, VideoFbIs
<1> HIDE DEF freed
<1>3. Seen(b)
  BY <1>1, <1>2, SeenIgnoring, SeenSetAllocated DEF FreeMem, freed
<1>4. Stop(s, v) = [b EXCEPT !.port[v].state = "stopped", !.port[v].crtc = NoCrtc,
                             !.port[v].timer = FALSE]
  BY DEF Stop, a
<1> DEFINE t == [b EXCEPT !.port[v].state = "stopped", !.port[v].crtc = NoCrtc,
                          !.port[v].timer = FALSE]
<1> HIDE DEF b
<1>5. b \in Running /\ b \in Device
  BY <1>3 DEF Seen, Running
<1>6. t \in Running
  BY <1>5, SetStopped DEF Steps
<1>7. t.usage = b.usage /\ t.fb = b.fb /\ t.on = b.on /\ t.crtcOvl = b.crtcOvl
  BY <1>5 DEF Device
<1>8. \A w \in Ports : Ovl(t, w) = Ovl(b, w)
  <2> SUFFICES ASSUME NEW w \in Ports PROVE t.port[w].ovl = b.port[w].ovl
    BY DEF Ovl
  <2>1. b.port \in [Ports -> Port]
    BY <1>5 DEF Device
  <2>2. b.port[w] \in Port
    BY <2>1
  <2> QED  BY <1>5, <2>1, <2>2 DEF Device, Port
<1> HIDE DEF t
<1> QED  BY <1>3, <1>4, <1>6, <1>7, <1>8, SeenSamePorts DEF t

(* One that gives up returns its overlay too. *)
LEMMA SeenGiveUp ==
  ASSUME NEW s, Seen(s), NEW v \in Ports
  PROVE  Seen(GiveUp(s, v))
  BY SeenStop, SeenPutOverlay DEF GiveUp

(* The port may move. *)
LEMMA SeenLeave ==
  ASSUME NEW s, Seen(s), NEW v \in Ports
  PROVE  Seen(LeaveCrtc(s, v))
<1> DEFINE a == Ignoring(OverlayDisable(CloneStop(s, v), Ovl(s, v)))
           q == [a.port[v] EXCEPT !.dirty = TRUE, !.updateClone = TRUE]
<1>1. Seen(a)
  BY PortFields, SeenCloneStop, SeenDisable, SeenIgnoring DEF Seen
<1>2. LeaveCrtc(s, v) = [a EXCEPT !.port[v].dirty = TRUE, !.port[v].updateClone = TRUE]
  BY DEF LeaveCrtc
<1> HIDE DEF a
<1>3. a.port[v] \in Port /\ a \in Device
  BY <1>1, PortOf DEF Seen, Running
<1>4. q \in Port /\ q.ovl = Ovl(a, v)
  BY <1>3 DEF Port, Ovl
<1>5. LeaveCrtc(s, v) = [a EXCEPT !.port[v] = q]
  BY <1>2, <1>3 DEF Device
<1> HIDE DEF q
<1> QED  BY <1>1, <1>4, <1>5, SeenPort

(* It is turned with the CRTC it is on. *)
LEMMA SeenTurn ==
  ASSUME NEW s, Seen(s), NEW v \in Ports
  PROVE  Seen(UpdateRotation(s, v))
<1> DEFINE q == TurnedPort(s, v)
<1>1. q \in Port /\ UpdateRotation(s, v) = [s EXCEPT !.port[v] = q]
  BY TurnedPortType, UpdateRotationIs DEF Seen
<1>2. q.ovl = Ovl(s, v)
  <2>1. s.port[v] \in Port
    BY PortOf DEF Seen
  <2> QED  BY <2>1 DEF TurnedPort, Port, Ovl
<1> HIDE DEF q
<1> QED  BY <1>1, <1>2, SeenPort

(* It arrives on a CRTC and is turned with it. *)
LEMMA SeenArrive ==
  ASSUME NEW s, Seen(s), NEW v \in Ports, NEW c \in Crtc \cup {NoCrtc}
  PROVE  Seen(Arrive(s, v, c))
<1> DEFINE p == [s.port[v] EXCEPT !.crtc = c]
           a == [s EXCEPT !.port[v] = p]
<1>1. s.port[v] \in Port
  BY PortOf DEF Seen
<1>2. p \in Port /\ p.ovl = Ovl(s, v)
  BY <1>1 DEF Port, Ovl
<1>3. Arrive(s, v, c) \in {s, UpdateRotation(a, v)}
  BY DEF Arrive
<1>4. Seen(a)
  <2> HIDE DEF p
  <2> QED  BY <1>2, SeenPort
<1> HIDE DEF a
<1>5. Seen(UpdateRotation(a, v))
  BY <1>4, SeenTurn
<1> QED  BY <1>3, <1>5

(* From one CRTC to another it takes all of these steps. *)
LEMMA SeenRetarget ==
  ASSUME NEW s, Seen(s), NEW v \in Ports, NEW c \in Crtc \cup {NoCrtc}
  PROVE  Seen(Retarget(s, v, c))
<1> DEFINE a == LeaveCrtc(s, v)
           b == AssignDisplay(a, v, c)
           d == Arrive(b, v, c)
           e == IF c = s.port[v].crtc THEN s ELSE d
           q == [e.port[v] EXCEPT !.cloneCrtc = GetCloneCrtc(e, v)]
<1>1. Seen(a)
  BY SeenLeave
<1> HIDE DEF a
<1>2. Seen(b)
  BY <1>1, PortFields, SeenOutput DEF AssignDisplay, Seen
<1> HIDE DEF b
<1>3. Seen(d)
  BY <1>2, SeenArrive
<1> HIDE DEF d
<1>4. Seen(e)
  BY <1>3
<1>5. Retarget(s, v, c) \in {s, e, [e EXCEPT !.port[v] = q]}
  BY DEF Retarget, ChooseClone, a, b, d
<1> HIDE DEF e
<1>6. q \in Port /\ q.ovl = Ovl(e, v)
  BY <1>4, PortOf, GetCloneCrtcType DEF Seen, Port, Ovl
<1> HIDE DEF q
<1> QED  BY <1>4, <1>5, <1>6, SeenPort

(* Its picture may be set up, written and shown. *)
LEMMA SeenStart ==
  ASSUME NEW s, Seen(s), NEW v \in Ports
  PROVE  Seen(StartVideo(s, v))
<1> DEFINE placed == Ignoring(OverlaySetup(s, Ovl(s, v)))
           ready == IF s.port[v].kind = "image" THEN Map(placed, v) ELSE placed
           q == [ready.port[v] EXCEPT !.dirty = FALSE, !.state = "active", !.updateClone = TRUE]
<1>1. Seen(placed)
  BY PortFields, SeenSetup, SeenIgnoring DEF Seen
<1> HIDE DEF placed
<1>2. Seen(ready)
  BY <1>1, SeenMemory, VideoFbIs DEF Map
<1>3. StartVideo(s, v) \in
        {ready, [ready EXCEPT !.port[v].dirty = FALSE, !.port[v].state = "active",
                              !.port[v].updateClone = TRUE]}
  BY DEF StartVideo, placed
<1> HIDE DEF ready
<1>4. ready.port[v] \in Port /\ ready \in Device
  BY <1>2, PortOf DEF Seen, Running
<1>5. q \in Port /\ q.ovl = Ovl(ready, v)
  BY <1>4 DEF Port, Ovl
<1>6. [ready EXCEPT !.port[v].dirty = FALSE, !.port[v].state = "active",
                    !.port[v].updateClone = TRUE] = [ready EXCEPT !.port[v] = q]
  BY <1>4 DEF Device
<1> HIDE DEF q
<1> QED  BY <1>2, <1>3, <1>5, <1>6, SeenPort

(* The picture is written and panned to. *)
LEMMA SeenFillAndFlip ==
  ASSUME NEW s, Seen(s), NEW v \in Ports
  PROVE  Seen(FillAndFlip(s, v))
<1> DEFINE a == Require(OverlayWait(CloneSync(s), Ovl(s, v), "overlay"),
                        s.mapped[VideoFb(v)], "copy")
           b == OverlaySetup(a, Ovl(s, v))
           q == [b.port[v] EXCEPT !.updateClone = TRUE]
<1>1. Seen(a)
  BY SeenCloneSync, SeenRequire DEF OverlayWait, Death
<1> HIDE DEF a
<1>2. Seen(b)
  BY <1>1, PortFields, SeenSetup DEF Seen
<1>3. FillAndFlip(s, v) = IF b.failed THEN Ignoring(b)
                          ELSE [b EXCEPT !.port[v].updateClone = TRUE]
  BY DEF FillAndFlip, a
<1> HIDE DEF b
<1>4. b.port[v] \in Port /\ b \in Device
  BY <1>2, PortOf DEF Seen, Running
<1>5. q \in Port /\ q.ovl = Ovl(b, v)
  BY <1>4 DEF Port, Ovl
<1>6. FillAndFlip(s, v) \in {Ignoring(b), [b EXCEPT !.port[v] = q]}
  BY <1>3, <1>4 DEF Device
<1> HIDE DEF q
<1> QED  BY <1>2, <1>5, <1>6, SeenPort, SeenIgnoring

(* The timer is armed for the picture. *)
LEMMA SeenArm ==
  ASSUME NEW s, Seen(s), NEW v \in Ports
  PROVE  Seen(RearmTimer(s, v))
<1> DEFINE q == [s.port[v] EXCEPT !.timer = s.port[v].noKey]
<1>1. s.port[v] \in Port
  BY PortOf DEF Seen
<1>2. q \in Port /\ q.ovl = Ovl(s, v)
  BY <1>1 DEF Port, Ovl
<1>3. RearmTimer(s, v) = [s EXCEPT !.port[v] = q]
  BY DEF RearmTimer
<1> HIDE DEF q
<1> QED  BY <1>2, <1>3, SeenPort

(* The key is drawn and the overlay lit. *)
LEMMA SeenShow ==
  ASSUME NEW s, Seen(s), NEW v \in Ports, NEW enable
  PROVE  Seen(Show(s, v, enable))
<1> DEFINE armed == RearmTimer(s, v)
           key == SetupColorkey(armed, v, ~s.port[v].noKey)
           lit == OverlayEnable(key, Ovl(s, v))
<1>1. Seen(armed)
  BY SeenArm
<1> HIDE DEF armed
<1>2. Seen(key)
  BY <1>1, SeenKey
<1> HIDE DEF key
<1>3. Seen(lit)
  BY <1>2, PortFields, SeenEnable DEF Seen
<1> HIDE DEF lit
<1> QED  BY <1>1, <1>3, SeenIgnoring DEF Show, armed, key, lit

(* The requests are made of these steps. *)
LEMMA SeenPutImage ==
  ASSUME NEW s, Seen(s), NEW v \in Ports, NEW n \in Sizes,
         NEW c \in Crtc \cup {NoCrtc}, NEW moved, NEW buf
  PROVE  Seen(PutImage(s, v, n, c, moved, buf))
<1> DEFINE a == GetOverlay(s, v)
           b == AllocMem(a, v, n)
           p == [b.port[v] EXCEPT !.kind = "image"]
           d == AsKind(b, v, "image")
           e == Retarget(d, v, c)
           f == Restart(e, v, moved)
           enable == e.port[v].dirty \/ moved
           g == IF buf THEN FillAndFlip(f, v) ELSE f
<1>1. Seen(a)
  BY SeenGetOverlay
<1>2. Seen(b)
  <2> HIDE DEF a
  <2> QED  BY <1>1, SeenAllocMem
<1>3. Seen(d)
  <2> HIDE DEF a, b
  <2>1. p \in Port /\ p.ovl = Ovl(b, v)
    BY <1>2, PortOf DEF Seen, Port, Ovl
  <2>2. d \in {b, [b EXCEPT !.port[v] = p]}
    BY DEF AsKind
  <2> HIDE DEF p, d
  <2> QED  BY <1>2, <2>1, <2>2, SeenPort
<1> HIDE DEF d
<1>4. Seen(e)
  BY <1>3, SeenRetarget
<1> HIDE DEF e
<1>5. Seen(f)
  BY <1>4, SeenStart DEF Restart
<1> HIDE DEF f
<1>6. Seen(g)
  BY <1>5, SeenFillAndFlip
<1>7. Seen(Fill(f, v, enable, buf))
  <2>1. Fill(f, v, enable, buf) \in {GiveUp(f, v), Show(g, v, enable)}
    BY DEF Fill
  <2> HIDE DEF enable, g
  <2> QED  BY <1>5, <1>6, <2>1, SeenGiveUp, SeenShow
<1>8. Seen(PutImageOn(e, v, moved, buf))
  BY <1>4, <1>7, SeenGiveUp DEF PutImageOn, f
<1>9. PlaceImage(a, v, n, c, moved, buf) \in {a, PutImageOn(e, v, moved, buf)}
  BY DEF PlaceImage, d, e
<1>10. Seen(PlaceImage(a, v, n, c, moved, buf))
  <2> HIDE DEF a, b
  <2> QED  BY <1>1, <1>8, <1>9
<1> QED  BY <1>10, SeenCloneUpdate DEF PutImage

(* The same of a client that has drawn the picture itself. *)
LEMMA SeenPutVideo ==
  ASSUME NEW s, Seen(s), NEW v \in Ports, NEW c \in Crtc \cup {NoCrtc}, NEW moved
  PROVE  Seen(PutVideo(s, v, c, moved))
<1> DEFINE a == FbRefresh(s, VideoFb(v), Ovl(s, v))
           p == [a.port[v] EXCEPT !.kind = "video"]
           d == AsKind(a, v, "video")
           e == Retarget(d, v, c)
           f == Restart(e, v, moved)
           enable == s.port[v].dirty \/ c # s.port[v].crtc
<1>1. Seen(a)
  BY PortFields, SeenRefresh, VideoFbIs DEF Seen
<1> HIDE DEF a
<1>2. Seen(d)
  <2>1. p \in Port /\ p.ovl = Ovl(a, v)
    BY <1>1, PortOf DEF Seen, Port, Ovl
  <2>2. d \in {a, [a EXCEPT !.port[v] = p]}
    BY DEF AsKind
  <2> HIDE DEF p, d
  <2> QED  BY <1>1, <2>1, <2>2, SeenPort
<1> HIDE DEF d
<1>3. Seen(e)
  BY <1>2, SeenRetarget
<1> HIDE DEF e
<1>4. Seen(f)
  BY <1>3, SeenStart DEF Restart
<1> HIDE DEF f, enable
<1>5. Seen(PutVideoOn(e, v, moved, enable))
  BY <1>3, <1>4, SeenStop, SeenShow DEF PutVideoOn, f
<1>6. PutVideo(s, v, c, moved) \in {CloneUpdate(s), CloneUpdate(PutVideoOn(e, v, moved, enable))}
  BY DEF PutVideo, a, d, e, enable
<1> QED  BY <1>5, <1>6, SeenCloneUpdate

(* And of one that stops. *)
LEMMA SeenStopVideo ==
  ASSUME NEW s, Seen(s), NEW v \in Ports, NEW exit
  PROVE  Seen(StopVideo(s, v, exit))
<1> DEFINE a == Stop(CloneStop(s, v), v)
           p == [a.port[v] EXCEPT !.dirty = TRUE, !.updateClone = TRUE]
           b == [a EXCEPT !.port[v] = p]
           freed == Ignoring(FbFree(b, VideoFb(v)))
           q == [freed.port[v] EXCEPT !.noKey = FALSE, !.clone = TRUE, !.rotation = Rotate0,
                                      !.stacking = "XV", !.reserved = FALSE]
           d == Reset(b, v, exit)
<1>1. Seen(a)
  BY SeenCloneStop, SeenStop
<1> HIDE DEF a
<1>2. a.port[v] \in Port /\ a \in Device
  BY <1>1, PortOf DEF Seen, Running
<1>3. p \in Port /\ p.ovl = Ovl(a, v)
  BY <1>2 DEF Port, Ovl
<1>4. [a EXCEPT !.port[v].dirty = TRUE, !.port[v].updateClone = TRUE] = b
  BY <1>2 DEF Device
<1> HIDE DEF p
<1>5. Seen(b)
  BY <1>1, <1>3, SeenPort
<1>6. StopVideo(s, v, exit) = CloneUpdate(PutUnreserved(d, v))
  BY <1>4 DEF StopVideo, a
<1> HIDE DEF b
<1>7. Seen(freed)
  BY <1>5, SeenMemory, SeenIgnoring, VideoFbIs
<1> HIDE DEF freed
<1>8. q \in Port /\ q.ovl = Ovl(freed, v)
  <2>1. freed.port[v] \in Port
    BY <1>7, PortOf DEF Seen
  <2> QED  BY <2>1, Rotate0Type DEF Port, Ovl
<1>9. d \in {b, [freed EXCEPT !.port[v] = q]}
  BY DEF Reset, freed
<1> HIDE DEF q, d
<1>10. Seen(d)
  BY <1>5, <1>7, <1>8, <1>9, SeenPort
<1> QED  BY <1>6, <1>10, SeenPutOverlay, SeenCloneUpdate DEF PutUnreserved

-----------------------------------------------------------------------------
(* So every request keeps it, and a CRTC that shows no clone shows the screen. *)

(* What a client stores in its port is not the overlays'. *)
LEMMA SeenReserve ==
  ASSUME NEW s, Seen(s), NEW v \in Ports, NEW value \in BOOLEAN
  PROVE  Seen(SetReserve(s, v, value))
<1> DEFINE r == Require(s, Ovl(s, v) = NoOverlay, "reserve")
           taken == GetOverlay(r, v)
           l == Require(s, Ovl(s, v) # NoOverlay, "release")
           given == PutOverlay(Ignoring(FbFree(l, VideoFb(v))), v)
           p == [given.port[v] EXCEPT !.reserved = FALSE]
           q == [taken.port[v] EXCEPT !.reserved = TRUE]
<1>1. Seen(r) /\ Seen(l)
  BY SeenRequire DEF Death
<1>2. Seen(taken)
  <2> HIDE DEF r
  <2> QED  BY <1>1, SeenGetOverlay
<1>3. Seen(given)
  <2> HIDE DEF l
  <2> QED  BY <1>1, SeenMemory, SeenIgnoring, SeenPutOverlay, VideoFbIs
<1>4. SetReserve(s, v, value)
        \in {s, Ignoring(taken), [given EXCEPT !.port[v] = p], [taken EXCEPT !.port[v] = q]}
  BY DEF SetReserve
<1> HIDE DEF taken, given
<1>5. p \in Port /\ q \in Port /\ p.ovl = Ovl(given, v) /\ q.ovl = Ovl(taken, v)
  <2>1. given.port[v] \in Port /\ taken.port[v] \in Port
    BY <1>2, <1>3, PortOf DEF Seen
  <2>2. p \in Port /\ p.ovl = Ovl(given, v)
    BY <2>1 DEF Port, Ovl
  <2>3. q \in Port /\ q.ovl = Ovl(taken, v)
    BY <2>1 DEF Port, Ovl
  <2> QED  BY <2>2, <2>3
<1> HIDE DEF p, q
<1> QED  BY <1>2, <1>3, <1>4, <1>5, SeenPort, SeenIgnoring

(* Nor are the other attributes. *)
LEMMA SeenAttributes ==
  ASSUME NEW s, Seen(s), NEW v \in Ports
  PROVE  /\ \A b \in BOOLEAN : Seen(SetClone(s, v, b)) /\ Seen(SetDisableColorkey(s, v, b))
         /\ Seen(SetColorkey(s, v)) /\ Seen(SyncVideo(s, v)) /\ Seen(KeyTimer(s, v))
         /\ \A r \in Rotation : Seen(SetRotation(s, v, r))
         /\ \A use \in Xv : Seen([s EXCEPT !.port[v].stacking = use])
<1>0. s.port[v] \in Port /\ s \in Device
  BY PortOf DEF Seen, Running
<1>1. ASSUME NEW b \in BOOLEAN
      PROVE  Seen(SetClone(s, v, b)) /\ Seen(SetDisableColorkey(s, v, b))
  <2> DEFINE p == [s.port[v] EXCEPT !.clone = b, !.crtc = NoCrtc]
             q == [s.port[v] EXCEPT !.noKey = b]
             a == [s EXCEPT !.port[v] = q]
  <2>1. p \in Port /\ p.ovl = Ovl(s, v)
    BY <1>0 DEF Port, Ovl
  <2>1a. q \in Port /\ q.ovl = Ovl(s, v)
    BY <1>0 DEF Port, Ovl
  <2>2. SetClone(s, v, b) = [s EXCEPT !.port[v] = p]
    BY <1>0 DEF SetClone, Device
  <2>3. SetDisableColorkey(s, v, b) = RearmTimer(SetupColorkey(a, v, ~b), v)
    BY DEF SetDisableColorkey
  <2> HIDE DEF p, q
  <2>4. Seen([s EXCEPT !.port[v] = p]) /\ Seen(a)
    BY <2>1, <2>1a, SeenPort
  <2> HIDE DEF a
  <2>5. Seen(SetupColorkey(a, v, ~b))
    BY <2>4, SeenKey
  <2> QED  BY <2>2, <2>3, <2>4, <2>5, SeenArm
<1>2. Seen(SetColorkey(s, v)) /\ Seen(SyncVideo(s, v))
  BY SeenKey, SeenCloneSync, SeenRequire DEF SetColorkey, SyncVideo, OverlayWait, Death
<1>3. Seen(KeyTimer(s, v))
  <2> DEFINE a == SetupColorkey(s, v, TRUE)
             q == [a.port[v] EXCEPT !.timer = FALSE, !.dirty = TRUE]
  <2>1. Seen(a)
    BY SeenKey
  <2>2. KeyTimer(s, v) = [a EXCEPT !.port[v].timer = FALSE, !.port[v].dirty = TRUE]
    BY DEF KeyTimer
  <2> HIDE DEF a
  <2>3. a.port[v] \in Port /\ a \in Device
    BY <2>1, PortOf DEF Seen, Running
  <2>4. q \in Port /\ q.ovl = Ovl(a, v)
    BY <2>3 DEF Port, Ovl
  <2>5. KeyTimer(s, v) = [a EXCEPT !.port[v] = q]
    BY <2>2, <2>3 DEF Device
  <2> HIDE DEF q
  <2> QED  BY <2>1, <2>4, <2>5, SeenPort
<1>4. ASSUME NEW r \in Rotation PROVE Seen(SetRotation(s, v, r))
  <2> DEFINE q == [s.port[v] EXCEPT !.rotation = r]
             a == [s EXCEPT !.port[v] = q]
  <2>1. q \in Port /\ q.ovl = Ovl(s, v)
    BY <1>0 DEF Port, Ovl
  <2>2. SetRotation(s, v, r) = UpdateRotation(a, v)
    BY DEF SetRotation
  <2> HIDE DEF q
  <2>3. Seen(a)
    BY <2>1, SeenPort
  <2> HIDE DEF a
  <2> QED  BY <2>2, <2>3, SeenTurn
<1>5. ASSUME NEW use \in Xv PROVE Seen([s EXCEPT !.port[v].stacking = use])
  <2> DEFINE q == [s.port[v] EXCEPT !.stacking = use]
  <2>1. q \in Port /\ q.ovl = Ovl(s, v)
    BY <1>0 DEF Port, Xv, Ovl
  <2>2. [s EXCEPT !.port[v].stacking = use] = [s EXCEPT !.port[v] = q]
    OBVIOUS
  <2> HIDE DEF q
  <2> QED  BY <2>1, <2>2, SeenPort
<1> QED  BY <1>1, <1>2, <1>3, <1>4, <1>5

(* Nor is the memory that it allocates for itself. *)
LEMMA SeenClientAlloc ==
  ASSUME NEW s, Seen(s), NEW v \in Ports, NEW n \in Sizes
  PROVE  Seen([s EXCEPT !.mem[VideoFb(v)] = n])
<1>1. s \in Running /\ s \in Device
  BY DEF Seen, Running
<1>2. [s EXCEPT !.mem[VideoFb(v)] = n] \in Running
  BY <1>1, ClientAllocType DEF Steps
<1> QED  BY <1>1, <1>2, SeenSame DEF Device

(* Between requests. *)
LEMMA SeenEnded ==
  ASSUME IInv, ScreenOnly(dev), NEW t, Seen(t)
  PROVE  ScreenOnly(Ended(t))
<1>1. t \in Device /\ dev \in Device
  BY DEF Seen, Running, IInv, Sound
<1>2. /\ [t EXCEPT !.fault = "none"].usage = t.usage
      /\ [t EXCEPT !.fault = "none"].fb = t.fb /\ [t EXCEPT !.fault = "none"].on = t.on
      /\ [dev EXCEPT !.server = t.server].usage = dev.usage
      /\ [dev EXCEPT !.server = t.server].fb = dev.fb
      /\ [dev EXCEPT !.server = t.server].on = dev.on
  BY <1>1 DEF Device
<1> QED  BY <1>2 DEF Ended, Seen, ScreenOnly

(* A request begins with the overlays as they are. *)
LEMMA SeenBegun ==
  ASSUME IInv, ScreenOnly(dev), dev.server = "up", NEW f \in Fault
  PROVE  Seen([dev EXCEPT !.fault = f])
<1> DEFINE s == [dev EXCEPT !.fault = f]
<1>1. s \in Running
  BY BegunGood DEF Good, Safe
<1>2. /\ s.usage = dev.usage /\ s.fb = dev.fb /\ s.on = dev.on
      /\ s.crtcOvl = dev.crtcOvl /\ s.port = dev.port
  BY DEF IInv, Sound, Device
<1>3. /\ PoolOf(dev) /\ \A v \in Ports : Ovl(dev, v) \in OrNone
      /\ \A c \in Crtc : dev.crtcOvl[c] \in OrNone
  <2>1. s.port = dev.port /\ s.crtcOvl = dev.crtcOvl
    BY <1>2
  <2> HIDE DEF s
  <2>2. \A v \in Ports : Ovl(s, v) \in OrNone /\ Ovl(s, v) = Ovl(dev, v)
    BY <1>1, <2>1, PortFields DEF Ovl
  <2>3. \A c \in Crtc : s.crtcOvl[c] \in OrNone
    BY <1>1, CrtcFields
  <2> QED  BY <2>1, <2>2, <2>3, StillGood DEF Shared
<1>4. Owned(dev)
  <2>1. \A c \in Crtc : dev.crtcOvl[c] # NoOverlay => dev.usage[dev.crtcOvl[c]] = c
    <3> TAKE c \in Crtc
    <3> DEFINE o == dev.crtcOvl[c]
    <3>1. o # NoOverlay => o \in Overlay
      BY <1>3 DEF OrNone
    <3>2. o \in Overlay => dev.usage[o] = c
      BY <1>3 DEF PoolOf
    <3> QED  BY <3>1, <3>2
  <2>2. \A v \in Ports : Ovl(dev, v) # NoOverlay => dev.usage[Ovl(dev, v)] \in Xv
    BY <1>3 DEF PoolOf, OrNone
  <2> QED  BY <1>3, <2>1, <2>2 DEF PoolOf, Owned
<1> HIDE DEF s
<1>5. Owned(s)
  BY <1>2, <1>4 DEF Owned, Ovl
<1>6. ScreenOnly(s)
  BY <1>2 DEF ScreenOnly
<1> QED  BY <1>1, <1>5, <1>6 DEF Seen, s

(* At first no CRTC has an overlay. *)
LEMMA SeenInit == Init => ScreenOnly(dev)
<1> SUFFICES ASSUME Init PROVE ScreenOnly(dev)
  OBVIOUS
<1>1. PICK kernel \in [Fb -> Sizes \cup {0}] : dev = ReallocFb(PreInit(Opened(kernel)), ScreenSize)
  BY DEF Init
<1> DEFINE p == PreInit(Opened(kernel))
<1>2. Fresh(p)
  BY OpenedFresh, PreInitFresh
<1>3. ScreenSize \in Sizes
  BY VideoPortAssumption
<1> HIDE DEF p
<1>4. Seen(p)
  <2>1. p \in Running /\ ScreenOnly(p)
    BY <1>2 DEF Fresh, ScreenOnly, Crtc
  <2>2. \A v \in Ports : Ovl(p, v) = NoOverlay
    BY <1>2 DEF Fresh, Ovl, FreshPort
  <2>3. Owned(p)
    BY <1>2, <2>2 DEF Fresh, Owned
  <2> QED  BY <2>1, <2>3 DEF Seen
<1>5. Seen(ReallocFb(p, ScreenSize))
  BY <1>3, <1>4, SeenRealloc
<1> QED  BY <1>1, <1>5 DEF p, Seen

(* Each action keeps it: those of the Xv clients that show and stop. *)
LEMMA XvRequestsSeen ==
  ASSUME IInv, ScreenOnly(dev), XvPutImage \/ XvReputImage \/ XvPutVideo \/ XvStopVideo
  PROVE  ScreenOnly(dev')
<1> DEFINE s(f) == [dev EXCEPT !.fault = f]
<1>0. dev.server = "up" => \A f \in Faults \cup {"none"} : Seen(s(f))
  BY SeenBegun, FaultsAre
<1>1. CASE XvPutImage
  <2>1. PICK v \in Ports, n \in Sizes, c \in ClipResult, moved \in BOOLEAN, f \in Faults \cup {"none"} :
          dev.server = "up" /\ dev' = Ended(PutImage(s(f), v, n, c, moved, TRUE))
    BY <1>1 DEF XvPutImage, Request, RequestUnder, Moves
  <2> HIDE DEF s
  <2> QED  BY <1>0, <2>1, SeenPutImage, ClipResultIs, SeenEnded
<1>2. CASE XvReputImage
  <2>1. PICK v \in Ports, c \in ClipResult, f \in Faults \cup {"none"} :
          /\ dev.server = "up" /\ dev.size[VideoFb(v)] # 0
          /\ dev' = Ended(PutImage(s(f), v, dev.size[VideoFb(v)], c, TRUE, FALSE))
    BY <1>2 DEF XvReputImage, Request, RequestUnder
  <2> DEFINE n == dev.size[VideoFb(v)]
  <2>2. n \in Sizes
    BY <2>1, VideoFbIs DEF IInv, Sound, Device
  <2> HIDE DEF s, n
  <2>3. Seen(PutImage(s(f), v, n, c, TRUE, FALSE))
    BY <1>0, <2>1, <2>2, SeenPutImage, ClipResultIs
  <2> QED  BY <2>1, <2>3, SeenEnded DEF n
<1>3. CASE XvPutVideo
  <2>1. PICK v \in Ports, c \in ClipResult, moved \in BOOLEAN, f \in Faults \cup {"none"} :
          dev.server = "up" /\ dev' = Ended(PutVideo(s(f), v, c, moved))
    BY <1>3 DEF XvPutVideo, Request, RequestUnder, Moves
  <2> HIDE DEF s
  <2> QED  BY <1>0, <2>1, SeenPutVideo, ClipResultIs, SeenEnded
<1>4. CASE XvStopVideo
  <2>1. PICK v \in Ports, exit \in BOOLEAN, f \in Faults \cup {"none"} :
          dev.server = "up" /\ dev' = Ended(StopVideo(s(f), v, exit))
    BY <1>4 DEF XvStopVideo, Request, RequestUnder
  <2> HIDE DEF s
  <2> QED  BY <1>0, <2>1, SeenStopVideo, SeenEnded
<1> QED  BY <1>1, <1>2, <1>3, <1>4

(* Those that set an attribute, and the timer. *)
LEMMA AttributesSeen ==
  ASSUME IInv, ScreenOnly(dev),
         \/ XvSetPortAttribute \/ XvSetColorkey \/ XvSyncVideo \/ XvSetRotation
         \/ XvSetStacking \/ KeyTimerFires
  PROVE  ScreenOnly(dev')
<1> DEFINE s(f) == [dev EXCEPT !.fault = f]
<1>0. dev.server = "up" => \A f \in Faults \cup {"none"} : Seen(s(f))
  BY SeenBegun, FaultsAre
<1>1. CASE XvSetPortAttribute
  <2>1. PICK v \in Ports, value \in BOOLEAN, f \in Faults \cup {"none"} :
          /\ dev.server = "up"
          /\ \/ dev' = Ended(SetReserve(s(f), v, value))
             \/ dev' = Ended(SetClone(s(f), v, value))
             \/ dev' = Ended(SetDisableColorkey(s(f), v, value))
    BY <1>1 DEF XvSetPortAttribute, Request, PlainRequest, RequestUnder
  <2> HIDE DEF s
  <2>2. Seen(SetReserve(s(f), v, value)) /\ Seen(SetClone(s(f), v, value))
        /\ Seen(SetDisableColorkey(s(f), v, value))
    BY <1>0, <2>1, SeenReserve, SeenAttributes
  <2> QED  BY <2>1, <2>2, SeenEnded
<1>2. CASE XvSetColorkey \/ XvSyncVideo \/ KeyTimerFires
  <2>1. PICK v \in Ports :
          /\ dev.server = "up"
          /\ \/ dev' = Ended(SetColorkey(s("none"), v))
             \/ dev' = Ended(SyncVideo(s("none"), v))
             \/ dev' = Ended(KeyTimer(s("none"), v))
    BY <1>2 DEF XvSetColorkey, XvSyncVideo, KeyTimerFires, PlainRequest, RequestUnder
  <2> HIDE DEF s
  <2>2. Seen(SetColorkey(s("none"), v)) /\ Seen(SyncVideo(s("none"), v))
        /\ Seen(KeyTimer(s("none"), v))
    BY <1>0, <2>1, SeenAttributes
  <2> QED  BY <2>1, <2>2, SeenEnded
<1>3. CASE XvSetRotation
  <2>1. PICK v \in Ports, r \in Rotations :
          dev.server = "up" /\ dev' = Ended(SetRotation(s("none"), v, r))
    BY <1>3 DEF XvSetRotation, PlainRequest, RequestUnder
  <2> HIDE DEF s
  <2>2. Seen(SetRotation(s("none"), v, r))
    BY <1>0, <2>1, SeenAttributes, VideoPortAssumption
  <2> QED  BY <2>1, <2>2, SeenEnded
<1>4. CASE XvSetStacking
  <2>1. PICK v \in Ports, use \in Stackings \cup {"XV"} :
          dev.server = "up" /\ dev' = Ended([s("none") EXCEPT !.port[v].stacking = use])
    BY <1>4 DEF XvSetStacking, PlainRequest, RequestUnder
  <2>2. use \in Xv
    BY VideoPortAssumption DEF Xv
  <2> HIDE DEF s
  <2>3. Seen([s("none") EXCEPT !.port[v].stacking = use])
    BY <1>0, <2>1, <2>2, SeenAttributes
  <2> QED  BY <2>1, <2>3, SeenEnded
<1> QED  BY <1>1, <1>2, <1>3, <1>4

(* Those of RandR and DPMS, the page flips, and the client's own memory. *)
LEMMA ScreenRequestsSeen ==
  ASSUME IInv, ScreenOnly(dev),
         \/ RandRSetMode \/ RandRDisable \/ RandRPan \/ RandRResize
         \/ DpmsSet \/ PageFlip \/ ClientAlloc
  PROVE  ScreenOnly(dev')
<1> DEFINE s(f) == [dev EXCEPT !.fault = f]
<1>0. dev.server = "up" => \A f \in Faults \cup {"none"} : Seen(s(f))
  BY SeenBegun, FaultsAre
<1>1. CASE RandRSetMode
  <2>1. PICK c \in Crtc, r \in Rotations \cup {Rotate0}, f \in Faults \cup {"none"} :
          dev.server = "up" /\ dev' = Ended(SetCrtcMode(s(f), c, r))
    BY <1>1 DEF RandRSetMode, Request, RequestUnder
  <2>2. r \in Rotation
    BY Rotate0Type, VideoPortAssumption
  <2> HIDE DEF s
  <2>3. Seen(SetCrtcMode(s(f), c, r))
    BY <1>0, <2>1, <2>2, SeenSetCrtcMode
  <2> QED  BY <2>1, <2>3, SeenEnded
<1>2. CASE RandRDisable
  <2>1. PICK c \in Crtc, f \in Faults \cup {"none"} :
          dev.server = "up" /\ dev' = Ended(DisableCrtc(s(f), c))
    BY <1>2 DEF RandRDisable, Request, RequestUnder
  <2> HIDE DEF s
  <2> QED  BY <1>0, <2>1, SeenDisableCrtc, SeenEnded
<1>3. CASE RandRPan
  <2>1. PICK c \in Crtc : dev.server = "up" /\ dev' = Ended(SetOrigin(s("none"), c))
    BY <1>3 DEF RandRPan, PlainRequest, RequestUnder
  <2> HIDE DEF s
  <2> QED  BY <1>0, <2>1, SeenSetOrigin, SeenEnded
<1>4. CASE RandRResize
  <2>1. PICK n \in Sizes, f \in Faults \cup {"none"} :
          dev.server = "up" /\ dev' = Ended(ReallocFb(s(f), n))
    BY <1>4 DEF RandRResize, Request, RequestUnder
  <2> HIDE DEF s
  <2> QED  BY <1>0, <2>1, SeenRealloc, SeenEnded
<1>5. CASE DpmsSet
  <2>1. PICK c \in Crtc, on \in BOOLEAN, f \in Faults \cup {"none"} :
          dev.server = "up" /\ dev' = Ended(SetDpms(s(f), c, on))
    BY <1>5, VideoPortAssumption DEF DpmsSet, Request, RequestUnder
  <2> HIDE DEF s
  <2> QED  BY <1>0, <2>1, SeenSetDpms, SeenEnded
<1>6. CASE PageFlip
  <2>1. dev.server = "up" /\ dev' = Ended(FlipCrtcs(s("none")))
    BY <1>6 DEF PageFlip, PlainRequest, RequestUnder
  <2> HIDE DEF s
  <2> QED  BY <1>0, <2>1, SeenFlip, SeenEnded
<1>7. CASE ClientAlloc
  <2>1. PICK v \in Ports, n \in Sizes :
          dev.server = "up" /\ dev' = Ended([s("none") EXCEPT !.mem[VideoFb(v)] = n])
    BY <1>7 DEF ClientAlloc, PlainRequest, RequestUnder
  <2> HIDE DEF s
  <2> QED  BY <1>0, <2>1, SeenClientAlloc, SeenEnded
<1> QED  BY <1>1, <1>2, <1>3, <1>4, <1>5, <1>6, <1>7

(* Between requests the overlays of CRTCs scan the screen. *)
ScreenInv == ScreenOnly(dev)

(* The invariant on its own is inductive beside IInv. *)
LEMMA ScreenInductive == Spec => [](IInv /\ ScreenInv)
<1>1. Init => ScreenInv
  BY SeenInit DEF ScreenInv
<1>2. IInv /\ ScreenInv /\ [Next]_dev => ScreenInv'
  <2> SUFFICES ASSUME IInv, ScreenOnly(dev), [Next]_dev PROVE ScreenOnly(dev')
    BY DEF ScreenInv
  <2>1. CASE UNCHANGED dev
    BY <2>1
  <2>2. CASE Next
    BY <2>2, XvRequestsSeen, AttributesSeen, ScreenRequestsSeen DEF Next
  <2> QED  BY <2>1, <2>2
<1> QED  BY <1>1, <1>2, VideoPortInductive, PTL DEF Spec

(* What it says of the CRTCs: an overlay that a CRTC holds is taken for it. *)
LEMMA ScreenOfCrtc ==
  ASSUME IInv, ScreenInv, NEW c \in Crtc \ Clones, dev.crtcOvl[c] \in dev.on
  PROVE  dev.fb[dev.crtcOvl[c]] = 0
<1>1. dev.crtcOvl[c] \in Overlay
  BY DEF IInv, Sound, Device
<1>2. dev.usage[dev.crtcOvl[c]] = c
  BY <1>1, StillGood DEF Shared, PoolOf
<1> QED  BY <1>1, <1>2 DEF ScreenInv, ScreenOnly

(***************************************************************************)
(* A CRTC whose output does not show clones (the LCD, and the TV with      *)
(* XvCloneFullscreen off) shows the screen whenever its plane is on,       *)
(* whatever has failed in setting a mode, in DPMS or in a resize of either *)
(* CRTC, and whatever the other one clones.                                *)
(***************************************************************************)
THEOREM PlainCrtcsShowScreen ==
  Spec => [](\A c \in Crtc \ Clones :
               dev.crtcOvl[c] \in dev.on => dev.fb[dev.crtcOvl[c]] = 0)
<1>1. IInv /\ ScreenInv =>
        \A c \in Crtc \ Clones : dev.crtcOvl[c] \in dev.on => dev.fb[dev.crtcOvl[c]] = 0
  BY ScreenOfCrtc
<1> QED  BY <1>1, ScreenInductive, PTL

(***************************************************************************)
(* Where no output shows clones that is every CRTC.                        *)
(***************************************************************************)
THEOREM ScreenStaysShown == ASSUME Clones = {} PROVE Spec => []CrtcShowsScreen
<1>1. IInv /\ ScreenInv => CrtcShowsScreen
  BY ScreenOfCrtc DEF CrtcShowsScreen
<1> QED  BY <1>1, ScreenInductive, PTL

-----------------------------------------------------------------------------
(* The memory of the ports: what it is to be in order, and the steps that leave it alone. *)

(***************************************************************************)
(* The memory of a port that no client has reserved: the kernel, the       *)
(* framebuffer and the port agree about it, only a port with an overlay    *)
(* has any, and it is mapped only while the port is active.                *)
(***************************************************************************)
NeatPort(s, v) ==
  /\ ~s.port[v].reserved
  /\ s.mem[VideoFb(v)] = s.size[VideoFb(v)]
  /\ s.port[v].allocated <=> s.size[VideoFb(v)] # 0
  /\ s.port[v].allocated => Ovl(s, v) # NoOverlay
  /\ s.mapped[VideoFb(v)] => Active(s, v)

Neat(s) == s.server = "up" => \A v \in Ports : NeatPort(s, v)

(* Memory, mappings and what the ports hold are as they were. *)
Unmoved(s, t) ==
  /\ t.mem = s.mem /\ t.size = s.size /\ t.mapped = s.mapped
  /\ \A v \in Ports :
       /\ Ovl(t, v) = Ovl(s, v) /\ (Active(t, v) <=> Active(s, v))
       /\ t.port[v].allocated = s.port[v].allocated
       /\ t.port[v].reserved = s.port[v].reserved

(* Two such steps are one. *)
LEMMA UnmovedAgain ==
  ASSUME NEW s, NEW t, NEW u, Unmoved(s, t), Unmoved(t, u)
  PROVE  Unmoved(s, u)
  BY DEF Unmoved

(* A step that nothing of this is changed by. *)
LEMMA UnmovedSame ==
  ASSUME NEW s, NEW t, t.mem = s.mem, t.size = s.size, t.mapped = s.mapped, t.port = s.port
  PROVE  Unmoved(s, t)
  BY DEF Unmoved, Ovl, Active

(* A port may be given other values. *)
LEMMA UnmovedPort ==
  ASSUME NEW s \in Running, NEW v \in Ports, NEW q,
         q.ovl = Ovl(s, v), q.state = s.port[v].state,
         q.allocated = s.port[v].allocated, q.reserved = s.port[v].reserved
  PROVE  Unmoved(s, [s EXCEPT !.port[v] = q])
<1> DEFINE t == [s EXCEPT !.port[v] = q]
<1>1. /\ t.mem = s.mem /\ t.size = s.size /\ t.mapped = s.mapped
      /\ t.port[v] = q /\ \A w \in Ports : w # v => t.port[w] = s.port[w]
  BY DEF Running, Device
<1> HIDE DEF t
<1>2. \A w \in Ports :
        /\ Ovl(t, w) = Ovl(s, w) /\ (Active(t, w) <=> Active(s, w))
        /\ t.port[w].allocated = s.port[w].allocated
        /\ t.port[w].reserved = s.port[w].reserved
  BY <1>1 DEF Ovl, Active
<1> QED  BY <1>1, <1>2 DEF Unmoved, t

(* An overlay may be tuned. *)
LEMMA UnmovedTuned ==
  ASSUME NEW s, NEW t, NEW o, Tuned(s, t, o)
  PROVE  Unmoved(s, t)
  BY UnmovedSame DEF Tuned, Apart

(* So may the overlays of the CRTCs. *)
LEMMA UnmovedCrtc ==
  ASSUME NEW s, NEW t, Safe(s), s.server = "up", t.server = "up", CrtcSteps(s, t)
  PROVE  Unmoved(s, t)
  BY DEF Safe, CrtcSteps, Framed, Kept, Unmoved

(* A failure may be ignored. *)
LEMMA UnmovedIgnoring ==
  ASSUME NEW s \in Running
  PROVE  Unmoved(s, Ignoring(s))
  BY IgnoringTuned, UnmovedTuned

(* Then the memory is in order as it was. *)
LEMMA UnmovedNeat ==
  ASSUME NEW s, NEW t, s.server = "up", Neat(s), Unmoved(s, t)
  PROVE  Neat(t)
  BY DEF Neat, NeatPort, Unmoved

(* A CRTC's step keeps it. *)
LEMMA CrtcNeat ==
  ASSUME NEW s, NEW t, Safe(s), Neat(s), CrtcSteps(s, t)
  PROVE  Neat(t)
<1>1. CASE t.server # "up"
  BY <1>1 DEF Neat
<1>2. CASE t.server = "up"
  <2>1. s.server = "up"
    BY <1>2 DEF CrtcSteps, Steps
  <2> QED  BY <1>2, <2>1, UnmovedCrtc, UnmovedNeat
<1> QED  BY <1>1, <1>2

(* Memory that is to change is unmapped. *)
LEMMA IdleMapped ==
  ASSUME NEW s \in Running, NEW v \in Ports, s.server = "up", Shared(s), ~s.failed
  PROVE  LET t == Idle(s, v) IN
         /\ Active(s, v) => ~t.mapped[VideoFb(v)]
         /\ \A w \in Ports : w # v => t.mapped[VideoFb(w)] = s.mapped[VideoFb(w)]
<1> DEFINE a == OverlayDisable(s, Ovl(s, v))
           b == Ignoring(a)
           t == Idle(s, v)
<1>1. CASE ~Active(s, v)
  BY <1>1 DEF Idle
<1>2. CASE Active(s, v)
  <2>1. Ovl(s, v) \in OrNone
    BY PortFields
  <2>2. Steps(s, a)
    BY <2>1, DisableType
  <2>3. a.mapped = s.mapped
    BY DEF OverlayDisable, Require, Running, Device
  <2> HIDE DEF a
  <2>4. b \in Device /\ b.mapped = s.mapped
    BY <2>2, <2>3, IgnoringType DEF Steps, Running, Ignoring, Device
  <2>5. t = [b EXCEPT !.mapped[VideoFb(v)] = FALSE]
    BY <1>2 DEF Idle, FbUnmap, a, b
  <2> HIDE DEF b, t
  <2>6. ~t.mapped[VideoFb(v)] /\ \A g \in Fb : g # VideoFb(v) => t.mapped[g] = b.mapped[g]
    BY <2>4, <2>5, VideoFbIs DEF Device
  <2>7. \A w \in Ports : w # v => VideoFb(w) \in Fb /\ VideoFb(w) # VideoFb(v)
    BY VideoFbIs
  <2> QED  BY <2>4, <2>6, <2>7 DEF t
<1> QED  BY <1>1, <1>2

-----------------------------------------------------------------------------
(* A port that stops gives its memory back. *)

(* No plane scans the memory of a port that is idle, the CRTCs' planes being the screen's. *)
LEMMA IdleIsFree ==
  ASSUME Clones = {}, NEW s, NEW v \in Ports, Seen(s), s.server = "up", Shared(s),
         Ovl(s, v) \notin s.on, ~s.mapped[VideoFb(v)]
  PROVE  ~MemBusy(s, VideoFb(v))
<1> SUFFICES ASSUME NEW o \in s.on, s.fb[o] = VideoFb(v) PROVE FALSE
  BY DEF MemBusy
<1>1. s \in Device
  BY DEF Seen, Running
<1>2. o \in Overlay /\ s.usage[o] \in Crtc \cup Xv
  BY <1>1 DEF Device, Usage, Xv, Shared
<1>3. CASE s.usage[o] \in Crtc
  BY <1>2, <1>3, VideoFbIs DEF Seen, ScreenOnly
<1>4. CASE s.usage[o] \in Xv
  <2>1. PICK w \in Ports : Ovl(s, w) = o
    BY <1>2, <1>4 DEF Shared, PoolOf
  <2>2. s.fb[o] = VideoFb(w)
    BY <1>2, <2>1, OverlaysAssumption DEF Shared, Overlay
  <2> QED  BY <2>1, <2>2, VideoFbIs
<1> QED  BY <1>2, <1>3, <1>4

(* So it can be freed, unless the kernel refuses for no reason. *)
LEMMA FreeSucceeds ==
  ASSUME NEW s \in Running, NEW v \in Ports, ~s.failed, s.fault # "free", Shared(s),
         Ovl(s, v) # NoOverlay, ~MemBusy(s, VideoFb(v)), s.size[VideoFb(v)] # 0
  PROVE  FbFree(s, VideoFb(v)) = [s EXCEPT !.mem[VideoFb(v)] = 0, !.size[VideoFb(v)] = 0,
                                           !.buffered[VideoFb(v)] = FALSE]
<1>1. FbReachable(s, VideoFb(v))
  BY PortFields DEF Shared, FbReachable, OrNone
<1> QED  BY <1>1 DEF FbFree, Fails

(* A port that is stopped has no memory. *)
Emptied(s, v) == Neat(s) /\ (s.server = "up" => s.size[VideoFb(v)] = 0)

(* Its memory is freed by the one that is idle. *)
LEMMA FreeMemEmpties ==
  ASSUME Clones = {}, NEW s, NEW v \in Ports, Seen(s), s.server = "up", ~s.failed, Shared(s),
         Neat(s), s.fault # "free", Ovl(s, v) \notin s.on, ~s.mapped[VideoFb(v)]
  PROVE  Emptied(FreeMem(s, v), v)
<1> DEFINE f == VideoFb(v)
           freed == FbFree(s, f)
           q == [freed.port[v] EXCEPT !.allocated = FALSE]
           t == FreeMem(s, v)
<1>0. s \in Running /\ s \in Device
  BY DEF Seen, Running
<1>1. CASE ~s.port[v].allocated
  <2>1. s.size[f] = 0
    BY <1>1 DEF Neat, NeatPort
  <2> QED  BY <1>1, <2>1 DEF FreeMem, Emptied
<1>2. CASE s.port[v].allocated
  <2>1. s.size[f] # 0 /\ Ovl(s, v) # NoOverlay
    BY <1>2 DEF Neat, NeatPort
  <2>2. freed = [s EXCEPT !.mem[f] = 0, !.size[f] = 0, !.buffered[f] = FALSE]
    BY <1>0, <2>1, IdleIsFree, FreeSucceeds
  <2> HIDE DEF freed
  <2>3. /\ ~freed.failed /\ freed.port = s.port /\ freed.mapped = s.mapped
        /\ freed \in Device
        /\ \A g \in Fb : g # f => freed.mem[g] = s.mem[g] /\ freed.size[g] = s.size[g]
    BY <1>0, <2>2, VideoFbIs DEF Device
  <2>3a. freed.mem[f] = 0 /\ freed.size[f] = 0
    BY <1>0, <2>2, VideoFbIs DEF Device
  <2>4. s.port[v] \in Port
    BY <1>0, PortOf
  <2>5. /\ q \in Port /\ q.ovl = s.port[v].ovl /\ q.state = s.port[v].state
        /\ ~q.allocated /\ q.reserved = s.port[v].reserved
    BY <2>3, <2>4 DEF Port
  <2>6. t = [freed EXCEPT !.port[v] = q]
    BY <1>2, <2>3 DEF FreeMem, freed
  <2> HIDE DEF q, t
  <2>7. /\ t.mem = freed.mem /\ t.size = freed.size /\ t.mapped = s.mapped
        /\ t.port[v] = q /\ \A w \in Ports : w # v => t.port[w] = s.port[w]
    BY <2>3, <2>6 DEF Device
  <2>8. NeatPort(t, v)
    BY <2>3a, <2>5, <2>7 DEF Neat, NeatPort
  <2>9. ASSUME NEW w \in Ports, w # v PROVE NeatPort(t, w)
    <3>1. VideoFb(w) \in Fb /\ VideoFb(w) # f
      BY <2>9, VideoFbIs
    <3> QED  BY <2>3, <2>7, <2>9, <3>1 DEF Neat, NeatPort, Ovl, Active
  <2> HIDE DEF f
  <2> QED  BY <2>3a, <2>7, <2>8, <2>9 DEF Emptied, Neat, t, f
<1> QED  BY <1>1, <1>2

(* Whatever has failed before. *)
LEMMA StopEmpties ==
  ASSUME Clones = {}, NEW s, NEW v \in Ports, GoodBut(s, v), Seen(s), Neat(s),
         s.fault # "free"
  PROVE  Emptied(Stop(s, v), v)
<1> DEFINE a == Ignoring(s)
           b == Idle(a, v)
           d == FreeMem(b, v)
           q == [d.port[v] EXCEPT !.state = "stopped", !.crtc = NoCrtc, !.timer = FALSE]
           t == Stop(s, v)
<1>0. s \in Running
  BY DEF Seen
<1>1. CASE s.server # "up"
  <2>1. t.server = s.server
    BY StopIs
  <2> QED  BY <1>1, <2>1 DEF Emptied, Neat
<1>2. CASE s.server = "up"
  <2>1. /\ CrtcSteps(s, a) /\ ~a.failed /\ Tuned(s, a, 0) /\ Unmoved(s, a) /\ Seen(a)
    BY <1>0, <1>2, IgnoringTuned, CrtcStepsIgnoring, UnmovedIgnoring, SeenIgnoring
  <2> HIDE DEF a
  <2>2. a \in Running /\ a.server = "up" /\ Shared(a) /\ Neat(a) /\ a.fault = s.fault
    BY <1>2, <2>1, UnmovedNeat DEF Tuned, Apart, CrtcSteps, Steps, GoodBut, Safe
  <2>3. /\ PortSteps(a, b, v)
        /\ b.port = a.port /\ b.mem = a.mem /\ b.size = a.size
        /\ b.server = "up" /\ ~b.failed /\ Ovl(a, v) \notin b.on
    BY <2>1, <2>2, IdleIs
  <2>4. /\ Active(a, v) => ~b.mapped[VideoFb(v)]
        /\ \A w \in Ports : w # v => b.mapped[VideoFb(w)] = a.mapped[VideoFb(w)]
        /\ ~Active(a, v) => b.mapped = a.mapped
    <3>1. ~Active(a, v) => b = a
      BY DEF Idle
    <3> QED  BY <2>1, <2>2, <3>1, IdleMapped
  <2>5. Seen(b)
    BY <2>1, SeenIdle
  <2> HIDE DEF b
  <2>6. Shared(b) /\ b.fault = s.fault /\ Ovl(b, v) \notin b.on
    BY <2>2, <2>3 DEF PortSteps, Steps, Ovl
  <2>7. Neat(b) /\ ~b.mapped[VideoFb(v)]
    <3>1. ~b.mapped[VideoFb(v)]
      BY <2>2, <2>4 DEF Neat, NeatPort
    <3> QED  BY <2>2, <2>3, <2>4, <3>1 DEF Neat, NeatPort, Ovl, Active
  <2>8. Emptied(d, v)
    BY <2>3, <2>5, <2>6, <2>7, FreeMemEmpties
  <2>9. d.server = "up" /\ d \in Running /\ d.mapped = b.mapped
    <3>1. b \in Running
      BY <2>5 DEF Seen
    <3>2. Steps(b, d) /\ d.server = b.server
      BY <3>1, FreeMemType, FreeMemIs
    <3>3. d.mapped = b.mapped
      <4>1. FbFree(b, VideoFb(v)) \in Device /\ FbFree(b, VideoFb(v)).mapped = b.mapped
        BY <3>1, FreeIs, FbFreeType, VideoFbIs DEF Steps, Running
      <4> DEFINE freed == FbFree(b, VideoFb(v))
      <4> HIDE DEF freed
      <4>2. /\ Ignoring(freed).mapped = freed.mapped
            /\ [freed EXCEPT !.port[v].allocated = FALSE].mapped = freed.mapped
        BY <4>1 DEF Ignoring, Device, freed
      <4>3. d \in {b, Ignoring(freed), [freed EXCEPT !.port[v].allocated = FALSE]}
        BY DEF FreeMem, freed
      <4> HIDE DEF d
      <4> QED  BY <4>1, <4>2, <4>3 DEF freed
    <3> QED  BY <2>3, <3>2, <3>3 DEF Steps
  <2>10. t = [d EXCEPT !.port[v].state = "stopped", !.port[v].crtc = NoCrtc,
                       !.port[v].timer = FALSE]
    BY DEF Stop, d, b, a
  <2> HIDE DEF d, t
  <2>11. d.port[v] \in Port /\ d \in Device
    BY <2>9, PortOf DEF Running
  <2>12. /\ q \in Port /\ q.ovl = d.port[v].ovl /\ q.state = "stopped"
         /\ q.allocated = d.port[v].allocated /\ q.reserved = d.port[v].reserved
    BY <2>11 DEF Port
  <2>13. t = [d EXCEPT !.port[v] = q]
    BY <2>10, <2>11 DEF Device
  <2> HIDE DEF q
  <2>14. /\ t.mem = d.mem /\ t.size = d.size /\ t.mapped = d.mapped /\ t.server = d.server
         /\ t.port[v] = q /\ \A w \in Ports : w # v => t.port[w] = d.port[w]
    BY <2>11, <2>13 DEF Device
  <2>15. NeatPort(t, v)
    BY <2>7, <2>8, <2>9, <2>12, <2>14 DEF Emptied, Neat, NeatPort, Ovl
  <2>16. \A w \in Ports : w # v => NeatPort(t, w)
    BY <2>8, <2>9, <2>14 DEF Emptied, Neat, NeatPort, Ovl, Active
  <2> QED  BY <2>8, <2>9, <2>14, <2>15, <2>16 DEF Emptied, Neat, t
<1> QED  BY <1>1, <1>2

(* Then its overlay may go. *)
LEMMA PutNeat ==
  ASSUME NEW s \in Running, NEW v \in Ports, Emptied(s, v)
  PROVE  Neat(PutOverlay(s, v))
<1> DEFINE o == Ovl(s, v)
           p == PoolPut(s, o)
           q == [p.port[v] EXCEPT !.ovl = NoOverlay]
           t == PutOverlay(s, v)
<1>1. CASE o = NoOverlay
  BY <1>1 DEF PutOverlay, Emptied
<1>2. CASE o # NoOverlay
  <2>1. o \in Overlay
    BY <1>2, PortFields DEF OrNone
  <2>2. Apart(s, p, o)
    BY <2>1, PoolPutIs
  <2>3. t = [p EXCEPT !.port[v] = q]
    BY <1>2 DEF PutOverlay
  <2> HIDE DEF p, t
  <2>4. p \in Device /\ p.port = s.port /\ p.port[v] \in Port
    BY <2>2, PortOf DEF Apart, Steps, Running
  <2>5. /\ q.state = s.port[v].state /\ q.allocated = s.port[v].allocated
        /\ q.reserved = s.port[v].reserved
    BY <2>4 DEF Port
  <2> HIDE DEF q
  <2>6. /\ t.mem = s.mem /\ t.size = s.size /\ t.mapped = s.mapped /\ t.server = s.server
        /\ t.port[v] = q /\ \A w \in Ports : w # v => t.port[w] = s.port[w]
    BY <2>2, <2>3, <2>4 DEF Apart, Device
  <2>7. s.server = "up" => NeatPort(t, v)
    BY <2>5, <2>6 DEF Emptied, Neat, NeatPort, Ovl, Active
  <2>8. s.server = "up" => \A w \in Ports : w # v => NeatPort(t, w)
    BY <2>6 DEF Emptied, Neat, NeatPort, Ovl, Active
  <2> QED  BY <2>6, <2>7, <2>8 DEF Neat, t
<1> QED  BY <1>1, <1>2

(* A port that is given up has neither. *)
LEMMA GiveUpNeat ==
  ASSUME Clones = {}, NEW s, NEW v \in Ports, GoodBut(s, v), Seen(s), Neat(s),
         s.fault # "free"
  PROVE  Neat(GiveUp(s, v))
<1>1. Stop(s, v) \in Running
  BY SeenStop DEF Seen
<1> QED  BY <1>1, StopEmpties, PutNeat DEF GiveUp

-----------------------------------------------------------------------------
(* Taking an overlay and memory for it. *)

(* The steps on a plane change no memory. *)
LEMMA PlaneUnmoved ==
  ASSUME NEW s \in Running, NEW o
  PROVE  /\ \A cond, how : Unmoved(s, Require(s, cond, how))
         /\ Unmoved(s, OverlayDisable(s, o))
         /\ Unmoved(s, OverlaySetup(s, o))
         /\ Unmoved(s, OverlayEnable(s, o))
<1>1. s \in Device
  BY DEF Running
<1>2. \A cond, how : Unmoved(s, Require(s, cond, how))
  <2> TAKE cond, how
  <2> DEFINE t == Require(s, cond, how)
  <2>1. t.mem = s.mem /\ t.size = s.size /\ t.mapped = s.mapped /\ t.port = s.port
    BY <1>1 DEF Require, Device
  <2> HIDE DEF t
  <2> QED  BY <2>1, UnmovedSame DEF t
<1>3. Unmoved(s, OverlayDisable(s, o))
  <2> DEFINE t == OverlayDisable(s, o)
  <2>1. t.mem = s.mem /\ t.size = s.size /\ t.mapped = s.mapped /\ t.port = s.port
    BY <1>1 DEF OverlayDisable, Require, Device
  <2> HIDE DEF t
  <2> QED  BY <2>1, UnmovedSame DEF t
<1>4. Unmoved(s, OverlaySetup(s, o))
  <2> DEFINE t == OverlaySetup(s, o)
  <2>1. t.mem = s.mem /\ t.size = s.size /\ t.mapped = s.mapped /\ t.port = s.port
    BY <1>1 DEF OverlaySetup, Require, Device
  <2> HIDE DEF t
  <2> QED  BY <2>1, UnmovedSame DEF t
<1>5. Unmoved(s, OverlayEnable(s, o))
  <2> DEFINE t == OverlayEnable(s, o)
             r == Require(s, o # NoOverlay, "overlay")
  <2>1. r \in {s, [s EXCEPT !.server = "overlay", !.failed = TRUE]}
    BY DEF Require
  <2>2. t \in {r, [r EXCEPT !.failed = TRUE], [r EXCEPT !.on = @ \cup {o}]}
    BY DEF OverlayEnable
  <2> HIDE DEF r, t
  <2>3. r.mem = s.mem /\ r.size = s.size /\ r.mapped = s.mapped /\ r.port = s.port
    BY <1>1, <2>1 DEF Device
  <2>4. t.mem = r.mem /\ t.size = r.size /\ t.mapped = r.mapped /\ t.port = r.port
    BY <1>1, <2>1, <2>2, ZenonT(40) DEF Device
  <2> QED  BY <2>3, <2>4, UnmovedSame DEF t
<1> QED  BY <1>2, <1>3, <1>4, <1>5

(* A port that takes an overlay has none before. *)
LEMMA GetNeat ==
  ASSUME NEW s, Seen(s), NEW v \in Ports, s.server = "up", Neat(s)
  PROVE  Neat(GetOverlay(s, v))
<1> DEFINE use == s.port[v].stacking
           o == PoolChoice(s, use)
           got == PoolGet(s, o, use, VideoFb(v))
           q == [got.port[v] EXCEPT !.ovl = o, !.dirty = TRUE]
           t == GetOverlay(s, v)
<1>0. s \in Running /\ s \in Device /\ use \in Xv
  BY PortFields DEF Seen, Running
<1>1. CASE o = NoOverlay
  <2>1. got = [s EXCEPT !.failed = TRUE] /\ got.failed
    BY <1>0, <1>1 DEF PoolGet, Device
  <2>2. t \in {s, got}
    BY <2>1 DEF GetOverlay
  <2> HIDE DEF t
  <2>3. Unmoved(s, got)
    BY <1>0, <2>1, UnmovedSame DEF Device
  <2> QED  BY <2>2, <2>3, UnmovedNeat DEF t
<1>2. CASE o # NoOverlay
  <2>1. o \in Overlay /\ s.usage[o] = "NONE"
    BY <1>0, <1>2, PoolChoiceFree
  <2>2. Apart(s, got, o)
    BY <1>0, <2>1, PoolGetIs, VideoFbIs
  <2>3. t \in {s, got, [got EXCEPT !.port[v].ovl = o, !.port[v].dirty = TRUE]}
    BY DEF GetOverlay
  <2> HIDE DEF got, o, use, t
  <2>4. Unmoved(s, got) /\ got \in Device /\ got.port[v] \in Port /\ got.port = s.port
    BY <2>2, UnmovedSame, PortOf DEF Apart, Steps, Running
  <2>5. /\ q.ovl = o /\ q.state = s.port[v].state /\ q.allocated = s.port[v].allocated
        /\ q.reserved = s.port[v].reserved
    BY <2>4 DEF Port
  <2>6. [got EXCEPT !.port[v].ovl = o, !.port[v].dirty = TRUE] = [got EXCEPT !.port[v] = q]
    BY <2>4 DEF Device
  <2>7. CASE t = [got EXCEPT !.port[v] = q]
    <3> HIDE DEF q
    <3>1. /\ t.mem = s.mem /\ t.size = s.size /\ t.mapped = s.mapped
          /\ t.port[v] = q /\ \A w \in Ports : w # v => t.port[w] = s.port[w]
      BY <2>2, <2>4, <2>7 DEF Apart, Device
    <3>2. NeatPort(t, v)
      BY <1>2, <2>5, <3>1 DEF Neat, NeatPort, Ovl, Active
    <3>3. \A w \in Ports : w # v => NeatPort(t, w)
      BY <3>1 DEF Neat, NeatPort, Ovl, Active
    <3> QED  BY <3>2, <3>3 DEF Neat, t
  <2> QED  BY <2>3, <2>4, <2>6, <2>7, UnmovedNeat DEF t
<1> QED  BY <1>1, <1>2

(* The kernel, the framebuffer and the port learn of its memory together. *)
LEMMA AllocNeat ==
  ASSUME NEW s, Seen(s), NEW v \in Ports, NEW n \in Sizes, Good(s), s.server = "up",
         ~s.failed, Ovl(s, v) # NoOverlay, Neat(s)
  PROVE  Neat(AllocMem(s, v, n))
<1> DEFINE f == VideoFb(v)
           i == Idle(s, v)
           got == FbAlloc(i, f, n)
           q == [got.port[v] EXCEPT !.allocated = TRUE, !.dirty = TRUE]
           e == [got EXCEPT !.port[v].allocated = TRUE, !.port[v].dirty = TRUE]
           t == AllocMem(s, v, n)
<1>0. s \in Running /\ Shared(s) /\ n # 0
  BY OverlaysAssumption DEF Good, Safe
<1>1. /\ PortSteps(s, i, v)
      /\ i.port = s.port /\ i.mem = s.mem /\ i.size = s.size /\ i.server = "up"
      /\ (Active(s, v) => ~i.mapped[f])
      /\ \A w \in Ports : w # v => i.mapped[VideoFb(w)] = s.mapped[VideoFb(w)]
      /\ ~Active(s, v) => i = s
  BY <1>0, IdleIs, IdleMapped
<1> HIDE DEF i
<1>2. Neat(i)
  <2>1. i.mapped[f] => Active(i, v)
    BY <1>1 DEF Neat, NeatPort
  <2> QED  BY <1>1, <2>1 DEF Neat, NeatPort, Ovl, Active
<1>3. i \in Running /\ i \in Device
  BY <1>1 DEF PortSteps, Steps, Running
<1>4. \/ got \in {i, [i EXCEPT !.failed = TRUE]} /\ got.failed
      \/ i.size[f] = n /\ got = [i EXCEPT !.buffered[f] = TRUE] /\ ~got.failed
      \/ got = [i EXCEPT !.mem[f] = n, !.size[f] = n, !.buffered[f] = TRUE] /\ ~got.failed
  BY <1>3 DEF FbAlloc, Device
<1>5. t = s \/ (t = got /\ got.failed) \/ (t = e /\ ~got.failed)
  BY DEF AllocMem, i
<1> HIDE DEF got, t
<1>6. /\ got.port = s.port /\ got.mapped = i.mapped /\ got \in Device
      /\ \A g \in Fb : g # f => got.mem[g] = i.mem[g] /\ got.size[g] = i.size[g]
      /\ got.mem[f] = got.size[f]
      /\ IF got.failed THEN got.mem = i.mem /\ got.size = i.size ELSE got.size[f] = n
  <2>1. i.mem[f] = i.size[f] /\ f \in Fb
    BY <1>1, <1>2, VideoFbIs DEF Neat, NeatPort
  <2>2. CASE got \in {i, [i EXCEPT !.failed = TRUE]} /\ got.failed
    BY <1>1, <1>3, <2>1, <2>2, ZenonT(40) DEF Device
  <2>3. CASE i.size[f] = n /\ got = [i EXCEPT !.buffered[f] = TRUE] /\ ~got.failed
    BY <1>1, <1>3, <2>1, <2>3 DEF Device
  <2>4. CASE got = [i EXCEPT !.mem[f] = n, !.size[f] = n, !.buffered[f] = TRUE] /\ ~got.failed
    BY <1>1, <1>3, <2>1, <2>4 DEF Device
  <2> QED  BY <1>4, <2>2, <2>3, <2>4
<1>7. CASE t = got /\ got.failed
  BY <1>1, <1>2, <1>6, <1>7 DEF Neat, NeatPort, Ovl, Active, t
<1>8. CASE t = e /\ ~got.failed
  <2>1. s.port[v] \in Port
    BY <1>0, PortOf
  <2>2. /\ q.ovl = s.port[v].ovl /\ q.state = s.port[v].state /\ q.allocated
        /\ q.reserved = s.port[v].reserved
    BY <1>6, <2>1 DEF Port
  <2>3. e = [got EXCEPT !.port[v] = q]
    BY <1>6 DEF Device
  <2> HIDE DEF q, e
  <2>4. /\ t.mem = got.mem /\ t.size = got.size /\ t.mapped = i.mapped
        /\ t.port[v] = q /\ \A w \in Ports : w # v => t.port[w] = i.port[w]
    BY <1>1, <1>6, <1>8, <2>3 DEF Device
  <2>5. NeatPort(t, v)
    BY <1>0, <1>1, <1>2, <1>6, <1>8, <2>2, <2>4 DEF Neat, NeatPort, Ovl, Active
  <2>6. ASSUME NEW w \in Ports, w # v PROVE NeatPort(t, w)
    <3>1. VideoFb(w) \in Fb /\ VideoFb(w) # f
      BY <2>6, VideoFbIs
    <3> QED  BY <1>1, <1>2, <1>6, <2>4, <2>6, <3>1 DEF Neat, NeatPort, Ovl, Active
  <2> QED  BY <2>5, <2>6 DEF Neat, t
<1>9. CASE t = s
  BY <1>9 DEF t
<1> QED  BY <1>5, <1>7, <1>8, <1>9

-----------------------------------------------------------------------------
(* What a port is told and where it is shown is none of its memory. *)

(* The port's own flags, displays and turns are none of it. *)
LEMMA UnmovedFlags ==
  ASSUME NEW s \in Running, NEW v \in Ports
  PROVE  /\ \A x : Unmoved(s, [s EXCEPT !.port[v].kind = x])
         /\ \A x : Unmoved(s, [s EXCEPT !.port[v].cloneCrtc = x])
         /\ \A x : Unmoved(s, [s EXCEPT !.port[v].updateClone = x])
         /\ \A x : Unmoved(s, [s EXCEPT !.port[v].timer = x])
         /\ \A x : Unmoved(s, [s EXCEPT !.port[v].noKey = x])
         /\ \A x : Unmoved(s, [s EXCEPT !.port[v].stacking = x])
         /\ \A x, y : Unmoved(s, [s EXCEPT !.port[v].dirty = x, !.port[v].updateClone = y])
         /\ \A x, y : Unmoved(s, [s EXCEPT !.port[v].clone = x, !.port[v].crtc = y])
         /\ \A x, y : Unmoved(s, [s EXCEPT !.port[v].timer = x, !.port[v].dirty = y])
<1>1. s \in Device /\ s.port[v] \in Port
  BY PortOf DEF Running
<1>2. ASSUME NEW q, q.ovl = Ovl(s, v), q.state = s.port[v].state,
             q.allocated = s.port[v].allocated, q.reserved = s.port[v].reserved
      PROVE  Unmoved(s, [s EXCEPT !.port[v] = q])
  BY <1>2, UnmovedPort
<1>3. ASSUME NEW x PROVE Unmoved(s, [s EXCEPT !.port[v].kind = x])
  <2> DEFINE q == [s.port[v] EXCEPT !.kind = x]
  <2>1. /\ q.ovl = Ovl(s, v) /\ q.state = s.port[v].state
        /\ q.allocated = s.port[v].allocated /\ q.reserved = s.port[v].reserved
    BY <1>1 DEF Port, Ovl
  <2>2. [s EXCEPT !.port[v].kind = x] = [s EXCEPT !.port[v] = q]
    BY <1>1 DEF Device
  <2> HIDE DEF q
  <2> QED  BY <1>2, <2>1, <2>2
<1>4. ASSUME NEW x PROVE Unmoved(s, [s EXCEPT !.port[v].cloneCrtc = x])
  <2> DEFINE q == [s.port[v] EXCEPT !.cloneCrtc = x]
  <2>1. /\ q.ovl = Ovl(s, v) /\ q.state = s.port[v].state
        /\ q.allocated = s.port[v].allocated /\ q.reserved = s.port[v].reserved
    BY <1>1 DEF Port, Ovl
  <2>2. [s EXCEPT !.port[v].cloneCrtc = x] = [s EXCEPT !.port[v] = q]
    BY <1>1 DEF Device
  <2> HIDE DEF q
  <2> QED  BY <1>2, <2>1, <2>2
<1>5. ASSUME NEW x PROVE Unmoved(s, [s EXCEPT !.port[v].updateClone = x])
  <2> DEFINE q == [s.port[v] EXCEPT !.updateClone = x]
  <2>1. /\ q.ovl = Ovl(s, v) /\ q.state = s.port[v].state
        /\ q.allocated = s.port[v].allocated /\ q.reserved = s.port[v].reserved
    BY <1>1 DEF Port, Ovl
  <2>2. [s EXCEPT !.port[v].updateClone = x] = [s EXCEPT !.port[v] = q]
    BY <1>1 DEF Device
  <2> HIDE DEF q
  <2> QED  BY <1>2, <2>1, <2>2
<1>6. ASSUME NEW x PROVE Unmoved(s, [s EXCEPT !.port[v].timer = x])
  <2> DEFINE q == [s.port[v] EXCEPT !.timer = x]
  <2>1. /\ q.ovl = Ovl(s, v) /\ q.state = s.port[v].state
        /\ q.allocated = s.port[v].allocated /\ q.reserved = s.port[v].reserved
    BY <1>1 DEF Port, Ovl
  <2>2. [s EXCEPT !.port[v].timer = x] = [s EXCEPT !.port[v] = q]
    BY <1>1 DEF Device
  <2> HIDE DEF q
  <2> QED  BY <1>2, <2>1, <2>2
<1>7. ASSUME NEW x PROVE Unmoved(s, [s EXCEPT !.port[v].noKey = x])
  <2> DEFINE q == [s.port[v] EXCEPT !.noKey = x]
  <2>1. /\ q.ovl = Ovl(s, v) /\ q.state = s.port[v].state
        /\ q.allocated = s.port[v].allocated /\ q.reserved = s.port[v].reserved
    BY <1>1 DEF Port, Ovl
  <2>2. [s EXCEPT !.port[v].noKey = x] = [s EXCEPT !.port[v] = q]
    BY <1>1 DEF Device
  <2> HIDE DEF q
  <2> QED  BY <1>2, <2>1, <2>2
<1>8. ASSUME NEW x PROVE Unmoved(s, [s EXCEPT !.port[v].stacking = x])
  <2> DEFINE q == [s.port[v] EXCEPT !.stacking = x]
  <2>1. /\ q.ovl = Ovl(s, v) /\ q.state = s.port[v].state
        /\ q.allocated = s.port[v].allocated /\ q.reserved = s.port[v].reserved
    BY <1>1 DEF Port, Ovl
  <2>2. [s EXCEPT !.port[v].stacking = x] = [s EXCEPT !.port[v] = q]
    BY <1>1 DEF Device
  <2> HIDE DEF q
  <2> QED  BY <1>2, <2>1, <2>2
<1>9. ASSUME NEW x, NEW y
      PROVE  Unmoved(s, [s EXCEPT !.port[v].dirty = x, !.port[v].updateClone = y])
  <2> DEFINE q == [s.port[v] EXCEPT !.dirty = x, !.updateClone = y]
  <2>1. /\ q.ovl = Ovl(s, v) /\ q.state = s.port[v].state
        /\ q.allocated = s.port[v].allocated /\ q.reserved = s.port[v].reserved
    BY <1>1 DEF Port, Ovl
  <2>2. [s EXCEPT !.port[v].dirty = x, !.port[v].updateClone = y] = [s EXCEPT !.port[v] = q]
    BY <1>1 DEF Device
  <2> HIDE DEF q
  <2> QED  BY <1>2, <2>1, <2>2
<1>10. ASSUME NEW x, NEW y PROVE Unmoved(s, [s EXCEPT !.port[v].clone = x, !.port[v].crtc = y])
  <2> DEFINE q == [s.port[v] EXCEPT !.clone = x, !.crtc = y]
  <2>1. /\ q.ovl = Ovl(s, v) /\ q.state = s.port[v].state
        /\ q.allocated = s.port[v].allocated /\ q.reserved = s.port[v].reserved
    BY <1>1 DEF Port, Ovl
  <2>2. [s EXCEPT !.port[v].clone = x, !.port[v].crtc = y] = [s EXCEPT !.port[v] = q]
    BY <1>1 DEF Device
  <2> HIDE DEF q
  <2> QED  BY <1>2, <2>1, <2>2
<1>11. ASSUME NEW x, NEW y PROVE Unmoved(s, [s EXCEPT !.port[v].timer = x, !.port[v].dirty = y])
  <2> DEFINE q == [s.port[v] EXCEPT !.timer = x, !.dirty = y]
  <2>1. /\ q.ovl = Ovl(s, v) /\ q.state = s.port[v].state
        /\ q.allocated = s.port[v].allocated /\ q.reserved = s.port[v].reserved
    BY <1>1 DEF Port, Ovl
  <2>2. [s EXCEPT !.port[v].timer = x, !.port[v].dirty = y] = [s EXCEPT !.port[v] = q]
    BY <1>1 DEF Device
  <2> HIDE DEF q
  <2> QED  BY <1>2, <2>1, <2>2
<1> QED  BY <1>3, <1>4, <1>5, <1>6, <1>7, <1>8, <1>9, <1>10, <1>11

(* Nor is the turn of the picture. *)
LEMMA TurnUnmoved ==
  ASSUME NEW s \in Running, NEW v \in Ports
  PROVE  /\ Unmoved(s, UpdateRotation(s, v))
         /\ \A r \in Rotation : Unmoved(s, SetRotation(s, v, r))
<1>1. ASSUME NEW u \in Running PROVE Unmoved(u, UpdateRotation(u, v))
  <2>1. u.port[v] \in Port
    BY PortOf
  <2>2. LET q == TurnedPort(u, v) IN
        /\ q.ovl = Ovl(u, v) /\ q.state = u.port[v].state
        /\ q.allocated = u.port[v].allocated /\ q.reserved = u.port[v].reserved
    BY <2>1 DEF TurnedPort, Port, Ovl
  <2> QED  BY <2>2, UpdateRotationIs, UnmovedPort
<1>2. ASSUME NEW r \in Rotation PROVE Unmoved(s, SetRotation(s, v, r))
  <2> DEFINE q == [s.port[v] EXCEPT !.rotation = r]
             u == [s EXCEPT !.port[v] = q]
  <2>1. s.port[v] \in Port /\ s \in Device
    BY PortOf DEF Running
  <2>2. /\ q \in Port /\ q.ovl = Ovl(s, v) /\ q.state = s.port[v].state
        /\ q.allocated = s.port[v].allocated /\ q.reserved = s.port[v].reserved
    BY <2>1 DEF Port, Ovl
  <2>3. [s EXCEPT !.port[v].rotation = r] = u
    BY <2>1 DEF Device
  <2> HIDE DEF q
  <2>4. Unmoved(s, u) /\ u \in Running
    BY <2>2, UnmovedPort, SetPort DEF Steps
  <2> HIDE DEF u
  <2>5. Unmoved(u, UpdateRotation(u, v))
    BY <1>1, <2>4
  <2> QED  BY <2>3, <2>4, <2>5, UnmovedAgain DEF SetRotation
<1> QED  BY <1>1, <1>2

(* The kind of what it shows is stored. *)
LEMMA AsKindUnmoved ==
  ASSUME NEW s \in Running, NEW v \in Ports, NEW kind
  PROVE  Unmoved(s, AsKind(s, v, kind))
<1>1. Unmoved(s, s)
  BY UnmovedSame
<1> QED  BY <1>1, UnmovedFlags DEF AsKind

(* A port moves to another CRTC with all it has: it leaves the old one, *)
LEMMA LeaveUnmoved ==
  ASSUME NEW s, NEW v \in Ports, GoodBut(s, v), s.server = "up", ~s.failed,
         Ovl(s, v) # NoOverlay
  PROVE  Unmoved(s, LeaveCrtc(s, v))
<1> DEFINE a == CloneStop(s, v)
           b == OverlayDisable(a, Ovl(s, v))
           d == Ignoring(b)
           t == [d EXCEPT !.port[v].dirty = TRUE, !.port[v].updateClone = TRUE]
<1>1. Safe(s) /\ s \in Running /\ Shared(s)
  BY DEF GoodBut, Safe
<1>2. CrtcSteps(s, a) /\ a.server = "up"
  BY <1>1, CloneStopIs, CloneStopUp
<1> HIDE DEF a
<1>3. Unmoved(s, a) /\ a \in Running
  BY <1>1, <1>2, UnmovedCrtc DEF CrtcSteps, Steps
<1>4. Unmoved(a, b) /\ b \in Running
  BY <1>1, <1>3, PlaneUnmoved, DisableType, PortFields DEF Steps
<1> HIDE DEF b
<1>5. Unmoved(b, d) /\ d \in Running
  BY <1>4, UnmovedIgnoring, IgnoringType DEF Running
<1> HIDE DEF d
<1>6. Unmoved(d, t)
  BY <1>5, UnmovedFlags
<1>7. LeaveCrtc(s, v) = t
  BY DEF LeaveCrtc, d, b, a
<1> HIDE DEF t
<1> QED  BY <1>3, <1>4, <1>5, <1>6, <1>7, UnmovedAgain

(* arrives at the new one, *)
LEMMA ArriveUnmoved ==
  ASSUME NEW s \in Running, NEW v \in Ports, NEW c \in Crtc \cup {NoCrtc}
  PROVE  Unmoved(s, Arrive(s, v, c))
<1> DEFINE q == [s.port[v] EXCEPT !.crtc = c]
           u == [s EXCEPT !.port[v] = q]
<1>1. s.port[v] \in Port /\ s \in Device
  BY PortOf DEF Running
<1>2. /\ q \in Port /\ q.ovl = Ovl(s, v) /\ q.state = s.port[v].state
      /\ q.allocated = s.port[v].allocated /\ q.reserved = s.port[v].reserved
  BY <1>1 DEF Port, Ovl
<1>3. [s EXCEPT !.port[v].crtc = c] = u
  BY <1>1 DEF Device
<1> HIDE DEF q
<1>4. Unmoved(s, u) /\ u \in Running
  BY <1>2, UnmovedPort, SetPort DEF Steps
<1>5. Unmoved(s, s)
  BY UnmovedSame
<1> HIDE DEF u
<1>6. Unmoved(u, UpdateRotation(u, v))
  BY <1>4, TurnUnmoved
<1> QED  BY <1>3, <1>4, <1>5, <1>6, UnmovedAgain DEF Arrive

(* and chooses the CRTC of its clone. *)
LEMMA RetargetUnmoved ==
  ASSUME NEW s, NEW v \in Ports, NEW c \in Crtc \cup {NoCrtc}, GoodBut(s, v), s.server = "up",
         ~s.failed => Ovl(s, v) # NoOverlay
  PROVE  Unmoved(s, Retarget(s, v, c))
<1> DEFINE a == LeaveCrtc(s, v)
           b == AssignDisplay(a, v, c)
           d == Arrive(b, v, c)
<1>0. \A u : Unmoved(u, u)
  BY UnmovedSame
<1>1. ASSUME NEW u \in Running PROVE Unmoved(u, ChooseClone(u, v))
  BY <1>0, UnmovedFlags DEF ChooseClone
<1>2. s \in Running
  BY DEF GoodBut, Safe
<1>3. CASE s.failed
  BY <1>0, <1>3 DEF Retarget
<1>4. CASE ~s.failed /\ c = s.port[v].crtc
  BY <1>1, <1>2, <1>4 DEF Retarget
<1>5. CASE ~s.failed /\ c # s.port[v].crtc
  <2>1. Unmoved(s, a) /\ a \in Running /\ Ovl(a, v) \in Overlay
    <3>1. a \in Running /\ Ovl(a, v) = Ovl(s, v)
      BY <1>5, LeaveCrtcIs DEF PortSteps, Steps
    <3> QED  BY <1>5, <3>1, LeaveUnmoved, PortFields DEF OrNone
  <2> HIDE DEF a
  <2>2. Unmoved(a, b) /\ b \in Running
    <3>1. CASE c = NoCrtc
      BY <1>0, <2>1, <3>1 DEF AssignDisplay
    <3>2. CASE c # NoCrtc
      <4>1. c \in Crtc /\ b = OutputAssignOverlay(a, c, Ovl(a, v))
        BY <3>2 DEF AssignDisplay
      <4>2. Tuned(a, b, Ovl(a, v))
        BY <2>1, <4>1, OutputIs
      <4> QED  BY <4>2, UnmovedTuned DEF Tuned, Apart, Steps
    <3> QED  BY <3>1, <3>2
  <2> HIDE DEF b
  <2>3. Unmoved(b, d) /\ d \in Running
    <3>1. d \in Running
      <4>1. CASE b.failed
        BY <2>2, <4>1 DEF Arrive
      <4>2. CASE ~b.failed
        <5> DEFINE q == [b.port[v] EXCEPT !.crtc = c]
                   u == [b EXCEPT !.port[v] = q]
        <5>1. b.port[v] \in Port /\ b \in Device
          BY <2>2, PortOf DEF Running
        <5>2. q \in Port /\ [b EXCEPT !.port[v].crtc = c] = u
          BY <5>1 DEF Port, Device
        <5> HIDE DEF q
        <5>3. u \in Running
          BY <2>2, <5>2, SetPort DEF Steps
        <5> HIDE DEF u
        <5>4. UpdateRotation(u, v) \in Running
          BY <5>3, UpdateRotationIs DEF Steps
        <5> QED  BY <4>2, <5>2, <5>4 DEF Arrive
      <4> QED  BY <4>1, <4>2
    <3> QED  BY <2>2, <3>1, ArriveUnmoved
  <2> HIDE DEF d
  <2>4. Unmoved(d, ChooseClone(d, v))
    BY <1>1, <2>3
  <2>5. Retarget(s, v, c) = ChooseClone(d, v)
    BY <1>5 DEF Retarget, d, b, a
  <2> QED  BY <2>1, <2>2, <2>3, <2>4, <2>5, UnmovedAgain
<1> QED  BY <1>3, <1>4, <1>5

-----------------------------------------------------------------------------
(* Starting, filling and showing an image. *)

(* Mapping changes nothing but the mapping, and that only when it succeeds. *)
LEMMA MapMoves ==
  ASSUME NEW s \in Running, NEW v \in Ports
  PROVE  LET t == Map(s, v) IN
         /\ t.mem = s.mem /\ t.size = s.size /\ t.port = s.port
         /\ t.failed => t.mapped = s.mapped
         /\ \A w \in Ports : w # v => t.mapped[VideoFb(w)] = s.mapped[VideoFb(w)]
<1> DEFINE f == VideoFb(v)
           r == Require(s, HasMem([s EXCEPT !.fb = [o \in Overlay |-> f]], 0), "map")
           t == Map(s, v)
<1>1. s \in Device
  BY DEF Running
<1>2. r \in {s, [s EXCEPT !.server = "map", !.failed = TRUE]}
  BY DEF Require
<1>3. \/ t = s /\ (s.failed \/ s.mapped[f])
      \/ ~s.mapped[f] /\ t = [r EXCEPT !.failed = TRUE]
      \/ ~s.mapped[f] /\ ~s.failed /\ ~r.failed /\ t = [r EXCEPT !.mapped[f] = TRUE]
  BY DEF Map, FbMap
<1>7. r \in Device
  BY RequireType DEF Death, Steps, Running
<1> HIDE DEF r, t
<1>4. /\ r.mem = s.mem /\ r.size = s.size /\ r.port = s.port /\ r.mapped = s.mapped
  BY <1>1, <1>2 DEF Device
<1>5. /\ t.mem = s.mem /\ t.size = s.size /\ t.port = s.port
      /\ t.failed => t.mapped = s.mapped
      /\ \A g \in Fb : g # f => t.mapped[g] = s.mapped[g]
  BY <1>3, <1>4, <1>7, VideoFbIs DEF Device
<1>6. \A w \in Ports : w # v => VideoFb(w) \in Fb /\ VideoFb(w) # f
  BY VideoFbIs
<1> QED  BY <1>5, <1>6 DEF t

(* An image is mapped when its port starts. *)
LEMMA StartNeat ==
  ASSUME NEW s, NEW v \in Ports, GoodBut(s, v), s.server = "up", ~s.failed,
         Ready(s, v), Neat(s)
  PROVE  Neat(StartVideo(s, v))
<1> DEFINE o == Ovl(s, v)
           a == OverlaySetup(s, o)
           b == Ignoring(a)
           d == IF s.port[v].kind = "image" THEN Map(b, v) ELSE b
           q == [d.port[v] EXCEPT !.dirty = FALSE, !.state = "active", !.updateClone = TRUE]
           t == StartVideo(s, v)
<1>1. s \in Running /\ Shared(s) /\ o \in Overlay /\ s.fb[o] # NoFb
  <2>1. VideoFb(v) # NoFb
    BY VideoFbIs, OverlaysAssumption DEF Fb
  <2> QED  BY <2>1, PortFields DEF GoodBut, Safe, Ready, OrNone, Shared
<1>2. Tuned(s, a, o)
  BY <1>1, SetupIs
<1> HIDE DEF a
<1>3. Tuned(a, b, o)
  BY <1>2, IgnoringTuned DEF Tuned, Apart, Steps
<1> HIDE DEF b
<1>4. Unmoved(s, b) /\ b \in Running /\ b.server = "up"
  BY <1>2, <1>3, UnmovedTuned, UnmovedAgain DEF Tuned, Apart, Steps
<1>5. Neat(b)
  BY <1>4, UnmovedNeat
<1>6. /\ d.mem = b.mem /\ d.size = b.size /\ d.port = b.port
      /\ d.failed => d.mapped = b.mapped
      /\ \A w \in Ports : w # v => d.mapped[VideoFb(w)] = b.mapped[VideoFb(w)]
  BY <1>4, MapMoves
<1>7. d.failed => t = d
  BY DEF StartVideo, d, b, a
<1>11. ~d.failed => t = [d EXCEPT !.port[v].dirty = FALSE, !.port[v].state = "active",
                                          !.port[v].updateClone = TRUE]
  BY DEF StartVideo, d, b, a
<1>8. d \in Running
  BY <1>4, MapType DEF Steps
<1> HIDE DEF d, t
<1>9. CASE d.failed
  BY <1>4, <1>5, <1>6, <1>7, <1>9, UnmovedSame, UnmovedNeat DEF t
<1>10. CASE ~d.failed
  <2>1. d.port[v] \in Port /\ d \in Device
    BY <1>8, PortOf DEF Running
  <2>2. /\ q.ovl = d.port[v].ovl /\ q.state = "active"
        /\ q.allocated = d.port[v].allocated /\ q.reserved = d.port[v].reserved
    BY <2>1 DEF Port
  <2>3. t = [d EXCEPT !.port[v] = q]
    <3>1. [d EXCEPT !.port[v].dirty = FALSE, !.port[v].state = "active",
                    !.port[v].updateClone = TRUE] = [d EXCEPT !.port[v] = q]
      BY <2>1 DEF Device
    <3> QED  BY <1>10, <1>11, <3>1
  <2> HIDE DEF q
  <2>4. /\ t.mem = d.mem /\ t.size = d.size /\ t.mapped = d.mapped
        /\ t.port[v] = q /\ \A w \in Ports : w # v => t.port[w] = d.port[w]
    BY <2>1, <2>3 DEF Device
  <2>5. NeatPort(t, v)
    BY <1>4, <1>5, <1>6, <2>2, <2>4 DEF Neat, NeatPort, Ovl, Active
  <2>6. \A w \in Ports : w # v => NeatPort(t, w)
    BY <1>4, <1>5, <1>6, <2>4 DEF Neat, NeatPort, Ovl, Active
  <2> QED  BY <2>5, <2>6 DEF Neat, t
<1> QED  BY <1>9, <1>10

(* The frame is written and shown with the memory the port has. *)
LEMMA FillAndFlipUnmoved ==
  ASSUME NEW s \in Running, NEW v \in Ports
  PROVE  Unmoved(s, FillAndFlip(s, v))
<1> DEFINE o == Ovl(s, v)
           a == CloneSync(s)
           b == OverlayWait(a, o, "overlay")
           d == Require(b, s.mapped[VideoFb(v)], "copy")
           e == OverlaySetup(d, o)
<1>0. o \in OrNone /\ "overlay" \in Death /\ "copy" \in Death /\ "sync" \in Death
  BY PortFields DEF Death
<1>1. Unmoved(s, a) /\ a \in Running
  <2>1. Unmoved(s, s) /\ \A cond, how : Unmoved(s, Require(s, cond, how))
    BY UnmovedSame, PlaneUnmoved
  <2>2. a \in Running
    BY CloneSyncIs DEF CrtcSteps, Steps
  <2> QED  BY <2>1, <2>2 DEF CloneSync, OverlayWait
<1> HIDE DEF a
<1>2. Unmoved(a, b) /\ b \in Running
  BY <1>0, <1>1, PlaneUnmoved, RequireType DEF OverlayWait, Steps
<1> HIDE DEF b
<1>3. Unmoved(b, d) /\ d \in Running
  BY <1>0, <1>2, PlaneUnmoved, RequireType DEF Steps
<1> HIDE DEF d
<1>4. Unmoved(d, e) /\ e \in Running
  BY <1>0, <1>3, PlaneUnmoved, SetupType DEF Steps
<1> HIDE DEF e
<1>5. Unmoved(e, Ignoring(e)) /\ Unmoved(e, [e EXCEPT !.port[v].updateClone = TRUE])
  BY <1>4, UnmovedIgnoring, UnmovedFlags
<1>6. FillAndFlip(s, v) = IF e.failed THEN Ignoring(e)
                          ELSE [e EXCEPT !.port[v].updateClone = TRUE]
  BY DEF FillAndFlip, e, d, b, a
<1> QED  BY <1>1, <1>2, <1>3, <1>4, <1>5, <1>6, UnmovedAgain

(* Nor is a key or the timer any of it. *)
LEMMA KeyUnmoved ==
  ASSUME NEW s \in Running, NEW v \in Ports, NEW b
  PROVE  Unmoved(s, SetupColorkey(s, v, b))
<1> DEFINE t == SetupColorkey(s, v, b)
<1>1. s \in Device
  BY DEF Running
<1>2. t.mem = s.mem /\ t.size = s.size /\ t.mapped = s.mapped /\ t.port = s.port
  BY <1>1 DEF SetupColorkey, OutputColorKey, Device
<1> HIDE DEF t
<1> QED  BY <1>2, UnmovedSame DEF t

(* The overlay is switched on over what it has. *)
LEMMA ShowUnmoved ==
  ASSUME NEW s \in Running, NEW v \in Ports, NEW enable
  PROVE  Unmoved(s, Show(s, v, enable))
<1> DEFINE a == RearmTimer(s, v)
           b == SetupColorkey(a, v, ~s.port[v].noKey)
           d == OverlayEnable(b, Ovl(s, v))
<1>0. Ovl(s, v) \in OrNone /\ (~s.port[v].noKey) \in BOOLEAN
  BY PortFields
<1>1. Unmoved(s, a) /\ a \in Running
  BY UnmovedFlags, RearmTimerType DEF RearmTimer, Steps
<1> HIDE DEF a
<1>2. Unmoved(a, b) /\ b \in Running
  BY <1>0, <1>1, KeyUnmoved, SetupColorkeyType DEF Steps
<1> HIDE DEF b
<1>3. Unmoved(b, d) /\ d \in Running
  BY <1>0, <1>2, PlaneUnmoved, EnableType DEF Steps
<1> HIDE DEF d
<1>4. Unmoved(d, Ignoring(d))
  BY <1>3, UnmovedIgnoring
<1>5. Show(s, v, enable) \in {a, Ignoring(d)}
  BY DEF Show, d, b, a
<1> QED  BY <1>1, <1>2, <1>3, <1>4, <1>5, UnmovedAgain

-----------------------------------------------------------------------------
(* The requests keep the memory in order. *)

(* An image that is filled in, on whichever path, *)
LEMMA FillNeat ==
  ASSUME Clones = {}, NEW s, NEW v \in Ports, NEW enable, NEW buf, GoodBut(s, v), Seen(s),
         s.server = "up", Neat(s), s.fault # "free"
  PROVE  Neat(Fill(s, v, enable, buf))
<1> DEFINE x == IF buf THEN FillAndFlip(s, v) ELSE s
<1>1. CASE s.failed
  BY <1>1, GiveUpNeat DEF Fill
<1>2. CASE ~s.failed
  <2>1. Unmoved(s, s) /\ s \in Running
    BY UnmovedSame DEF Seen
  <2>2. Unmoved(s, x) /\ Seen(x)
    BY <2>1, FillAndFlipUnmoved, SeenFillAndFlip
  <2>3. Fill(s, v, enable, buf) = Show(x, v, enable)
    BY <1>2 DEF Fill, x
  <2> HIDE DEF x
  <2>4. Unmoved(x, Show(x, v, enable))
    BY <2>2, ShowUnmoved DEF Seen
  <2> QED  BY <2>2, <2>3, <2>4, UnmovedAgain, UnmovedNeat
<1> QED  BY <1>1, <1>2

(* on a port that has been placed, *)
LEMMA PutImageOnNeat ==
  ASSUME Clones = {}, NEW s, NEW v \in Ports, NEW moved, NEW buf, GoodBut(s, v), Seen(s),
         s.server = "up", Neat(s), s.fault # "free", ~s.failed => Ready(s, v)
  PROVE  Neat(PutImageOn(s, v, moved, buf))
<1> DEFINE x == Restart(s, v, moved)
<1>1. CASE s.failed
  BY <1>1, GiveUpNeat DEF PutImageOn
<1>2. CASE ~s.failed /\ s.port[v].crtc = NoCrtc
  BY <1>2 DEF PutImageOn
<1>3. CASE ~s.failed /\ s.port[v].crtc # NoCrtc
  <2>1. PortSteps(s, x, v) /\ x.server = "up" /\ Seen(x) /\ Neat(x)
    <3>1. PortSteps(s, x, v) /\ x.server = "up"
      BY <1>3, RestartIs
    <3>2. Seen(x) /\ Neat(x)
      BY <1>3, StartNeat, SeenStart DEF Restart
    <3> QED  BY <3>1, <3>2
  <2>2. PutImageOn(s, v, moved, buf) = Fill(x, v, s.port[v].dirty \/ moved, buf)
    BY <1>3 DEF PutImageOn, x
  <2> HIDE DEF x
  <2>3. GoodBut(x, v) /\ x.fault = s.fault
    BY <2>1, PortStepsGood DEF PortSteps, Steps
  <2> QED  BY <2>1, <2>2, <2>3, FillNeat
<1> QED  BY <1>1, <1>2, <1>3

(* after its memory was allocated, *)
LEMMA PlaceImageNeat ==
  ASSUME Clones = {}, NEW s, NEW v \in Ports, NEW n \in Sizes, NEW c \in Crtc \cup {NoCrtc},
         NEW moved, NEW buf, Good(s), Seen(s), s.server = "up", Neat(s), s.fault # "free",
         ~s.failed => Ovl(s, v) # NoOverlay
  PROVE  Neat(PlaceImage(s, v, n, c, moved, buf))
<1> DEFINE a == AllocMem(s, v, n)
           p == [a.port[v] EXCEPT !.kind = "image"]
           k == AsKind(a, v, "image")
           r == Retarget(k, v, c)
<1>1. CASE s.failed
  BY <1>1 DEF PlaceImage
<1>2. CASE ~s.failed
  <2>0. GoodBut(s, v)
    BY DEF Good, GoodBut
  <2>1. /\ PortSteps(s, a, v) /\ a.server = "up" /\ Seen(a) /\ Neat(a)
        /\ ~a.failed => /\ PortFine(a, v) /\ Ovl(a, v) # NoOverlay
                        /\ a.buffered[VideoFb(v)] /\ a.mem[VideoFb(v)] # 0
    BY <1>2, AllocMemIs, AllocNeat, SeenAllocMem
  <2> HIDE DEF a
  <2>2. GoodBut(a, v) /\ a.fault = s.fault
    BY <2>0, <2>1, PortStepsGood DEF PortSteps, Steps
  <2>3. /\ PortSteps(a, k, v) /\ k.server = "up" /\ k.failed = a.failed
        /\ ~k.failed /\ PortFine(a, v) /\ Ovl(a, v) # NoOverlay =>
              /\ PortFine(k, v) /\ Ovl(k, v) # NoOverlay /\ k.port[v].kind = "image"
              /\ k.buffered = a.buffered /\ k.mem = a.mem
    BY <2>1, <2>2, AsKindIs
  <2>4. Seen(k)
    <3>1. p \in Port /\ p.ovl = Ovl(a, v)
      BY <2>1, PortOf DEF Seen, Port, Ovl
    <3>2. k \in {a, [a EXCEPT !.port[v] = p]}
      BY DEF AsKind
    <3> HIDE DEF p, k
    <3> QED  BY <2>1, <3>1, <3>2, SeenPort
  <2>5. Neat(k)
    BY <2>1, AsKindUnmoved, UnmovedNeat DEF Seen
  <2> HIDE DEF k
  <2>6. GoodBut(k, v) /\ k.fault = s.fault
    BY <2>2, <2>3, PortStepsGood DEF PortSteps, Steps
  <2>7. ~k.failed => PortFine(k, v) /\ Ovl(k, v) # NoOverlay /\ Stock(k, v)
    BY <2>1, <2>3 DEF Stock
  <2>8. /\ PortSteps(k, r, v) /\ r.server = "up" /\ Seen(r) /\ Neat(r)
        /\ ~r.failed => Ready(r, v)
    <3>1. PortSteps(k, r, v) /\ r.server = "up" /\ (~r.failed => Ready(r, v))
      BY <2>3, <2>6, <2>7, RetargetIs
    <3>2. Unmoved(k, r) /\ Seen(r)
      BY <2>3, <2>4, <2>6, <2>7, RetargetUnmoved, SeenRetarget
    <3> HIDE DEF r
    <3> QED  BY <2>3, <2>5, <3>1, <3>2, UnmovedNeat
  <2>9. PlaceImage(s, v, n, c, moved, buf) = PutImageOn(r, v, moved, buf)
    BY <1>2 DEF PlaceImage, r, k, a
  <2> HIDE DEF r
  <2>10. GoodBut(r, v) /\ r.fault = s.fault
    BY <2>6, <2>8, PortStepsGood DEF PortSteps, Steps
  <2> QED  BY <2>8, <2>9, <2>10, PutImageOnNeat
<1> QED  BY <1>1, <1>2

(* leaves the memory in order. *)
LEMMA PutImageNeat ==
  ASSUME Clones = {}, NEW s, NEW v \in Ports, NEW n \in Sizes, NEW c \in Crtc \cup {NoCrtc},
         NEW moved, NEW buf, Good(s), Seen(s), s.server = "up", Neat(s), s.fault # "free"
  PROVE  Neat(PutImage(s, v, n, c, moved, buf))
<1> DEFINE g == GetOverlay(s, v)
           p == PlaceImage(g, v, n, c, moved, buf)
<1>1. /\ Good(g) /\ g.server = "up" /\ (~g.failed => Ovl(g, v) # NoOverlay)
      /\ g.fault = s.fault /\ Seen(g) /\ Neat(g)
  <2>1. /\ Good(g) /\ g.server = "up" /\ (~g.failed => Ovl(g, v) # NoOverlay)
        /\ PortSteps(s, g, v)
    BY GetOverlayIs
  <2>2. Seen(g) /\ Neat(g)
    BY SeenGetOverlay, GetNeat
  <2> QED  BY <2>1, <2>2 DEF PortSteps, Steps
<1>2. PutImage(s, v, n, c, moved, buf) = CloneUpdate(p)
  BY DEF PutImage
<1> HIDE DEF g
<1>3. Good(p) /\ Neat(p)
  BY <1>1, PlaceImageIs, PlaceImageNeat
<1> HIDE DEF p
<1>4. CrtcSteps(p, CloneUpdate(p))
  BY <1>3, CloneUpdateIs DEF Good, Safe
<1> QED  BY <1>2, <1>3, <1>4, CrtcNeat DEF Good

(* A video needs a reservation. *)
LEMMA PutVideoNeat ==
  ASSUME NEW s, NEW v \in Ports, NEW c, NEW moved, Good(s), s.server = "up", Neat(s)
  PROVE  Neat(PutVideo(s, v, c, moved))
<1>1. ~s.port[v].reserved
  BY DEF Neat, NeatPort
<1>2. PutVideo(s, v, c, moved) = CloneUpdate(s)
  BY <1>1 DEF PutVideo
<1>3. CrtcSteps(s, CloneUpdate(s))
  BY CloneUpdateIs DEF Good, Safe
<1> QED  BY <1>2, <1>3, CrtcNeat DEF Good

(* What was freed stays so. *)
LEMMA EmptiedAgain ==
  ASSUME NEW s, NEW t, NEW v \in Ports, s.server = "up", Emptied(s, v), Unmoved(s, t)
  PROVE  Emptied(t, v)
  BY UnmovedNeat DEF Emptied, Unmoved

(* A client that goes leaves a port that is not reserved with no memory, *)
LEMMA ResetEmpties ==
  ASSUME NEW s \in Running, NEW v \in Ports, NEW exit, s.server = "up", Emptied(s, v)
  PROVE  Emptied(Reset(s, v, exit), v)
<1> DEFINE f == VideoFb(v)
           a == FbFree(s, f)
           b == Ignoring(a)
           q == [b.port[v] EXCEPT !.noKey = FALSE, !.clone = TRUE, !.rotation = Rotate0,
                                  !.stacking = "XV", !.reserved = FALSE]
           t == Reset(s, v, exit)
<1>0. s \in Device /\ s.size[f] = 0 /\ ~s.port[v].reserved
  BY DEF Running, Emptied, Neat, NeatPort
<1>1. a \in {s, [s EXCEPT !.failed = TRUE], [s EXCEPT !.buffered[f] = FALSE]}
  BY <1>0 DEF FbFree
<1>2. a \in Running
  BY FbFreeType, VideoFbIs DEF Steps
<1> HIDE DEF a
<1>3. a.mem = s.mem /\ a.size = s.size /\ a.mapped = s.mapped /\ a.port = s.port
  BY <1>0, <1>1 DEF Device
<1>4. Unmoved(s, a)
  BY <1>3, UnmovedSame
<1>5. Unmoved(a, b) /\ b \in Running
  BY <1>2, UnmovedIgnoring, IgnoringType DEF Running
<1>6. t = s \/ t = [b EXCEPT !.port[v] = q]
  BY DEF Reset, b, a
<1> HIDE DEF b
<1>7. Unmoved(b, [b EXCEPT !.port[v] = q])
  <2>1. b.port[v] \in Port /\ ~b.port[v].reserved
    BY <1>0, <1>4, <1>5, PortOf DEF Unmoved
  <2>2. /\ q.ovl = Ovl(b, v) /\ q.state = b.port[v].state
        /\ q.allocated = b.port[v].allocated /\ q.reserved = b.port[v].reserved
    BY <2>1 DEF Port, Ovl
  <2> HIDE DEF q
  <2> QED  BY <1>5, <2>2, UnmovedPort
<1> HIDE DEF q, t
<1> QED  BY <1>4, <1>5, <1>6, <1>7, UnmovedAgain, EmptiedAgain DEF t

(* and so does one that stops its video. *)
LEMMA StopVideoNeat ==
  ASSUME Clones = {}, NEW s, NEW v \in Ports, NEW exit, Good(s), Seen(s), s.server = "up",
         Neat(s), s.fault # "free"
  PROVE  Neat(StopVideo(s, v, exit))
<1> DEFINE k == CloneStop(s, v)
           p == Stop(k, v)
           q == [p.port[v] EXCEPT !.dirty = TRUE, !.updateClone = TRUE]
           e == [p EXCEPT !.port[v] = q]
           r == Reset(e, v, exit)
           u == PutOverlay(r, v)
<1>1. Good(k) /\ k.server = "up" /\ Seen(k) /\ Neat(k) /\ k.fault = s.fault
  <2>1. s \in Running /\ Shared(s) /\ Safe(s)
    BY DEF Good, Safe
  <2>2. CrtcSteps(s, k) /\ k.server = "up" /\ Seen(k)
    BY <2>1, CloneStopIs, CloneStopUp, SeenCloneStop
  <2> HIDE DEF k
  <2> QED  BY <2>1, <2>2, CrtcGood, CrtcNeat DEF CrtcSteps, Steps
<1> HIDE DEF k
<1>2. /\ Good(p) /\ p.server = "up" /\ Rests(p, v) /\ Ovl(p, v) \notin p.on
      /\ Emptied(p, v)
  <2>1. GoodBut(k, v)
    BY <1>1 DEF Good, GoodBut
  <2> QED  BY <1>1, <2>1, StopIs, StopEmpties
<1> HIDE DEF p
<1>3. /\ q \in Port /\ q.ovl = Ovl(p, v) /\ q.state = p.port[v].state
      /\ q.crtc = p.port[v].crtc /\ q.allocated = p.port[v].allocated
      /\ q.reserved = p.port[v].reserved
  <2>1. p.port[v] \in Port
    BY <1>2, PortOf DEF Good, Safe
  <2> QED  BY <2>1 DEF Port, Ovl
<1>4. [p EXCEPT !.port[v].dirty = TRUE, !.port[v].updateClone = TRUE] = e
  BY <1>2 DEF Good, Safe, Running, Device
<1>5. StopVideo(s, v, exit) = CloneUpdate(PutUnreserved(r, v))
  BY <1>4 DEF StopVideo, r, p, k
<1> HIDE DEF q
<1>6. /\ Good(e) /\ PortOnly(p, e, v) /\ Rests(e, v) /\ e.port[v] = q
      /\ Unmoved(p, e)
  BY <1>2, <1>3, RestingSet, UnmovedPort DEF Good, Safe
<1> HIDE DEF e
<1>7. e.server = "up" /\ Ovl(e, v) \notin e.on /\ Emptied(e, v)
  BY <1>2, <1>3, <1>6, EmptiedAgain DEF PortOnly, Ovl
<1>8. Good(r) /\ r.server = "up" /\ Rests(r, v) /\ Emptied(r, v)
  BY <1>6, <1>7, ResetIs, ResetEmpties DEF Good, Safe
<1> HIDE DEF r
<1>9. PutUnreserved(r, v) = u
  BY <1>8 DEF PutUnreserved, Emptied, Neat, NeatPort
<1>10. Good(u) /\ Neat(u)
  BY <1>8, PutAtRest, PutNeat DEF Good, Safe
<1> HIDE DEF u
<1>11. CrtcSteps(u, CloneUpdate(u))
  BY <1>10, CloneUpdateIs DEF Good, Safe
<1> QED  BY <1>5, <1>9, <1>10, <1>11, CrtcNeat DEF Good

(* The attributes of a port do not reach its memory. *)
LEMMA AttributesUnmoved ==
  ASSUME NEW s \in Running, NEW v \in Ports
  PROVE  /\ \A b \in BOOLEAN : Unmoved(s, SetClone(s, v, b))
         /\ \A b \in BOOLEAN : Unmoved(s, SetDisableColorkey(s, v, b))
         /\ Unmoved(s, SetColorkey(s, v)) /\ Unmoved(s, SyncVideo(s, v))
         /\ Unmoved(s, KeyTimer(s, v))
<1>1. \A b : Unmoved(s, SetClone(s, v, b))
  BY UnmovedFlags DEF SetClone
<1>2. ASSUME NEW b \in BOOLEAN PROVE Unmoved(s, SetDisableColorkey(s, v, b))
  <2> DEFINE q == [s.port[v] EXCEPT !.noKey = b]
             a == [s EXCEPT !.port[v].noKey = b]
             d == SetupColorkey(a, v, ~b)
  <2>1. a \in Running
    <3>1. q \in Port /\ a = [s EXCEPT !.port[v] = q]
      BY PortOf, SMTT(30) DEF Running, Device, Port
    <3> HIDE DEF q, a
    <3> QED  BY <3>1, SetPort DEF Steps
  <2>2. Unmoved(s, a)
    BY UnmovedFlags
  <2> HIDE DEF a
  <2>3. Unmoved(a, d) /\ d \in Running
    BY <2>1, KeyUnmoved, SetupColorkeyType DEF Steps
  <2> HIDE DEF d
  <2>4. Unmoved(d, RearmTimer(d, v))
    BY <2>3, UnmovedFlags DEF RearmTimer
  <2>5. SetDisableColorkey(s, v, b) = RearmTimer(d, v)
    BY DEF SetDisableColorkey, d, a
  <2> QED  BY <2>2, <2>3, <2>4, <2>5, UnmovedAgain
<1>3. Unmoved(s, SetColorkey(s, v))
  BY KeyUnmoved DEF SetColorkey
<1>4. Unmoved(s, SyncVideo(s, v))
  <2> DEFINE a == CloneSync(s)
  <2>1. Unmoved(s, a) /\ a \in Running
    <3>1. Unmoved(s, s) /\ \A cond, how : Unmoved(s, Require(s, cond, how))
      BY UnmovedSame, PlaneUnmoved
    <3>2. a \in Running
      BY CloneSyncIs DEF CrtcSteps, Steps
    <3> QED  BY <3>1, <3>2 DEF CloneSync, OverlayWait
  <2> HIDE DEF a
  <2>2. Unmoved(a, OverlayWait(a, Ovl(s, v), "overlay"))
    BY <2>1, PlaneUnmoved DEF OverlayWait
  <2> QED  BY <2>1, <2>2, UnmovedAgain DEF SyncVideo, a
<1>5. Unmoved(s, KeyTimer(s, v))
  <2> DEFINE a == SetupColorkey(s, v, TRUE)
  <2>1. Unmoved(s, a) /\ a \in Running
    BY KeyUnmoved, SetupColorkeyType DEF Steps
  <2> HIDE DEF a
  <2>2. Unmoved(a, [a EXCEPT !.port[v].timer = FALSE, !.port[v].dirty = TRUE])
    BY <2>1, UnmovedFlags
  <2> QED  BY <2>1, <2>2, UnmovedAgain DEF KeyTimer, a
<1> QED  BY <1>1, <1>2, <1>3, <1>4, <1>5

(* Nor does a mode, whether it is set or refused. *)
LEMMA SetCrtcModeNeat ==
  ASSUME NEW s, NEW c \in Crtc, NEW r \in Rotation, Good(s), s.server = "up", Neat(s)
  PROVE  Neat(SetCrtcMode(s, c, r))
<1> DEFINE m == [s EXCEPT !.enabled[c] = TRUE, !.rotation[c] = r]
           set == SetModeMajor(m, c)
           i == Ignoring(set)
           d == [i EXCEPT !.enabled[c] = s.enabled[c], !.rotation[c] = s.rotation[c]]
<1>0. s \in Running /\ s \in Device /\ Shared(s)
  BY DEF Good, Safe, Running
<1>1. m \in Running
  BY <1>0, SetModeFields DEF Steps
<1>2. /\ m.port = s.port /\ m.usage = s.usage /\ m.fb = s.fb /\ m.on = s.on
      /\ m.mem = s.mem /\ m.size = s.size /\ m.mapped = s.mapped
      /\ m.crtcOvl = s.crtcOvl /\ m.server = "up"
  BY <1>0 DEF Device
<1>3. SetCrtcMode(s, c, r) \in {d, set}
  BY DEF SetCrtcMode
<1> HIDE DEF m
<1>4. Unmoved(s, m) /\ Safe(m)
  <2>1. \A v \in Ports : Ovl(m, v) = Ovl(s, v) /\ (Active(m, v) <=> Active(s, v))
    BY <1>2 DEF Ovl, Active
  <2> QED  BY <1>0, <1>1, <1>2, <2>1, SameShared, UnmovedSame DEF Safe, Doomed
<1>5. CrtcSteps(m, set)
  BY <1>1, SetModeMajorIs
<1> HIDE DEF set
<1>6. Neat(set) /\ set \in Running
  BY <1>2, <1>4, <1>5, CrtcNeat, UnmovedNeat DEF CrtcSteps, Steps
<1>7. Neat(d)
  <2>1. Unmoved(set, i) /\ i \in Device /\ i.server = set.server
    BY <1>6, UnmovedIgnoring, IgnoringTuned DEF Tuned, Apart, Steps, Running
  <2> HIDE DEF i
  <2>2. /\ d.mem = i.mem /\ d.size = i.size /\ d.mapped = i.mapped /\ d.port = i.port
        /\ d.server = i.server
    BY <2>1 DEF Device
  <2> HIDE DEF d
  <2>3. Unmoved(i, d)
    BY <2>2, UnmovedSame
  <2>4. CASE set.server = "up"
    BY <1>6, <2>1, <2>3, <2>4, UnmovedAgain, UnmovedNeat
  <2>5. CASE set.server # "up"
    BY <2>1, <2>2, <2>5 DEF Neat
  <2> QED  BY <2>4, <2>5
<1> QED  BY <1>3, <1>6, <1>7

(* The screen's memory is not that of a port. *)
LEMMA ReallocNeat ==
  ASSUME NEW s, NEW n \in Sizes, Good(s), s.server = "up", ~s.failed, Neat(s)
  PROVE  Neat(ReallocFb(s, n))
<1> DEFINE t == ReallocFb(s, n)
<1>0. s \in Running /\ Shared(s) /\ Backed(s) /\ s.mem[0] # 0
  BY DEF Good, Safe, Shared, Backed, Fb
<1>1. t.server = "up" => Screened(s, t)
  BY <1>0, ReallocFbIs
<1> HIDE DEF t
<1>2. CASE t.server # "up"
  BY <1>2 DEF Neat, t
<1>3. CASE t.server = "up"
  BY <1>1, <1>3, VideoFbIs DEF Screened, Neat, NeatPort, Ovl, Active, t
<1> QED  BY <1>2, <1>3

-----------------------------------------------------------------------------
(* It is in order at first, and when a request begins and ends. *)

(* Before there are ports the memory of every framebuffer is what the driver remembers. *)
Bare(s) == Fresh(s) /\ s.mem = s.size

(* Pairing, *)
LEMMA BareAssign ==
  ASSUME NEW s, Bare(s), NEW f \in Fb, NEW o \in Overlay
  PROVE  LET t == FbAssignOverlay(s, f, o) IN Bare(t) /\ t.size = s.size /\ t.fb[o] = f
<1> DEFINE t == FbAssignOverlay(s, f, o)
<1>0. s \in Device /\ Fresh(s)
  BY DEF Bare, Fresh, Running
<1>1. Fresh(t) /\ t.fb[o] = f
  BY <1>0, FreshAssign
<1>2. t.mem = s.mem /\ t.size = s.size
  BY <1>0 DEF FbAssignOverlay, Device
<1> QED  BY <1>1, <1>2 DEF Bare

(* showing *)
LEMMA BareShown ==
  ASSUME NEW s, Bare(s), NEW c \in Crtc, NEW o \in Overlay
  PROVE  LET t == OutputAssignOverlay(s, c, o) IN Bare(t) /\ t.size = s.size
<1> DEFINE t == OutputAssignOverlay(s, c, o)
           r == Require(s, o # NoOverlay, "overlay")
<1>0. s \in Device /\ Fresh(s)
  BY DEF Bare, Fresh, Running
<1>1. Fresh(t)
  BY <1>0, FreshShown
<1>2. r = s
  BY OverlaysAssumption DEF Require, Overlay
<1>3. t = AssignDevice(r, c, o)
  BY DEF OutputAssignOverlay
<1> HIDE DEF r, t
<1>4. t.mem = s.mem /\ t.size = s.size
  BY <1>0, <1>2, <1>3 DEF AssignDevice, Device
<1> QED  BY <1>1, <1>4 DEF Bare, t

(* and unkeying change no memory. *)
LEMMA BareKey ==
  ASSUME NEW s, Bare(s), NEW c \in Crtc
  PROVE  LET t == OutputColorKey(s, c, FALSE) IN Bare(t) /\ t.size = s.size
<1> DEFINE t == OutputColorKey(s, c, FALSE)
<1>0. s \in Device /\ Fresh(s)
  BY DEF Bare, Fresh, Running
<1>1. Fresh(t)
  BY <1>0, FreshKey
<1>2. t.mem = s.mem /\ t.size = s.size
  BY <1>0 DEF OutputColorKey, Device
<1> QED  BY <1>1, <1>2 DEF Bare

(* What is freed is empty, and nothing else is changed. *)
LEMMA BareFreed ==
  ASSUME NEW s, NEW f \in Fb, Bare(s), s.fb[0] = f
  PROVE  LET t == FbFree(s, f) IN
         Bare(t) /\ t.size[f] = 0 /\ \A g \in Fb : g # f => t.size[g] = s.size[g]
<1> DEFINE t == FbFree(s, f)
<1>0. s \in Device /\ Fresh(s) /\ Fresh(t)
  BY FreshFree DEF Bare, Fresh, Running
<1>2. FbReachable(s, f) /\ ~MemBusy(s, f) /\ ~Fails(s, "free") /\ ~s.failed
  BY <1>0 DEF FbReachable, Overlay, MemBusy, Fails, Fresh
<1>4. \/ s.size[f] = 0 /\ t = [s EXCEPT !.buffered[f] = FALSE]
      \/ t = [s EXCEPT !.mem[f] = 0, !.size[f] = 0, !.buffered[f] = FALSE]
  BY <1>2 DEF FbFree
<1> HIDE DEF t
<1>5. t.mem = t.size /\ t.size[f] = 0 /\ \A g \in Fb : g # f => t.size[g] = s.size[g]
  <2>1. s.mem = s.size
    BY DEF Bare
  <2>2. CASE s.size[f] = 0 /\ t = [s EXCEPT !.buffered[f] = FALSE]
    BY <1>0, <2>1, <2>2 DEF Device
  <2>3. CASE t = [s EXCEPT !.mem[f] = 0, !.size[f] = 0, !.buffered[f] = FALSE]
    <3>1. t.mem = [s.mem EXCEPT ![f] = 0] /\ t.size = [s.size EXCEPT ![f] = 0]
      BY <1>0, <2>3 DEF Device
    <3> QED  BY <1>0, <2>1, <3>1 DEF Device
  <2> QED  BY <1>4, <2>2, <2>3
<1> QED  BY <1>0, <1>5 DEF Bare, t

(* omap_preinit leaves the ports no memory. *)
LEMMA PreInitEmpties ==
  ASSUME NEW s, Bare(s)
  PROVE  LET t == PreInit(s) IN Bare(t) /\ \A f \in Fb : f # 0 => t.size[f] = 0
<1> DEFINE Freed(t, f) == FbFree(FbAssignOverlay(t, f, 0), f)
           Unkeyed(t, c) == OutputColorKey(OutputAssignOverlay(t, c, 0), c, FALSE)
           Shown(t, o) == OutputAssignOverlay(t, "CRTC0", o)
           a1 == FbAssignOverlay(s, 0, 0)
           a2 == FbAssignOverlay(a1, 1, 1)
           a3 == FbAssignOverlay(a2, 2, 2)
           a4 == Shown(a3, 0)
           a5 == Shown(a4, 1)
           a6 == Shown(a5, 2)
           a7 == Freed(a6, 1)
           a8 == Freed(a7, 2)
           a9 == FbAssignOverlay(a8, 0, 0)
           a10 == Unkeyed(a9, "CRTC0")
           a11 == Unkeyed(a10, "CRTC1")
<1>0. /\ 0 \in Overlay /\ 1 \in Overlay /\ 2 \in Overlay /\ 0 \in Fb /\ 1 \in Fb /\ 2 \in Fb
      /\ "CRTC0" \in Crtc /\ "CRTC1" \in Crtc
  BY DEF Overlay, Fb, Crtc
<1>1. ASSUME NEW t, NEW f \in Fb, NEW o \in Overlay, Bare(t)
      PROVE  /\ Bare(FbAssignOverlay(t, f, o)) /\ FbAssignOverlay(t, f, o).size = t.size
             /\ FbAssignOverlay(t, f, o).fb[o] = f
  BY <1>1, BareAssign
<1>2. ASSUME NEW t, NEW o \in Overlay, Bare(t)
      PROVE  Bare(Shown(t, o)) /\ Shown(t, o).size = t.size
  <2> DEFINE u == OutputAssignOverlay(t, "CRTC0", o)
  <2>1. Bare(u) /\ u.size = t.size
    BY <1>0, <1>2, BareShown
  <2> QED  BY <2>1
<1>3. ASSUME NEW t, NEW f \in Fb, Bare(t)
      PROVE  /\ Bare(Freed(t, f)) /\ Freed(t, f).size[f] = 0
             /\ \A g \in Fb : g # f => Freed(t, f).size[g] = t.size[g]
  <2> DEFINE u == FbAssignOverlay(t, f, 0)
  <2>1. Bare(u) /\ u.size = t.size /\ u.fb[0] = f
    BY <1>0, <1>1, <1>3
  <2> HIDE DEF u
  <2>2. Bare(FbFree(u, f)) /\ FbFree(u, f).size[f] = 0
        /\ \A g \in Fb : g # f => FbFree(u, f).size[g] = u.size[g]
    BY <2>1, BareFreed
  <2> QED  BY <2>1, <2>2 DEF u
<1>4. ASSUME NEW t, NEW c \in Crtc, Bare(t)
      PROVE  Bare(Unkeyed(t, c)) /\ Unkeyed(t, c).size = t.size
  <2> DEFINE u == OutputAssignOverlay(t, c, 0)
  <2>1. Bare(u) /\ u.size = t.size
    BY <1>0, <1>4, BareShown
  <2> HIDE DEF u
  <2>2. Bare(OutputColorKey(u, c, FALSE)) /\ OutputColorKey(u, c, FALSE).size = u.size
    BY <2>1, BareKey
  <2> QED  BY <2>1, <2>2 DEF u
<1>5. PreInit(s) = Shown(a11, 0)
  BY DEF PreInit
<1> HIDE DEF Freed, Unkeyed, Shown
<1>6. Bare(a3)
  BY <1>0, <1>1
<1> HIDE DEF a3
<1>7. Bare(a6)
  BY <1>0, <1>2, <1>6
<1> HIDE DEF a6
<1>8. Bare(a7) /\ a7.size[1] = 0
  BY <1>0, <1>3, <1>7
<1> HIDE DEF a7
<1>9. Bare(a8) /\ a8.size[1] = 0 /\ a8.size[2] = 0
  BY <1>0, <1>3, <1>8
<1> HIDE DEF a8
<1>10. Bare(a9) /\ a9.size = a8.size
  BY <1>0, <1>1, <1>9
<1> HIDE DEF a9
<1>11. Bare(a11) /\ a11.size = a8.size
  BY <1>0, <1>4, <1>10
<1> HIDE DEF a11
<1>12. Bare(Shown(a11, 0)) /\ Shown(a11, 0).size = a8.size
  BY <1>0, <1>2, <1>11
<1>13. \A f \in Fb : f # 0 => f = 1 \/ f = 2
  BY DEF Fb
<1> QED  BY <1>5, <1>9, <1>12, <1>13

(* The memory is in order, whether the server still runs or not. *)
NeatInv == \A v \in Ports : NeatPort(dev, v)

(* It is when the server starts, *)
LEMMA NeatInit == Init => NeatInv
<1> SUFFICES ASSUME Init PROVE NeatInv
  OBVIOUS
<1>1. PICK kernel \in [Fb -> Sizes \cup {0}] : dev = ReallocFb(PreInit(Opened(kernel)), ScreenSize)
  BY DEF Init
<1> DEFINE s == Opened(kernel)
           p == PreInit(s)
<1>2. Bare(s)
  BY OpenedFresh DEF Bare, Opened, OpenedFbs
<1> HIDE DEF s
<1>3. Bare(p) /\ \A f \in Fb : f # 0 => p.size[f] = 0
  BY <1>2, PreInitEmpties
<1>4. p.fb[0] = 0 /\ ScreenSize \in Sizes
  BY <1>2, PreInitFresh, VideoPortAssumption DEF Bare
<1> HIDE DEF p
<1>5. Screened(p, dev)
  <2>1. p \in Running /\ p.server = "up" /\ ~p.failed /\ p.fault = "none" /\ p.on = {}
        /\ Backed(p)
    BY <1>3 DEF Bare, Fresh, Backed, Fb
  <2> QED  BY <1>1, <1>4, <2>1, ReallocFbIs DEF p, s
<1>6. \A v \in Ports : VideoFb(v) \in Fb /\ VideoFb(v) # 0
  BY VideoFbIs
<1>7. \A v \in Ports : dev.port[v] = FreshPort
  BY <1>3, <1>5 DEF Screened, Bare, Fresh
<1>8. \A v \in Ports : dev.mem[VideoFb(v)] = 0 /\ dev.size[VideoFb(v)] = 0
                       /\ ~dev.mapped[VideoFb(v)]
  BY <1>3, <1>5, <1>6 DEF Screened, Bare, Fresh
<1> QED  BY <1>7, <1>8 DEF NeatInv, NeatPort, FreshPort

(* when a request begins, *)
LEMMA NeatBegun ==
  ASSUME IInv, ScreenInv, NeatInv, dev.server = "up", NEW f \in Fault
  PROVE  LET s == [dev EXCEPT !.fault = f] IN
         /\ Good(s) /\ Seen(s) /\ s.server = "up" /\ ~s.failed /\ s.fault = f /\ Neat(s)
         /\ s.port = dev.port
<1> DEFINE s == [dev EXCEPT !.fault = f]
<1>1. Good(s) /\ Seen(s) /\ s.server = "up" /\ ~s.failed
  BY BegunGood, SeenBegun DEF ScreenInv
<1>2. /\ s.mem = dev.mem /\ s.size = dev.size /\ s.mapped = dev.mapped /\ s.port = dev.port
      /\ s.fault = f
  BY DEF IInv, Sound, Device
<1> HIDE DEF s
<1>3. Neat(s)
  BY <1>2 DEF NeatInv, Neat, NeatPort, Ovl, Active
<1> QED  BY <1>1, <1>2, <1>3 DEF s

(* and when it has ended. *)
LEMMA NeatEnded ==
  ASSUME IInv, NeatInv, NEW t \in Device, Neat(t), dev' = Ended(t)
  PROVE  NeatInv'
<1>1. CASE t.server = "up"
  <2>1. dev' = [t EXCEPT !.fault = "none"]
    BY <1>1 DEF Ended
  <2>2. /\ dev'.mem = t.mem /\ dev'.size = t.size /\ dev'.mapped = t.mapped
        /\ dev'.port = t.port
    BY <2>1 DEF Device
  <2> QED  BY <1>1, <2>2 DEF NeatInv, Neat, NeatPort, Ovl, Active
<1>2. CASE t.server # "up"
  <2>1. dev' = [dev EXCEPT !.server = t.server]
    BY <1>2 DEF Ended
  <2>2. /\ dev'.mem = dev.mem /\ dev'.size = dev.size /\ dev'.mapped = dev.mapped
        /\ dev'.port = dev.port
    BY <2>1 DEF IInv, Sound, Device
  <2> QED  BY <2>2 DEF NeatInv, NeatPort, Ovl, Active
<1> QED  BY <1>1, <1>2

-----------------------------------------------------------------------------
(* So a port without an overlay has no memory. *)

(* Xv's requests keep the memory in order, *)
LEMMA XvRequestsNeat ==
  ASSUME Clones = {}, "free" \notin Faults, IInv, ScreenInv, NeatInv,
         XvPutImage \/ XvReputImage \/ XvPutVideo \/ XvStopVideo
  PROVE  NeatInv'
<1> DEFINE s(f) == [dev EXCEPT !.fault = f]
<1>0. dev.server = "up" => \A f \in Faults \cup {"none"} :
        Good(s(f)) /\ Seen(s(f)) /\ s(f).server = "up" /\ ~s(f).failed /\ Neat(s(f))
        /\ s(f).fault # "free"
  BY NeatBegun, FaultsAre
<1>a. \A t : Seen(t) => t \in Device
  BY DEF Seen, Running
<1>1. CASE XvPutImage
  <2>1. PICK v \in Ports, n \in Sizes, c \in ClipResult, moved \in BOOLEAN, f \in Faults \cup {"none"} :
          dev.server = "up" /\ dev' = Ended(PutImage(s(f), v, n, c, moved, TRUE))
    BY <1>1 DEF XvPutImage, Request, RequestUnder, Moves
  <2> HIDE DEF s
  <2> DEFINE t == PutImage(s(f), v, n, c, moved, TRUE)
  <2>2. t \in Device /\ Neat(t)
    BY <1>0, <1>a, <2>1, SeenPutImage, ClipResultIs, PutImageNeat
  <2> HIDE DEF t
  <2> QED  BY <2>1, <2>2, NeatEnded DEF t
<1>2. CASE XvReputImage
  <2>1. PICK v \in Ports, c \in ClipResult, f \in Faults \cup {"none"} :
          /\ dev.server = "up" /\ dev.size[VideoFb(v)] # 0
          /\ dev' = Ended(PutImage(s(f), v, dev.size[VideoFb(v)], c, TRUE, FALSE))
    BY <1>2 DEF XvReputImage, Request, RequestUnder
  <2> DEFINE n == dev.size[VideoFb(v)]
             t == PutImage(s(f), v, n, c, TRUE, FALSE)
  <2>2. n \in Sizes
    BY <2>1, VideoFbIs DEF IInv, Sound, Device
  <2> HIDE DEF s, n
  <2>3. t \in Device /\ Neat(t)
    BY <1>0, <1>a, <2>1, <2>2, SeenPutImage, ClipResultIs, PutImageNeat
  <2>4. dev' = Ended(t)
    BY <2>1 DEF n
  <2> HIDE DEF t
  <2> QED  BY <2>3, <2>4, NeatEnded
<1>3. CASE XvPutVideo
  <2>1. PICK v \in Ports, c \in ClipResult, moved \in BOOLEAN, f \in Faults \cup {"none"} :
          dev.server = "up" /\ dev' = Ended(PutVideo(s(f), v, c, moved))
    BY <1>3 DEF XvPutVideo, Request, RequestUnder, Moves
  <2> HIDE DEF s
  <2> DEFINE t == PutVideo(s(f), v, c, moved)
  <2>2. t \in Device /\ Neat(t)
    BY <1>0, <1>a, <2>1, SeenPutVideo, ClipResultIs, PutVideoNeat
  <2> HIDE DEF t
  <2> QED  BY <2>1, <2>2, NeatEnded DEF t
<1>4. CASE XvStopVideo
  <2>1. PICK v \in Ports, exit \in BOOLEAN, f \in Faults \cup {"none"} :
          dev.server = "up" /\ dev' = Ended(StopVideo(s(f), v, exit))
    BY <1>4 DEF XvStopVideo, Request, RequestUnder
  <2> HIDE DEF s
  <2> DEFINE t == StopVideo(s(f), v, exit)
  <2>2. t \in Device /\ Neat(t)
    BY <1>0, <1>a, <2>1, SeenStopVideo, StopVideoNeat
  <2> HIDE DEF t
  <2> QED  BY <2>1, <2>2, NeatEnded DEF t
<1> QED  BY <1>1, <1>2, <1>3, <1>4

(* so do the attributes, that of reserving apart, *)
LEMMA AttributesNeat ==
  ASSUME "reserve" \notin Attributes, IInv, ScreenInv, NeatInv,
         \/ XvSetPortAttribute \/ XvSetColorkey \/ XvSyncVideo \/ XvSetRotation
         \/ XvSetStacking \/ KeyTimerFires
  PROVE  NeatInv'
<1> DEFINE s(f) == [dev EXCEPT !.fault = f]
<1>0. dev.server = "up" => Seen(s("none")) /\ s("none").server = "up" /\ Neat(s("none"))
  BY NeatBegun, FaultsAre
<1>1. ASSUME NEW t, dev.server = "up", Seen(t), Unmoved(s("none"), t), dev' = Ended(t)
      PROVE  NeatInv'
  <2> HIDE DEF s
  <2> QED  BY <1>0, <1>1, UnmovedNeat, NeatEnded DEF Seen, Running
<1>2. CASE XvSetPortAttribute
  <2>1. PICK v \in Ports, value \in BOOLEAN :
          /\ dev.server = "up"
          /\ \/ dev' = Ended(SetClone(s("none"), v, value))
             \/ dev' = Ended(SetDisableColorkey(s("none"), v, value))
    BY <1>2 DEF XvSetPortAttribute, PlainRequest, RequestUnder
  <2> HIDE DEF s
  <2>2. /\ Seen(SetClone(s("none"), v, value)) /\ Seen(SetDisableColorkey(s("none"), v, value))
        /\ Unmoved(s("none"), SetClone(s("none"), v, value))
        /\ Unmoved(s("none"), SetDisableColorkey(s("none"), v, value))
    BY <1>0, <2>1, SeenAttributes, AttributesUnmoved DEF Seen
  <2> QED  BY <1>1, <2>1, <2>2
<1>3. CASE XvSetColorkey \/ XvSyncVideo \/ KeyTimerFires
  <2>1. PICK v \in Ports :
          /\ dev.server = "up"
          /\ \/ dev' = Ended(SetColorkey(s("none"), v))
             \/ dev' = Ended(SyncVideo(s("none"), v))
             \/ dev' = Ended(KeyTimer(s("none"), v))
    BY <1>3 DEF XvSetColorkey, XvSyncVideo, KeyTimerFires, PlainRequest, RequestUnder
  <2> HIDE DEF s
  <2>2. /\ Seen(SetColorkey(s("none"), v)) /\ Seen(SyncVideo(s("none"), v))
        /\ Seen(KeyTimer(s("none"), v))
        /\ Unmoved(s("none"), SetColorkey(s("none"), v))
        /\ Unmoved(s("none"), SyncVideo(s("none"), v))
        /\ Unmoved(s("none"), KeyTimer(s("none"), v))
    BY <1>0, <2>1, SeenAttributes, AttributesUnmoved DEF Seen
  <2> QED  BY <1>1, <2>1, <2>2
<1>4. CASE XvSetRotation
  <2>1. PICK v \in Ports, r \in Rotations :
          dev.server = "up" /\ dev' = Ended(SetRotation(s("none"), v, r))
    BY <1>4 DEF XvSetRotation, PlainRequest, RequestUnder
  <2> HIDE DEF s
  <2>2. Seen(SetRotation(s("none"), v, r)) /\ Unmoved(s("none"), SetRotation(s("none"), v, r))
    BY <1>0, <2>1, SeenAttributes, TurnUnmoved, VideoPortAssumption DEF Seen
  <2> QED  BY <1>1, <2>1, <2>2
<1>5. CASE XvSetStacking
  <2>1. PICK v \in Ports, use \in Stackings \cup {"XV"} :
          dev.server = "up" /\ dev' = Ended([s("none") EXCEPT !.port[v].stacking = use])
    BY <1>5 DEF XvSetStacking, PlainRequest, RequestUnder
  <2>2. use \in Xv
    BY VideoPortAssumption DEF Xv
  <2> HIDE DEF s
  <2>3. Seen([s("none") EXCEPT !.port[v].stacking = use])
        /\ Unmoved(s("none"), [s("none") EXCEPT !.port[v].stacking = use])
    BY <1>0, <2>1, <2>2, SeenAttributes, UnmovedFlags DEF Seen
  <2> QED  BY <1>1, <2>1, <2>3
<1> QED  BY <1>2, <1>3, <1>4, <1>5

(* and what is asked of the screen. *)
LEMMA ScreenRequestsNeat ==
  ASSUME IInv, ScreenInv, NeatInv,
         \/ RandRSetMode \/ RandRDisable \/ RandRPan \/ RandRResize
         \/ DpmsSet \/ PageFlip \/ ClientAlloc
  PROVE  NeatInv'
<1> DEFINE s(f) == [dev EXCEPT !.fault = f]
<1>0. dev.server = "up" => \A f \in Faults \cup {"none"} :
        Good(s(f)) /\ Seen(s(f)) /\ s(f).server = "up" /\ ~s(f).failed /\ Neat(s(f))
  BY NeatBegun, FaultsAre
<1>a. \A t : Seen(t) => t \in Device
  BY DEF Seen, Running
<1>1. ASSUME NEW f \in Faults \cup {"none"}, NEW t, dev.server = "up", CrtcSteps(s(f), t),
             dev' = Ended(t)
      PROVE  NeatInv'
  <2> HIDE DEF s
  <2>1. t \in Device
    BY <1>1 DEF CrtcSteps, Steps, Running
  <2>2. Neat(t)
    BY <1>0, <1>1, CrtcNeat DEF Good
  <2> QED  BY <1>1, <2>1, <2>2, NeatEnded
<1>2. CASE RandRSetMode
  <2>1. PICK c \in Crtc, r \in Rotations \cup {Rotate0}, f \in Faults \cup {"none"} :
          dev.server = "up" /\ dev' = Ended(SetCrtcMode(s(f), c, r))
    BY <1>2 DEF RandRSetMode, Request, RequestUnder
  <2>2. r \in Rotation
    BY Rotate0Type, VideoPortAssumption
  <2> HIDE DEF s
  <2> DEFINE t == SetCrtcMode(s(f), c, r)
  <2>3. t \in Device /\ Neat(t)
    BY <1>0, <1>a, <2>1, <2>2, SeenSetCrtcMode, SetCrtcModeNeat
  <2> HIDE DEF t
  <2> QED  BY <2>1, <2>3, NeatEnded DEF t
<1>3. CASE RandRDisable
  <2>1. PICK c \in Crtc, f \in Faults \cup {"none"} :
          dev.server = "up" /\ dev' = Ended(DisableCrtc(s(f), c))
    BY <1>3 DEF RandRDisable, Request, RequestUnder
  <2> HIDE DEF s
  <2>2. CrtcSteps(s(f), DisableCrtc(s(f), c))
    BY <1>0, <2>1, DisableCrtcIs DEF Seen
  <2> QED  BY <1>1, <2>1, <2>2
<1>4. CASE RandRPan
  <2>1. PICK c \in Crtc : dev.server = "up" /\ dev' = Ended(SetOrigin(s("none"), c))
    BY <1>4 DEF RandRPan, PlainRequest, RequestUnder
  <2> HIDE DEF s
  <2>2. CrtcSteps(s("none"), SetOrigin(s("none"), c))
    BY <1>0, <2>1, SetOriginIs DEF Seen
  <2> QED  BY <1>1, <2>1, <2>2
<1>5. CASE RandRResize
  <2>1. PICK n \in Sizes, f \in Faults \cup {"none"} :
          dev.server = "up" /\ dev' = Ended(ReallocFb(s(f), n))
    BY <1>5 DEF RandRResize, Request, RequestUnder
  <2> HIDE DEF s
  <2> DEFINE t == ReallocFb(s(f), n)
  <2>2. t \in Device /\ Neat(t)
    BY <1>0, <1>a, <2>1, SeenRealloc, ReallocNeat
  <2> HIDE DEF t
  <2> QED  BY <2>1, <2>2, NeatEnded DEF t
<1>6. CASE DpmsSet
  <2>1. PICK c \in Crtc, on \in BOOLEAN, f \in Faults \cup {"none"} :
          dev.server = "up" /\ dev' = Ended(SetDpms(s(f), c, on))
    BY <1>6, VideoPortAssumption DEF DpmsSet, Request, RequestUnder
  <2> HIDE DEF s
  <2>2. CrtcSteps(s(f), SetDpms(s(f), c, on))
    BY <1>0, <2>1, SetDpmsIs DEF Seen
  <2> QED  BY <1>1, <2>1, <2>2
<1>7. CASE PageFlip
  <2>1. dev.server = "up" /\ dev' = Ended(FlipCrtcs(s("none")))
    BY <1>7 DEF PageFlip, PlainRequest, RequestUnder
  <2> HIDE DEF s
  <2>2. CrtcSteps(s("none"), FlipCrtcs(s("none")))
    BY <1>0, <2>1, FlipCrtcsIs DEF Seen
  <2> QED  BY <1>1, <2>1, <2>2
<1>8. CASE ClientAlloc
  BY <1>8 DEF ClientAlloc, NeatInv, NeatPort
<1> QED  BY <1>2, <1>3, <1>4, <1>5, <1>6, <1>7, <1>8

(* So it always is. *)
LEMMA NeatInductive ==
  ASSUME Clones = {}, "reserve" \notin Attributes, "free" \notin Faults
  PROVE  Spec => []NeatInv
<1>1. IInv /\ ScreenInv /\ NeatInv /\ [Next]_dev => NeatInv'
  <2> SUFFICES ASSUME IInv, ScreenInv, NeatInv, [Next]_dev PROVE NeatInv'
    OBVIOUS
  <2>1. CASE UNCHANGED dev
    BY <2>1 DEF NeatInv, NeatPort, Ovl, Active
  <2>2. CASE Next
    BY <2>2, XvRequestsNeat, AttributesNeat, ScreenRequestsNeat DEF Next
  <2> QED  BY <2>1, <2>2
<1> QED  BY <1>1, NeatInit, ScreenInductive, PTL DEF Spec

(***************************************************************************)
(* A port that has given its overlay back has given back its memory too,   *)
(* on every path of stop_video and put_overlay, whatever step fails except *)
(* the kernel's freeing itself, which no plane stands in the way of        *)
(* (stop_video and put_overlay of omap_video.c).                           *)
(***************************************************************************)
THEOREM MemoryStaysReturned ==
  ASSUME Clones = {}, "reserve" \notin Attributes, "free" \notin Faults
  PROVE  Spec => []MemoryReturned
<1>1. NeatInv => MemoryReturned
  BY DEF NeatInv, NeatPort, MemoryReturned
<1> QED  BY <1>1, NeatInductive, PTL
=============================================================================
