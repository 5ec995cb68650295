--------------------------- MODULE VideoGeometry ---------------------------
(***************************************************************************)
(* Where a video is read, how it is turned and where it is shown           *)
(* (omap_video.c, crtc.c, omap.c): the clipping of a rotated source, the   *)
(* sum of the rotations of the Xv port and of the CRTC, the rotation and   *)
(* mirroring that the overlay is given, and the rectangle of the display.  *)
(*                                                                         *)
(* A rotation of RandR is a reflection in x or y, then a number of quarter *)
(* turns counterclockwise; the bits of the reflection are 0 or 1.  A       *)
(* rectangle is a record of its corner and its size.                       *)
(***************************************************************************)
EXTENDS Integers

CONSTANTS
  Lengths,   \* the widths and heights of images
  Overhang,  \* how far outside of an image a source may begin
  Unit       \* the X server clips in this fraction of a pixel (2^16)

ASSUME GeometryAssumption ==
  /\ Lengths \subseteq Nat \ {0}
  /\ Overhang \in Nat
  /\ Unit \in Nat \ {0}

Bit == 0 .. 1
Rotation == [quarters : 0 .. 3, x : Bit, y : Bit]
Rotate0 == [quarters |-> 0, x |-> 0, y |-> 0]

(* switch (rotation & 0xf) *)
Switch(quarters, none, once, twice, thrice) ==
  IF quarters = 0 THEN none
  ELSE IF quarters = 1 THEN once
  ELSE IF quarters = 2 THEN twice ELSE thrice

Sideways(r) == r.quarters \in {1, 3}

(* xf86ModeWidth and xf86ModeHeight: the size that is seen of a w x h. *)
ModeWidth(r, w, h) == IF Sideways(r) THEN h ELSE w
ModeHeight(r, w, h) == IF Sideways(r) THEN w ELSE h

-----------------------------------------------------------------------------
(* The source: turned to the screen, clipped there, and turned back. *)

rotate_pre_clip(r, s, w, h) ==
  LET tx == IF r.x = 1 THEN w - s.x - s.w ELSE s.x
      ty == IF r.y = 1 THEN h - s.y - s.h ELSE s.y
  IN Switch(r.quarters, [x |-> tx, y |-> ty, w |-> s.w, h |-> s.h],
               [x |-> ty, y |-> w - s.w - tx, w |-> s.h, h |-> s.w],
               [x |-> w - s.w - tx, y |-> h - s.h - ty, w |-> s.w, h |-> s.h],
               [x |-> h - s.h - ty, y |-> tx, w |-> s.h, h |-> s.w])

(* w x h is the turned image, the result belongs to the image as it is. *)
rotate_post_clip(r, s, w, h) ==
  LET u == Switch(r.quarters, s,
                  [x |-> h - s.h - s.y, y |-> s.x, w |-> s.h, h |-> s.w],
                  [x |-> w - s.w - s.x, y |-> h - s.h - s.y, w |-> s.w, h |-> s.h],
                  [x |-> s.y, y |-> w - s.w - s.x, w |-> s.h, h |-> s.w])
  IN [x |-> IF r.x = 1 THEN ModeWidth(r, w, h) - u.x - u.w ELSE u.x,
      y |-> IF r.y = 1 THEN ModeHeight(r, w, h) - u.y - u.h ELSE u.y,
      w |-> u.w, h |-> u.h]

(***************************************************************************)
(* xf86_crtc_clip_video_helper returns the part of a source that is seen,  *)
(* in units: it lies in the source and in the w x h image, and is not      *)
(* empty.                                                                  *)
(***************************************************************************)
IsSeen(xa, xb, x, w, width) ==
  /\ x * Unit =< xa /\ 0 =< xa
  /\ xa < xb
  /\ xb =< (x + w) * Unit /\ xb =< width * Unit

(* clip_image_to_fit, once the helper has answered. *)
ClippedSource(r, xa, xb, ya, yb, w, h) ==
  rotate_post_clip(r, [x |-> xa \div Unit, y |-> ya \div Unit,
                       w |-> (xb - xa) \div Unit, h |-> (yb - ya) \div Unit],
                   ModeWidth(r, w, h), ModeHeight(r, w, h))

-----------------------------------------------------------------------------
(* The rotation of the overlay. *)

(* update_rotation; crtc is Rotate0 when the display itself can turn. *)
update_rotation(xv, crtc) ==
  [quarters |-> (xv.quarters + crtc.quarters) % 4,
   x |-> (xv.x + (IF Sideways(xv) THEN crtc.y ELSE crtc.x)) % 2,
   y |-> (xv.y + (IF Sideways(xv) THEN crtc.x ELSE crtc.y)) % 2]

(* omap mirrors after it has rotated, *)
fbdev_rr_to_omap_mirror(r) ==
  [horz |-> IF Sideways(r) THEN r.y ELSE r.x, vert |-> IF Sideways(r) THEN r.x ELSE r.y]

(* and rotates clockwise. *)
fbdev_rr_to_omap_rotate(r) == (4 - r.quarters) % 4

(* omap_overlay_setup and omap_output_check know no vertical mirror. *)
HorizontalOnly(mirror, rotate) ==
  IF mirror.vert = 1 THEN [rotate |-> (rotate + 2) % 4, mirror |-> 1 - mirror.horz]
  ELSE [rotate |-> rotate, mirror |-> mirror.horz]

OmapSetup(r) == HorizontalOnly(fbdev_rr_to_omap_mirror(r), fbdev_rr_to_omap_rotate(r))

(* fbdev_output_check_rotation: can the display turn the picture itself? *)
CanTurn(display, r) ==
  /\ OmapSetup(r).mirror = 1 => display.mirror
  /\ OmapSetup(r).rotate # 0 => display.rotate

(* The rotation that is left to the overlay. *)
LeftToOverlay(display, crtc) == IF CanTurn(display, crtc) THEN Rotate0 ELSE crtc

-----------------------------------------------------------------------------
(* The rectangle of the display. *)

(***************************************************************************)
(* fbdev_crtc_output_coords before scaling: b is a box of the CRTC whose   *)
(* mode has hdisplay x vdisplay pixels.                                    *)
(***************************************************************************)
OutputBox(r, b, hdisplay, vdisplay) ==
  LET tx == IF r.x = 1 THEN ModeWidth(r, hdisplay, vdisplay) - b.x - b.w ELSE b.x
      ty == IF r.y = 1 THEN ModeHeight(r, hdisplay, vdisplay) - b.y - b.h ELSE b.y
  IN Switch(r.quarters, [x |-> tx, y |-> ty, w |-> b.w, h |-> b.h],
               [x |-> ty, y |-> vdisplay - tx - b.w, w |-> b.h, h |-> b.w],
               [x |-> hdisplay - tx - b.w, y |-> vdisplay - ty - b.h, w |-> b.w, h |-> b.h],
               [x |-> hdisplay - ty - b.h, y |-> tx, w |-> b.h, h |-> b.w])

(* And scaled: the sw x sh of the CRTC are shown in the rectangle d. *)
fbdev_crtc_output_coords(r, b, hdisplay, vdisplay, sw, sh, d) ==
  LET u == OutputBox(r, b, hdisplay, vdisplay)
      across == ModeWidth(r, sw, sh)
      down == ModeHeight(r, sw, sh)
  IN [x |-> ((u.x * d.w) \div across) + d.x, y |-> ((u.y * d.h) \div down) + d.y,
      w |-> (u.w * d.w) \div across, h |-> (u.h * d.h) \div down]

(* output_calc: the mode is centred on the display. *)
output_calc(r, hdisp, vdisp, w, h) ==
  LET cx == (hdisp - w) \div 2
      cy == (vdisp - h) \div 2
      x == IF (IF Sideways(r) THEN r.y ELSE r.x) = 1 THEN hdisp - cx - w ELSE cx
      y == IF (IF Sideways(r) THEN r.x ELSE r.y) = 1 THEN vdisp - cy - h ELSE cy
  IN Switch(r.quarters, [x |-> x, y |-> y, w |-> w, h |-> h],
               [x |-> vdisp - y - h, y |-> x, w |-> h, h |-> w],
               [x |-> hdisp - x - w, y |-> vdisp - y - h, w |-> w, h |-> h],
               [x |-> y, y |-> hdisp - x - w, w |-> h, h |-> w])

-----------------------------------------------------------------------------
(* What the rotations mean, for a point of a w x h picture. *)

(* RandR: the picture is reflected, then turned counterclockwise. *)
Turned(r, w, h, x, y) ==
  LET fx == IF r.x = 1 THEN w - x ELSE x
      fy == IF r.y = 1 THEN h - y ELSE y
  IN Switch(r.quarters, <<fx, fy>>,
               <<fy, w - fx>>,
               <<w - fx, h - fy>>,
               <<h - fy, fx>>)

(* The overlay: the picture is turned clockwise, then mirrored. *)
Scanned(setup, w, h, x, y) ==
  LET p == Switch(setup.rotate, <<x, y>>,
                  <<h - y, x>>,
                  <<w - x, h - y>>,
                  <<y, w - x>>)
      across == IF setup.rotate \in {1, 3} THEN h ELSE w
  IN IF setup.mirror = 1 THEN <<across - p[1], p[2]>> ELSE p

(* s lies in the rectangle b. *)
Within(s, b) ==
  /\ b.x =< s.x /\ s.x + s.w =< b.x + b.w /\ 0 =< s.w
  /\ b.y =< s.y /\ s.y + s.h =< b.y + b.h /\ 0 =< s.h

(***************************************************************************)
(* The overlay shows every point of the image where the rotation of the    *)
(* port, and after it that of the CRTC, take it, whichever of the rotation *)
(* is left to the overlay ("Add up Xv and CRTC rotations",                 *)
(* update_rotation of omap_video.c).                                       *)
(***************************************************************************)
RotationsAddUp ==
  \A xv, crtc \in Rotation, w, h \in Lengths : \A x \in 0 .. w, y \in 0 .. h :
    LET p == Turned(xv, w, h, x, y) IN
    Scanned(OmapSetup(update_rotation(xv, crtc)), w, h, x, y)
      = Turned(crtc, ModeWidth(xv, w, h), ModeHeight(xv, w, h), p[1], p[2])

(***************************************************************************)
(* Whatever the rotation and the clipping, the overlay is told to read     *)
(* only pixels of the image, and only pixels of the source that the client *)
(* asked for (clip_image_to_fit of omap_video.c).                          *)
(***************************************************************************)
ReadsTheImage ==
  \A r \in Rotation, w, h \in Lengths :
    \A s \in [x : -Overhang .. Overhang, y : -Overhang .. Overhang, w : Lengths, h : Lengths] :
      LET width == ModeWidth(r, w, h)
          height == ModeHeight(r, w, h)
          t == rotate_pre_clip(r, s, w, h)
      IN \A xa, xb \in 0 .. width * Unit, ya, yb \in 0 .. height * Unit :
           IsSeen(xa, xb, t.x, t.w, width) /\ IsSeen(ya, yb, t.y, t.h, height)
             => /\ Within(ClippedSource(r, xa, xb, ya, yb, w, h), s)
                /\ Within(ClippedSource(r, xa, xb, ya, yb, w, h),
                          [x |-> 0, y |-> 0, w |-> w, h |-> h])
=============================================================================
