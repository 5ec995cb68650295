------------------------ MODULE VideoGeometryProofs ------------------------
(***************************************************************************)
(* The geometry of a video for every size of image, display and source,    *)
(* and of the picture of a TV.                                             *)
(***************************************************************************)
EXTENDS VideoGeometry, TvOut, TLAPS

-----------------------------------------------------------------------------
(* Products and quotients. *)

(* Division rounds down. *)
LEMMA QuotientBounds ==
  ASSUME NEW a \in Int, NEW k \in Nat \ {0}
  PROVE  /\ a \div k \in Int
         /\ (a \div k) * k =< a
         /\ a < (a \div k) * k + k
  OBVIOUS

(* A product is compared by its other factor. *)
LEMMA ProductMonotone ==
  ASSUME NEW m \in Int, NEW n \in Int, NEW k \in Nat \ {0}, m * k < n * k + k
  PROVE  m =< n
  <1>1. CASE m > n
    <2>1. (m - n - 1) * k >= 0
      BY <1>1
    <2> QED  BY <2>1
  <1> QED  BY <1>1

(* A whole number of units that is not above a is not above its quotient. *)
LEMMA QuotientFromBelow ==
  ASSUME NEW a \in Int, NEW m \in Int, NEW k \in Nat \ {0}, m * k =< a
  PROVE  m =< a \div k
  BY QuotientBounds, ProductMonotone

LEMMA QuotientFromAbove ==
  ASSUME NEW a \in Int, NEW m \in Int, NEW k \in Nat \ {0}, a =< m * k
  PROVE  a \div k =< m
  <1>1. (a \div k) * k < m * k + k
    BY QuotientBounds
  <1> QED  BY <1>1, QuotientBounds, ProductMonotone

(* Two parts, each rounded down, are no longer than the whole. *)
LEMMA QuotientsAdd ==
  ASSUME NEW a \in Int, NEW b \in Int, NEW k \in Nat \ {0}
  PROVE  (a \div k) + (b \div k) =< (a + b) \div k
  <1>1. ((a \div k) + (b \div k)) * k = (a \div k) * k + (b \div k) * k
    BY QuotientBounds
  <1>2. ((a \div k) + (b \div k)) * k =< a + b
    BY <1>1, QuotientBounds
  <1> QED  BY <1>2, QuotientBounds, QuotientFromBelow

-----------------------------------------------------------------------------
(* Rotations. *)

(***************************************************************************)
(* Rotating clockwise and mirroring horizontally afterwards, as            *)
(* fbdev_rr_to_omap_rotate, fbdev_rr_to_omap_mirror and omap_overlay_setup *)
(* choose it, is the rotation of RandR.                                    *)
(***************************************************************************)
LEMMA SetupTurns ==
  ASSUME NEW r \in Rotation, NEW w \in Int, NEW h \in Int, NEW x \in Int, NEW y \in Int
  PROVE  Scanned(OmapSetup(r), w, h, x, y) = Turned(r, w, h, x, y)
  <1> USE DEF Rotation, Bit, OmapSetup, HorizontalOnly, fbdev_rr_to_omap_mirror,
              fbdev_rr_to_omap_rotate, Scanned, Turned, Sideways, Switch
  <1>0. CASE r.quarters = 0
    BY <1>0
  <1>1. CASE r.quarters = 1
    BY <1>1
  <1>2. CASE r.quarters = 2
    BY <1>2
  <1>3. CASE r.quarters = 3
    BY <1>3
  <1>4. r.quarters \in {0, 1, 2, 3}
    OBVIOUS
  <1> HIDE DEF OmapSetup, Scanned, Turned, Rotation
  <1> QED  BY <1>0, <1>1, <1>2, <1>3, <1>4

(***************************************************************************)
(* The sum of two rotations turns a point as the first and then the second *)
(* do: a reflection that follows a quarter turn is the reflection in the   *)
(* other direction that precedes it.                                       *)
(***************************************************************************)
LEMMA RotationsAdd ==
  ASSUME NEW xv \in Rotation, NEW crtc \in Rotation,
         NEW w \in Int, NEW h \in Int, NEW x \in Int, NEW y \in Int
  PROVE  LET p == Turned(xv, w, h, x, y) IN
         Turned(update_rotation(xv, crtc), w, h, x, y)
           = Turned(crtc, ModeWidth(xv, w, h), ModeHeight(xv, w, h), p[1], p[2])
  <1> USE DEF Rotation, Bit, update_rotation, Turned, ModeWidth, ModeHeight, Sideways, Switch
  <1>0. CASE xv.quarters = 0
    BY <1>0
  <1>1. CASE xv.quarters = 1
    BY <1>1
  <1>2. CASE xv.quarters = 2
    BY <1>2
  <1>3. CASE xv.quarters = 3
    BY <1>3
  <1>4. xv.quarters \in {0, 1, 2, 3}
    OBVIOUS
  <1> HIDE DEF update_rotation, Turned, ModeWidth, ModeHeight, Rotation
  <1> QED  BY <1>0, <1>1, <1>2, <1>3, <1>4

(***************************************************************************)
(* For images of every size the overlay shows every point where the        *)
(* rotations of port and CRTC take it (update_rotation).                   *)
(***************************************************************************)
THEOREM OverlayUpright == RotationsAddUp
  <1> SUFFICES ASSUME NEW xv \in Rotation, NEW crtc \in Rotation,
                      NEW w \in Lengths, NEW h \in Lengths, NEW x \in 0 .. w, NEW y \in 0 .. h
               PROVE  LET p == Turned(xv, w, h, x, y) IN
                      Scanned(OmapSetup(update_rotation(xv, crtc)), w, h, x, y)
                        = Turned(crtc, ModeWidth(xv, w, h), ModeHeight(xv, w, h), p[1], p[2])
    BY DEF RotationsAddUp
  <1>1. w \in Int /\ h \in Int /\ x \in Int /\ y \in Int
    BY GeometryAssumption
  <1>2. update_rotation(xv, crtc) \in Rotation
    BY DEF update_rotation, Rotation, Bit, Sideways
  <1> QED  BY <1>1, <1>2, SetupTurns, RotationsAdd

-----------------------------------------------------------------------------
(* Sources. *)

(***************************************************************************)
(* A part that is inside of a turned source is inside of the source after  *)
(* it has been turned back.                                                *)
(***************************************************************************)
LEMMA TurnedBackWithin ==
  ASSUME NEW r \in Rotation, NEW w \in Int, NEW h \in Int,
         NEW s \in [x : Int, y : Int, w : Int, h : Int],
         NEW u \in [x : Int, y : Int, w : Int, h : Int],
         Within(u, rotate_pre_clip(r, s, w, h))
  PROVE  Within(rotate_post_clip(r, u, ModeWidth(r, w, h), ModeHeight(r, w, h)), s)
  <1> DEFINE tx == IF r.x = 1 THEN w - s.x - s.w ELSE s.x
             ty == IF r.y = 1 THEN h - s.y - s.h ELSE s.y
             t == rotate_pre_clip(r, s, w, h)
             b == rotate_post_clip(r, u, ModeWidth(r, w, h), ModeHeight(r, w, h))
  <1>a. s.x \in Int /\ s.y \in Int /\ s.w \in Int /\ s.h \in Int
    OBVIOUS
  <1>b. u.x \in Int /\ u.y \in Int /\ u.w \in Int /\ u.h \in Int
    OBVIOUS
  <1>c. /\ t.x =< u.x /\ u.x + u.w =< t.x + t.w /\ 0 =< u.w
        /\ t.y =< u.y /\ u.y + u.h =< t.y + t.h /\ 0 =< u.h
    BY DEF Within
  <1>d. SUFFICES /\ s.x =< b.x /\ b.x + b.w =< s.x + s.w /\ 0 =< b.w
                 /\ s.y =< b.y /\ b.y + b.h =< s.y + s.h /\ 0 =< b.h
    BY DEF Within
  <1>0. CASE r.quarters = 0
    <2>1. t.x = tx /\ t.y = ty /\ t.w = s.w /\ t.h = s.h
      BY <1>0 DEF rotate_pre_clip, Switch
    <2>2. /\ b.x = IF r.x = 1 THEN w - u.x - u.w ELSE u.x
          /\ b.y = IF r.y = 1 THEN h - u.y - u.h ELSE u.y
          /\ b.w = u.w /\ b.h = u.h
      BY <1>0 DEF rotate_post_clip, Switch, ModeWidth, ModeHeight, Sideways
    <2> HIDE DEF t, b
    <2> QED  BY <1>a, <1>b, <1>c, <2>1, <2>2
  <1>1. CASE r.quarters = 1
    <2>1. t.x = ty /\ t.y = w - s.w - tx /\ t.w = s.h /\ t.h = s.w
      BY <1>1 DEF rotate_pre_clip, Switch
    <2>2. /\ b.x = IF r.x = 1 THEN w - (w - u.h - u.y) - u.h ELSE w - u.h - u.y
          /\ b.y = IF r.y = 1 THEN h - u.x - u.w ELSE u.x
          /\ b.w = u.h /\ b.h = u.w
      BY <1>1 DEF rotate_post_clip, Switch, ModeWidth, ModeHeight, Sideways
    <2> HIDE DEF t, b
    <2> QED  BY <1>a, <1>b, <1>c, <2>1, <2>2
  <1>2. CASE r.quarters = 2
    <2>1. t.x = w - s.w - tx /\ t.y = h - s.h - ty /\ t.w = s.w /\ t.h = s.h
      BY <1>2 DEF rotate_pre_clip, Switch
    <2>2. /\ b.x = IF r.x = 1 THEN w - (w - u.w - u.x) - u.w ELSE w - u.w - u.x
          /\ b.y = IF r.y = 1 THEN h - (h - u.h - u.y) - u.h ELSE h - u.h - u.y
          /\ b.w = u.w /\ b.h = u.h
      BY <1>2 DEF rotate_post_clip, Switch, ModeWidth, ModeHeight, Sideways
    <2> HIDE DEF t, b
    <2> QED  BY <1>a, <1>b, <1>c, <2>1, <2>2
  <1>3. CASE r.quarters = 3
    <2>1. t.x = h - s.h - ty /\ t.y = tx /\ t.w = s.h /\ t.h = s.w
      BY <1>3 DEF rotate_pre_clip, Switch
    <2>2. /\ b.x = IF r.x = 1 THEN w - u.y - u.h ELSE u.y
          /\ b.y = IF r.y = 1 THEN h - (h - u.w - u.x) - u.w ELSE h - u.w - u.x
          /\ b.w = u.h /\ b.h = u.w
      BY <1>3 DEF rotate_post_clip, Switch, ModeWidth, ModeHeight, Sideways
    <2> HIDE DEF t, b
    <2> QED  BY <1>a, <1>b, <1>c, <2>1, <2>2
  <1>4. r.quarters \in {0, 1, 2, 3}
    BY DEF Rotation
  <1> QED  BY <1>0, <1>1, <1>2, <1>3, <1>4

(* A turned image begins at 0 and has the size that RandR gives it. *)
LEMMA TurnedImage ==
  ASSUME NEW r \in Rotation, NEW w \in Int, NEW h \in Int
  PROVE  rotate_pre_clip(r, [x |-> 0, y |-> 0, w |-> w, h |-> h], w, h)
           = [x |-> 0, y |-> 0, w |-> ModeWidth(r, w, h), h |-> ModeHeight(r, w, h)]
  BY DEF Rotation, Bit, rotate_pre_clip, ModeWidth, ModeHeight, Sideways, Switch

(* Rounding a part that is seen to whole pixels keeps it where it may be. *)
LEMMA SeenWithin ==
  ASSUME NEW xa \in Int, NEW xb \in Int, NEW x \in Int, NEW w \in Int, NEW width \in Int,
         IsSeen(xa, xb, x, w, width)
  PROVE  /\ x =< xa \div Unit /\ 0 =< xa \div Unit /\ 0 =< (xb - xa) \div Unit
         /\ (xa \div Unit) + ((xb - xa) \div Unit) =< x + w
         /\ (xa \div Unit) + ((xb - xa) \div Unit) =< width
  <1>0. Unit \in Nat \ {0}
    BY GeometryAssumption
  <1>1. x * Unit =< xa /\ xb =< (x + w) * Unit /\ xb =< width * Unit
        /\ 0 * Unit =< xa /\ 0 * Unit =< xb - xa
    BY <1>0 DEF IsSeen
  <1>2. x =< xa \div Unit
    BY <1>0, <1>1, QuotientFromBelow
  <1>3. 0 =< xa \div Unit
    BY <1>0, <1>1, QuotientFromBelow
  <1>4. 0 =< (xb - xa) \div Unit
    <2>1. xb - xa \in Int /\ 0 \in Int
      OBVIOUS
    <2> QED  BY <1>0, <1>1, <2>1, QuotientFromBelow
  <1>5. xb \div Unit =< x + w
    <2>1. x + w \in Int
      OBVIOUS
    <2> QED  BY <1>0, <1>1, <2>1, QuotientFromAbove
  <1>6. xb \div Unit =< width
    BY <1>0, <1>1, QuotientFromAbove
  <1>7. (xa \div Unit) + ((xb - xa) \div Unit) =< xb \div Unit
    <2>1. xb - xa \in Int /\ xa + (xb - xa) = xb
      OBVIOUS
    <2> QED  BY <1>0, <2>1, QuotientsAdd
  <1>8. xa \div Unit \in Int /\ xb \div Unit \in Int /\ (xb - xa) \div Unit \in Int
    BY <1>0
  <1> QED  BY <1>2, <1>3, <1>4, <1>5, <1>6, <1>7, <1>8

(***************************************************************************)
(* For every image, source and clipping, and whatever the unit of the X    *)
(* server, the overlay reads pixels of the image and of the source         *)
(* (clip_image_to_fit).                                                    *)
(***************************************************************************)
THEOREM SourceInImage == ReadsTheImage
  <1> SUFFICES ASSUME NEW r \in Rotation, NEW w \in Lengths, NEW h \in Lengths,
                      NEW s \in [x : -Overhang .. Overhang, y : -Overhang .. Overhang,
                                 w : Lengths, h : Lengths],
                      NEW xa \in 0 .. ModeWidth(r, w, h) * Unit,
                      NEW xb \in 0 .. ModeWidth(r, w, h) * Unit,
                      NEW ya \in 0 .. ModeHeight(r, w, h) * Unit,
                      NEW yb \in 0 .. ModeHeight(r, w, h) * Unit,
                      IsSeen(xa, xb, rotate_pre_clip(r, s, w, h).x,
                             rotate_pre_clip(r, s, w, h).w, ModeWidth(r, w, h)),
                      IsSeen(ya, yb, rotate_pre_clip(r, s, w, h).y,
                             rotate_pre_clip(r, s, w, h).h, ModeHeight(r, w, h))
               PROVE  /\ Within(ClippedSource(r, xa, xb, ya, yb, w, h), s)
                      /\ Within(ClippedSource(r, xa, xb, ya, yb, w, h),
                                [x |-> 0, y |-> 0, w |-> w, h |-> h])
    BY DEF ReadsTheImage
  <1> DEFINE u == [x |-> xa \div Unit, y |-> ya \div Unit,
                   w |-> (xb - xa) \div Unit, h |-> (yb - ya) \div Unit]
             t == rotate_pre_clip(r, s, w, h)
             image == [x |-> 0, y |-> 0, w |-> w, h |-> h]
  <1>1. w \in Int /\ h \in Int /\ s \in [x : Int, y : Int, w : Int, h : Int]
        /\ xa \in Int /\ xb \in Int /\ ya \in Int /\ yb \in Int
    <2>1. Lengths \subseteq Int /\ -Overhang .. Overhang \subseteq Int
      BY GeometryAssumption
    <2>2. xa \in Int /\ xb \in Int /\ ya \in Int /\ yb \in Int
      OBVIOUS
    <2> QED  BY <2>1, <2>2
  <1>2. /\ t.x \in Int /\ t.y \in Int /\ t.w \in Int /\ t.h \in Int
        /\ ModeWidth(r, w, h) \in Int /\ ModeHeight(r, w, h) \in Int
    BY <1>1 DEF Rotation, Bit, rotate_pre_clip, ModeWidth, ModeHeight, Sideways, Switch
  <1>3. u \in [x : Int, y : Int, w : Int, h : Int]
    BY <1>1, GeometryAssumption, QuotientBounds
  <1>4. /\ t.x =< u.x /\ 0 =< u.x /\ 0 =< u.w
        /\ u.x + u.w =< t.x + t.w /\ u.x + u.w =< ModeWidth(r, w, h)
    BY <1>1, <1>2, SeenWithin
  <1>5. /\ t.y =< u.y /\ 0 =< u.y /\ 0 =< u.h
        /\ u.y + u.h =< t.y + t.h /\ u.y + u.h =< ModeHeight(r, w, h)
    BY <1>1, <1>2, SeenWithin
  <1>6. Within(u, t)
    BY <1>4, <1>5 DEF Within
  <1>7. Within(u, rotate_pre_clip(r, image, w, h))
    <2>1. rotate_pre_clip(r, image, w, h)
            = [x |-> 0, y |-> 0, w |-> ModeWidth(r, w, h), h |-> ModeHeight(r, w, h)]
      BY <1>1, TurnedImage
    <2>2. Within(u, [x |-> 0, y |-> 0, w |-> ModeWidth(r, w, h), h |-> ModeHeight(r, w, h)])
      BY <1>2, <1>4, <1>5 DEF Within
    <2> QED  BY <2>1, <2>2
  <1>8. ClippedSource(r, xa, xb, ya, yb, w, h)
          = rotate_post_clip(r, u, ModeWidth(r, w, h), ModeHeight(r, w, h))
    BY DEF ClippedSource
  <1>9. image \in [x : Int, y : Int, w : Int, h : Int]
    BY <1>1
  <1> HIDE DEF u, image
  <1> QED  BY <1>1, <1>3, <1>6, <1>7, <1>8, <1>9, TurnedBackWithin DEF image

-----------------------------------------------------------------------------
(* Displays. *)

(* s and b in records of integers. *)
Rectangle == [x : Int, y : Int, w : Int, h : Int]

(* The size of the display is that of the CRTC, turned. *)
LEMMA OutputBoxWithin ==
  ASSUME NEW r \in Rotation, NEW hdisplay \in Int, NEW vdisplay \in Int, NEW b \in Rectangle,
         Within(b, [x |-> 0, y |-> 0, w |-> ModeWidth(r, hdisplay, vdisplay),
                    h |-> ModeHeight(r, hdisplay, vdisplay)])
  PROVE  /\ OutputBox(r, b, hdisplay, vdisplay) \in Rectangle
         /\ Within(OutputBox(r, b, hdisplay, vdisplay),
                   [x |-> 0, y |-> 0, w |-> hdisplay, h |-> vdisplay])
  <1> USE DEF Rotation, Bit, Rectangle, OutputBox, Within, ModeWidth, ModeHeight, Sideways,
              Switch
  <1>0. CASE r.quarters = 0
    BY <1>0
  <1>1. CASE r.quarters = 1
    BY <1>1
  <1>2. CASE r.quarters = 2
    BY <1>2
  <1>3. CASE r.quarters = 3
    BY <1>3
  <1>4. r.quarters \in {0, 1, 2, 3}
    OBVIOUS
  <1> HIDE DEF OutputBox, Within, ModeWidth, ModeHeight, Rotation, Rectangle
  <1> QED  BY <1>0, <1>1, <1>2, <1>3, <1>4

(***************************************************************************)
(* The two corners of a box of the CRTC go where RandR's rotation takes    *)
(* them: one becomes the near, the other the far corner in each direction  *)
(* (fbdev_crtc_output_coords, before scaling).                             *)
(***************************************************************************)
THEOREM OutputBoxTurned ==
  ASSUME NEW r \in Rotation, NEW hdisplay \in Int, NEW vdisplay \in Int, NEW b \in Rectangle
  PROVE  LET w == ModeWidth(r, hdisplay, vdisplay)
             h == ModeHeight(r, hdisplay, vdisplay)
             u == OutputBox(r, b, hdisplay, vdisplay)
             p == Turned(r, w, h, b.x, b.y)
             q == Turned(r, w, h, b.x + b.w, b.y + b.h)
         IN /\ {p[1], q[1]} = {u.x, u.x + u.w}
            /\ {p[2], q[2]} = {u.y, u.y + u.h}
  <1> USE DEF Rotation, Bit, Rectangle, OutputBox, Turned, ModeWidth, ModeHeight, Sideways,
              Switch
  <1>0. CASE r.quarters = 0
    BY <1>0
  <1>1. CASE r.quarters = 1
    BY <1>1
  <1>2. CASE r.quarters = 2
    BY <1>2
  <1>3. CASE r.quarters = 3
    BY <1>3
  <1>4. r.quarters \in {0, 1, 2, 3}
    OBVIOUS
  <1> HIDE DEF OutputBox, Turned, ModeWidth, ModeHeight, Rotation, Rectangle
  <1> QED  BY <1>0, <1>1, <1>2, <1>3, <1>4

(* An interval within 0 .. n that is scaled by m / n lies within 0 .. m. *)
LEMMA ScaledWithin ==
  ASSUME NEW x \in Int, NEW w \in Int, NEW n \in Nat \ {0}, NEW m \in Nat,
         0 =< x, 0 =< w, x + w =< n
  PROVE  /\ 0 =< (x * m) \div n
         /\ 0 =< (w * m) \div n
         /\ (x * m) \div n + (w * m) \div n =< m
  <1>1. x * m \in Int /\ w * m \in Int /\ m \in Int /\ 0 \in Int /\ n * m \in Int
    OBVIOUS
  <1>2. 0 * n =< x * m /\ 0 * n =< w * m
    OBVIOUS
  <1>3. x * m + w * m = (x + w) * m
    OBVIOUS
  <1>4. (x + w) * m =< n * m
    <2>1. 0 =< (n - (x + w)) * m
      OBVIOUS
    <2> QED  BY <2>1
  <1>5. x * m + w * m \in Int /\ x * m + w * m =< m * n
    BY <1>1, <1>3, <1>4
  <1>6. (x * m + w * m) \div n =< m
    BY <1>1, <1>5, QuotientFromAbove
  <1>7. (x * m) \div n + (w * m) \div n =< (x * m + w * m) \div n
    BY <1>1, QuotientsAdd
  <1>8. 0 =< (x * m) \div n /\ 0 =< (w * m) \div n
    BY <1>1, <1>2, QuotientFromBelow
  <1>9. /\ (x * m) \div n \in Int /\ (w * m) \div n \in Int
        /\ (x * m + w * m) \div n \in Int
    BY <1>1, <1>5
  <1> QED  BY <1>6, <1>7, <1>8, <1>9

(***************************************************************************)
(* A video that is clipped to its CRTC is shown inside of the rectangle of *)
(* the display in which the CRTC is shown, however that is scaled          *)
(* (fbdev_crtc_output_coords): the overlay never leaves the display.       *)
(***************************************************************************)
THEOREM OutputOnDisplay ==
  ASSUME NEW r \in Rotation, NEW hdisplay \in Nat \ {0}, NEW vdisplay \in Nat \ {0},
         NEW b \in Rectangle, NEW d \in [x : Nat, y : Nat, w : Nat, h : Nat],
         Within(b, [x |-> 0, y |-> 0, w |-> ModeWidth(r, hdisplay, vdisplay),
                    h |-> ModeHeight(r, hdisplay, vdisplay)])
  PROVE  Within(fbdev_crtc_output_coords(r, b, hdisplay, vdisplay,
                                         ModeWidth(r, hdisplay, vdisplay),
                                         ModeHeight(r, hdisplay, vdisplay), d), d)
  <1> DEFINE u == OutputBox(r, b, hdisplay, vdisplay)
  <1>1. /\ ModeWidth(r, ModeWidth(r, hdisplay, vdisplay), ModeHeight(r, hdisplay, vdisplay))
             = hdisplay
        /\ ModeHeight(r, ModeWidth(r, hdisplay, vdisplay), ModeHeight(r, hdisplay, vdisplay))
             = vdisplay
    BY DEF ModeWidth, ModeHeight
  <1>2. /\ u \in Rectangle
        /\ Within(u, [x |-> 0, y |-> 0, w |-> hdisplay, h |-> vdisplay])
    BY OutputBoxWithin
  <1> HIDE DEF u
  <1>3. /\ u.x \in Int /\ u.y \in Int /\ u.w \in Int /\ u.h \in Int
        /\ 0 =< u.x /\ 0 =< u.w /\ u.x + u.w =< hdisplay
        /\ 0 =< u.y /\ 0 =< u.h /\ u.y + u.h =< vdisplay
    BY <1>2 DEF Within, Rectangle
  <1>4. d.x \in Int /\ d.y \in Int /\ d.w \in Nat /\ d.h \in Nat
    OBVIOUS
  <1>5. /\ 0 =< (u.x * d.w) \div hdisplay /\ 0 =< (u.w * d.w) \div hdisplay
        /\ (u.x * d.w) \div hdisplay + (u.w * d.w) \div hdisplay =< d.w
    BY <1>3, <1>4, ScaledWithin
  <1>6. /\ 0 =< (u.y * d.h) \div vdisplay /\ 0 =< (u.h * d.h) \div vdisplay
        /\ (u.y * d.h) \div vdisplay + (u.h * d.h) \div vdisplay =< d.h
    BY <1>3, <1>4, ScaledWithin
  <1>7. fbdev_crtc_output_coords(r, b, hdisplay, vdisplay, ModeWidth(r, hdisplay, vdisplay),
                                 ModeHeight(r, hdisplay, vdisplay), d)
          = [x |-> ((u.x * d.w) \div hdisplay) + d.x, y |-> ((u.y * d.h) \div vdisplay) + d.y,
             w |-> (u.w * d.w) \div hdisplay, h |-> (u.h * d.h) \div vdisplay]
    BY <1>1 DEF fbdev_crtc_output_coords, u
  <1>8. /\ (u.x * d.w) \div hdisplay \in Int /\ (u.w * d.w) \div hdisplay \in Int
        /\ (u.y * d.h) \div vdisplay \in Int /\ (u.h * d.h) \div vdisplay \in Int
    BY <1>3, <1>4
  <1> QED  BY <1>4, <1>5, <1>6, <1>7, <1>8 DEF Within

(***************************************************************************)
(* A mode that is not larger than the display is shown inside of it,       *)
(* whether the display turns it or not (output_calc).                      *)
(***************************************************************************)
THEOREM ModeOnDisplay ==
  ASSUME NEW r \in Rotation, NEW hdisp \in Nat, NEW vdisp \in Nat,
         NEW w \in 0 .. hdisp, NEW h \in 0 .. vdisp
  PROVE  Within(output_calc(r, hdisp, vdisp, w, h),
                [x |-> 0, y |-> 0, w |-> ModeWidth(r, hdisp, vdisp),
                 h |-> ModeHeight(r, hdisp, vdisp)])
  <1> USE DEF Rotation, Bit, output_calc, Within, ModeWidth, ModeHeight, Sideways, Switch
  <1>0. CASE r.quarters = 0
    BY <1>0
  <1>1. CASE r.quarters = 1
    BY <1>1
  <1>2. CASE r.quarters = 2
    BY <1>2
  <1>3. CASE r.quarters = 3
    BY <1>3
  <1>4. r.quarters \in {0, 1, 2, 3}
    OBVIOUS
  <1> HIDE DEF output_calc, Within, ModeWidth, ModeHeight, Rotation
  <1> QED  BY <1>0, <1>1, <1>2, <1>3, <1>4

-----------------------------------------------------------------------------
(***************************************************************************)
(* The picture of the TV stays on the display, as long as its width can be *)
(* computed.                                                               *)
(***************************************************************************)

(* A picture that is no larger than the display is put on the display. *)
LEMMA CentredOnDisplay ==
  ASSUME NEW max \in Nat, NEW size \in 0 .. max, NEW offset \in Nat
  PROVE  /\ Centred(size, max, offset) \in Nat
         /\ Centred(size, max, offset) + size =< max
  BY DEF Centred

(* TVScale only makes a picture smaller. *)
LEMMA ScaleShrinks ==
  ASSUME NEW n \in Nat, NEW scale \in 0 .. 100
  PROVE  (n * scale) \div 100 \in 0 .. n
  <1>1. n * scale \in Int /\ 100 \in Nat \ {0} /\ 0 \in Int /\ n \in Int
    OBVIOUS
  <1>2. 0 * 100 =< n * scale /\ n * scale =< n * 100
    <2>1. 0 =< n * scale /\ 0 =< n * (100 - scale)
      OBVIOUS
    <2> QED  BY <2>1
  <1>3. 0 =< (n * scale) \div 100
    BY <1>1, <1>2, QuotientFromBelow
  <1>4. (n * scale) \div 100 =< n
    BY <1>1, <1>2, QuotientFromAbove
  <1> QED  BY <1>1, <1>3, <1>4

(* A picture that is too wide is scaled down to the width of the display. *)
LEMMA ScaledDownFits ==
  ASSUME NEW width \in Nat, NEW max \in [w : Nat, h : Nat]
  PROVE  /\ ScaledDown(width, max).w \in 0 .. max.w
         /\ ScaledDown(width, max).h \in 0 .. max.h
  <1>1. max.w \in Nat /\ max.h \in Nat
    OBVIOUS
  <1>2. CASE width > max.w
    <2>1. width \in Nat \ {0} /\ max.h * max.w \in Int /\ 0 \in Int /\ max.h \in Int
      BY <1>1, <1>2
    <2>2. 0 * width =< max.h * max.w /\ max.h * max.w =< max.h * width
      <3>1. 0 =< max.h * max.w /\ 0 =< max.h * (width - max.w)
        BY <1>1, <1>2
      <3> QED  BY <1>1, <3>1
    <2>3. 0 =< (max.h * max.w) \div width
      BY <2>1, <2>2, QuotientFromBelow
    <2>4. (max.h * max.w) \div width =< max.h
      BY <2>1, <2>2, QuotientFromAbove
    <2> QED  BY <1>1, <1>2, <2>1, <2>3, <2>4 DEF ScaledDown
  <1>3. CASE ~(width > max.w)
    BY <1>1, <1>3 DEF ScaledDown
  <1> QED  BY <1>2, <1>3

(* The width before it is scaled down is a number of pixels. *)
LEMMA TvWidthNatural ==
  ASSUME NEW wide \in BOOLEAN, NEW std \in Standard,
         NEW in \in [w : Nat, h : Nat \ {0}], NEW max \in [w : Nat, h : Nat]
  PROVE  /\ FullHeightWidth(in, max) \in Nat
         /\ TvWidth(wide, std, FullHeightWidth(in, max)) \in Nat
  <1>1. FullHeightWidth(in, max) \in Nat
    <2>1. /\ in.w * max.h \in Int /\ in.h \in Nat \ {0} /\ in.w \in Nat
          /\ 0 * in.h =< in.w * max.h /\ 0 \in Int
      OBVIOUS
    <2>2. (in.w * max.h) \div in.h \in Int /\ 0 =< (in.w * max.h) \div in.h
      BY <2>1, QuotientFromBelow
    <2> QED  BY <2>1, <2>2 DEF FullHeightWidth
  <1> DEFINE width == FullHeightWidth(in, max)
  <1> HIDE DEF width
  <1>2. width \in Nat
    BY <1>1 DEF width
  <1>3. TvWidth(wide, std, width) \in Nat
    BY <1>2 DEF TvWidth, AspectProduct, tv_aspect, tv_aspect_resolution, Standard
  <1> QED  BY <1>1, <1>3 DEF width

(***************************************************************************)
(* For every picture that is not empty, every display, offset and TVScale, *)
(* the rectangle of the TV lies on the display                             *)
(* (omap_tvout_calc_scaling, in integers without a bound).                 *)
(***************************************************************************)
THEOREM TvOnDisplay ==
  ASSUME NEW widescreen \in BOOLEAN, NEW dynamic \in BOOLEAN, NEW std \in Standard,
         NEW scale \in 0 .. 100, NEW in \in [w : Nat, h : Nat \ {0}],
         NEW max \in [w : Nat, h : Nat], NEW offset \in [x : Int, y : Int]
  PROVE  Within(omap_tvout_calc_scaling(widescreen, dynamic, std, scale, in, max, offset),
                [x |-> 0, y |-> 0, w |-> max.w, h |-> max.h])
  <1> DEFINE wide == StaysWide(widescreen, dynamic, in)
             fit == ScaledDown(TvWidth(wide, std, FullHeightWidth(in, max)), max)
             width == (fit.w * scale) \div 100
             height == (fit.h * scale) \div 100
             ox == Offset(offset.x, tv_offset(std).x)
             oy == Offset(offset.y, tv_offset(std).y)
  <1>1. wide \in BOOLEAN
    BY DEF StaysWide
  <1>2. fit.w \in 0 .. max.w /\ fit.h \in 0 .. max.h
    <2> HIDE DEF wide
    <2>1. TvWidth(wide, std, FullHeightWidth(in, max)) \in Nat
      BY <1>1, TvWidthNatural
    <2> QED  BY <2>1, ScaledDownFits
  <1>3. max.w \in Nat /\ max.h \in Nat /\ ox \in Nat /\ oy \in Nat
    BY DEF Offset, tv_offset
  <1> HIDE DEF fit, ox, oy
  <1>4. width \in 0 .. max.w /\ height \in 0 .. max.h
    <2>1. fit.w \in Nat /\ fit.h \in Nat
      BY <1>2, <1>3
    <2>2. width \in 0 .. fit.w /\ height \in 0 .. fit.h
      BY <2>1, ScaleShrinks
    <2> QED  BY <1>2, <1>3, <2>1, <2>2
  <1>5. omap_tvout_calc_scaling(widescreen, dynamic, std, scale, in, max, offset)
          = [x |-> Centred(width, max.w, ox), y |-> Centred(height, max.h, oy),
             w |-> width, h |-> height]
    BY DEF omap_tvout_calc_scaling, fit, ox, oy
  <1> HIDE DEF width, height
  <1>6. /\ Centred(width, max.w, ox) \in Nat /\ Centred(width, max.w, ox) + width =< max.w
        /\ Centred(height, max.h, oy) \in Nat /\ Centred(height, max.h, oy) + height =< max.h
    BY <1>3, <1>4, CentredOnDisplay
  <1> QED  BY <1>3, <1>4, <1>5, <1>6 DEF Within

(***************************************************************************)
(* The largest product of omap_tvout_calc_scaling fits in a 32-bit int for *)
(* every picture that is at most 575 times as wide as it is high, on a     *)
(* display of at most 576 lines.                                           *)
(***************************************************************************)
THEOREM AspectProductFits ==
  ASSUME NEW wide \in BOOLEAN, NEW std \in Standard,
         NEW in \in [w : Nat, h : Nat \ {0}], NEW max \in [w : Nat, h : 0 .. 576],
         in.w =< 575 * in.h
  PROVE  AspectProduct(wide, std, FullHeightWidth(in, max)) < 2147483648
  <1> DEFINE width == FullHeightWidth(in, max)
  <1>1. width =< 575 * 576
    <2>1. in.w \in Nat /\ in.h \in Nat \ {0} /\ max.h \in 0 .. 576
      OBVIOUS
    <2>2. CASE in.h # max.h
      <3>1. in.w * max.h =< (575 * 576) * in.h
        <4>1. in.w * max.h =< (575 * in.h) * max.h
          <5>1. 0 =< (575 * in.h - in.w) * max.h
            BY <2>1
          <5> QED  BY <2>1, <5>1
        <4>2. (575 * in.h) * max.h =< (575 * in.h) * 576
          <5>1. 0 =< (575 * in.h) * (576 - max.h)
            BY <2>1
          <5> QED  BY <2>1, <5>1
        <4> QED  BY <2>1, <4>1, <4>2
      <3>2. in.w * max.h \in Int /\ 575 * 576 \in Int
        BY <2>1
      <3>3. (in.w * max.h) \div in.h =< 575 * 576
        BY <2>1, <3>1, <3>2, QuotientFromAbove
      <3> QED  BY <2>2, <3>3 DEF FullHeightWidth
    <2>3. CASE in.h = max.h
      BY <2>1, <2>3 DEF FullHeightWidth
    <2> QED  BY <2>2, <2>3
  <1>2. width \in Nat
    <2>1. max \in [w : Nat, h : Nat]
      OBVIOUS
    <2> QED  BY <2>1, TvWidthNatural
  <1> HIDE DEF width
  <1>3. AspectProduct(wide, std, width) =< width * 9 * 720
    BY <1>2 DEF AspectProduct, tv_aspect, tv_aspect_resolution
  <1>4. AspectProduct(wide, std, width) \in Int
    BY <1>2 DEF AspectProduct, tv_aspect, tv_aspect_resolution
  <1> QED  BY <1>1, <1>2, <1>3, <1>4 DEF width

(***************************************************************************)
(* It does not fit for a video as wide as the LCD of which one line is     *)
(* left, cloned to a wide PAL television: the width becomes negative, and  *)
(* "Scale it down if it doesn't fit" does not see it.                      *)
(***************************************************************************)
THEOREM AspectProductOverflows ==
  AspectProduct(TRUE, "PAL", FullHeightWidth([w |-> 800, h |-> 1], [w |-> 720, h |-> 574]))
    >= 2147483648
  <1>1. FullHeightWidth([w |-> 800, h |-> 1], [w |-> 720, h |-> 574]) = 459200
    BY DEF FullHeightWidth
  <1> QED  BY <1>1 DEF AspectProduct, tv_aspect, tv_aspect_resolution
=============================================================================
