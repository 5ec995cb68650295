------------------------------- MODULE TvOut -------------------------------
(***************************************************************************)
(* The picture of a TV (omap_tvout.c): omap_tvout_calc_scaling makes a     *)
(* picture of in.w x in.h as large as its aspect ratio, the television's   *)
(* and the TVScale of the user allow, and centres it between the offsets.  *)
(* The quotients are those of C for operands that are not negative.        *)
(***************************************************************************)
EXTENDS Integers

Standard == {"PAL", "NTSC"}

tv_aspect_resolution(std) == [width |-> 720, height |-> IF std = "PAL" THEN 576 ELSE 486]

tv_offset(std) == IF std = "PAL" THEN [x |-> 4, y |-> 4] ELSE [x |-> 28, y |-> 2]

tv_aspect(wide) == IF wide THEN [x |-> 16, y |-> 9] ELSE [x |-> 4, y |-> 3]

(* A dynamic aspect ratio shows a narrow picture as 4:3 on a wide television. *)
StaysWide(widescreen, dynamic, in) == widescreen /\ ~(dynamic /\ 3 * in.w =< 4 * in.h)

(* The width of the picture that is as high as the display. *)
FullHeightWidth(in, max) == IF in.h # max.h THEN (in.w * max.h) \div in.h ELSE in.w

(* The largest number that the adjustment for the television computes. *)
AspectProduct(wide, std, width) ==
  width * tv_aspect(wide).y * tv_aspect_resolution(std).width

TvWidth(wide, std, width) ==
  AspectProduct(wide, std, width)
    \div (tv_aspect(wide).x * tv_aspect_resolution(std).height)

(* "Scale it down if it doesn't fit." *)
ScaledDown(width, max) ==
  IF width > max.w THEN [w |-> max.w, h |-> (max.h * max.w) \div width]
  ELSE [w |-> width, h |-> max.h]

(* Centred in what the offset leaves, or as close to that as possible. *)
Centred(size, max, offset) ==
  IF size > max - offset THEN max - size ELSE (max + offset - size) \div 2

(* An offset of the user, or the default of the standard. *)
Offset(chosen, default) == IF chosen < 0 THEN default ELSE chosen

omap_tvout_calc_scaling(widescreen, dynamic, std, scale, in, max, offset) ==
  LET wide == StaysWide(widescreen, dynamic, in)
      fit == ScaledDown(TvWidth(wide, std, FullHeightWidth(in, max)), max)
      width == (fit.w * scale) \div 100
      height == (fit.h * scale) \div 100
  IN [x |-> Centred(width, max.w, Offset(offset.x, tv_offset(std).x)),
      y |-> Centred(height, max.h, Offset(offset.y, tv_offset(std).y)),
      w |-> width, h |-> height]
=============================================================================
