---------------------------- MODULE MCVideoPort ----------------------------
(* Model checking VideoPort: VideoPorts.cfg, VideoClone.cfg and             *)
(* ReserveOverlay.cfg give the constants their values.  Ports and CRTCs are *)
(* told apart by the code (CHOOSE of the first one), so no symmetry.        *)
EXTENDS VideoPort

(* Upright, and a quarter turn of a reflected picture. *)
UprightOrNot == {Rotate0, [quarters |-> 1, x |-> 1, y |-> 0]}

UprightOnly == {Rotate0}

(* The LCD leaves all of it to the overlay, the TV mirrors and rotates. *)
LcdAndTv ==
  [c \in Crtc |-> IF c = "CRTC0" THEN [mirror |-> FALSE, rotate |-> FALSE]
                  ELSE [mirror |-> TRUE, rotate |-> TRUE]]
=============================================================================
