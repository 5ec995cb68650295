\* A port is clipped off the screen, then reserved.
CONSTANTS
  Sizes = {1}
  NoOverlay = NoOverlay
  NoFb = NoFb
  NoCrtc = NoCrtc
  Ports = {0}
  Attributes = {"reserve"}
  Stackings = {}
  Faults = {}
  Clones = {"CRTC1"}
  Lengths = {1, 2}
  Overhang = 1
  Unit = 2
  Rotations <- UprightOnly
  Rotated = {}
  Display <- LcdAndTv
  DpmsCrtcs = {}
SPECIFICATION Spec
INVARIANT
  ReserveFindsNoOverlay
\* a server that has died does nothing more
CHECK_DEADLOCK FALSE
