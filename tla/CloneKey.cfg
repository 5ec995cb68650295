\* A client switches the colour key off, then sets the clone attribute.
CONSTANTS
  Sizes = {1}
  NoOverlay = NoOverlay
  NoFb = NoFb
  NoCrtc = NoCrtc
  Ports = {0}
  Attributes = {"clone", "disable_colorkey"}
  Stackings = {}
  Faults = {}
  Clones = {}
  Lengths = {1, 2}
  Overhang = 1
  Unit = 2
  Rotations <- UprightOnly
  Rotated = {}
  Display <- LcdAndTv
  DpmsCrtcs = {}
SPECIFICATION Spec
INVARIANT
  KeyReturns
\* a server that has died does nothing more
CHECK_DEADLOCK FALSE
