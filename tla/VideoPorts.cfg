\* One port against two CRTCs, with reservations, colour keys and rotations of
\* the port and of the LCD.  Mappings may fail, DPMS switches the TV.  No output
\* shows clones (see VideoClone.cfg), but the port sets the mode of the CRTC
\* that would.
CONSTANTS
  Sizes = {1}
  NoOverlay = NoOverlay
  NoFb = NoFb
  NoCrtc = NoCrtc
  Ports = {0}
  Attributes = {"reserve", "clone", "disable_colorkey", "sync", "rotation"}
  Stackings = {}
  Faults = {"map"}
  Clones = {}
  Lengths = {1, 2}
  Overhang = 1
  Unit = 2
  Rotations <- UprightOrNot
  Rotated = {"CRTC0"}
  Display <- LcdAndTv
  DpmsCrtcs = {"CRTC1"}
SPECIFICATION Spec
INVARIANTS
  TypeOK
  PlaneStepsSafe
  PortShownOnItsDisplay
  KeyGuarded
  PictureUpright
\* a server that has died does nothing more
CHECK_DEADLOCK FALSE
