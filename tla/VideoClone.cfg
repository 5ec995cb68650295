\* Two ports and two CRTCs compete for three overlays; the TV clones a port
\* and DPMS switches the LCD.  Display assignments and set-ups may fail.
CONSTANTS
  Sizes = {1}
  NoOverlay = NoOverlay
  NoFb = NoFb
  NoCrtc = NoCrtc
  Ports = {0, 1}
  Attributes = {"colorkey"}
  Stackings = {"XV1"}
  Faults = {"output", "setup"}
  Clones = {"CRTC1"}
  Lengths = {1, 2}
  Overhang = 1
  Unit = 2
  Rotations <- UprightOnly
  Rotated = {}
  Display <- LcdAndTv
  DpmsCrtcs = {"CRTC0"}
SPECIFICATION Spec
INVARIANTS
  PoolExact
  CloneWaitsSafe
  ScreenScannedByCrtcs
  CloneShown
  CrtcShowsScreen
  MemoryReturned
\* a server that has died does nothing more
CHECK_DEADLOCK FALSE
