\* Vertical and render synchronisation off: flips do not wait, and the damage
\* of a flip is sent to the manual-update display by a request of its own.
CONSTANTS
  Drawables = {w1, w2}
  NumBufs = 3
  NoDraw = NoDraw
  NoBuffer = NoBuffer
  Private = Private
  Gone = Gone
  Overlays = {lcd, panel}
  Manual = {panel}
  Areas = {screen}
  VSync = FALSE
  RenderSync = FALSE
  MaxReqs = 5
  FrontOnly = FALSE
  Dpms = FALSE
  EventsFail = FALSE
  Resize = FALSE
  KeepPixmaps = FALSE

SPECIFICATION Spec
SYMMETRY WindowSymmetry
INVARIANTS
  NoAssertFails
  NoNullDereference
  BusyIsInFlight
  DamageCovered
