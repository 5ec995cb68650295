\* The screen is resized.
CONSTANTS
  Drawables = {w1, w2}
  NumBufs = 3
  NoDraw = NoDraw
  NoBuffer = NoBuffer
  Private = Private
  Gone = Gone
  Overlays = {lcd, panel}
  Manual = {panel}
  Areas = {screen}
  VSync = TRUE
  RenderSync = TRUE
  MaxReqs = 5
  FrontOnly = FALSE
  Dpms = FALSE
  EventsFail = FALSE
  Resize = TRUE
  KeepPixmaps = FALSE

SPECIFICATION Spec
SYMMETRY WindowSymmetry
INVARIANT NoNullDereference
