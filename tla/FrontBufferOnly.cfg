\* A client that asks for its front buffer alone.
CONSTANTS
  Drawables = {w1, w2}
  NumBufs = 3
  NoDraw = NoDraw
  NoBuffer = NoBuffer
  Private = Private
  Gone = Gone
  Overlays = {lcd, panel}
  Manual = {panel}
  Areas = {screen}
  VSync = TRUE
  RenderSync = TRUE
  MaxReqs = 5
  FrontOnly = TRUE
  Dpms = FALSE
  EventsFail = FALSE
  Resize = FALSE
  KeepPixmaps = FALSE

SPECIFICATION Spec
SYMMETRY WindowSymmetry
INVARIANT NoNullDereference
