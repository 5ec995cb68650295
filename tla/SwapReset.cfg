\* The screen is resized while requests are in flight.  KeepPixmaps: as if the
\* crash that ResizeScreen.cfg shows were repaired.
CONSTANTS
  Drawables = {w1}
  NumBufs = 2
  NoDraw = NoDraw
  NoBuffer = NoBuffer
  Private = Private
  Gone = Gone
  Overlays = {lcd, panel}
  Manual = {panel}
  Areas = {screen}
  VSync = TRUE
  RenderSync = TRUE
  MaxReqs = 4
  FrontOnly = FALSE
  Dpms = FALSE
  EventsFail = FALSE
  Resize = TRUE
  KeepPixmaps = TRUE

SPECIFICATION Spec
INVARIANTS
  NoAssertFails
  ThrottleExact
  EventsMatchRequests
  RenderedBeforeShown
