\* Vertical and render synchronisation on (the default), an automatic display
\* and one that is updated by command, two windows, three buffers.  A client
\* may ask for its front buffer alone, after which the server may crash (see
\* FrontBufferOnly.cfg): only this run may stop.
CONSTANTS
  Drawables = {w1, w2}
  NumBufs = 3
  NoDraw = NoDraw
  NoBuffer = NoBuffer
  Private = Private
  Gone = Gone
  Overlays = {lcd, panel}
  Manual = {panel}
  Areas = {screen}
  VSync = TRUE
  RenderSync = TRUE
  MaxReqs = 5
  FrontOnly = TRUE
  Dpms = FALSE
  EventsFail = FALSE
  Resize = FALSE
  KeepPixmaps = FALSE

SPECIFICATION Spec
SYMMETRY WindowSymmetry
INVARIANTS
  TypeOK
  NoAssertFails
  NoTearing
  OneClientPerBuffer
  OwnershipAgrees
  ReservationExact
  RenderedBeforeShown
  ThrottleExact
  BusyIsInFlight
  QueueBounded
PROPERTIES
  ImplementsChain
CHECK_DEADLOCK FALSE
