\* Liveness: overlays that DPMS switches and event requests that fail.
CONSTANTS
  Drawables = {w1}
  NumBufs = 2
  NoDraw = NoDraw
  NoBuffer = NoBuffer
  Private = Private
  Gone = Gone
  Overlays = {lcd, panel}
  Manual = {panel}
  Areas = {screen}
  VSync = TRUE
  RenderSync = TRUE
  MaxReqs = 4
  FrontOnly = FALSE
  Dpms = TRUE
  EventsFail = TRUE
  Resize = FALSE
  KeepPixmaps = FALSE

SPECIFICATION FairSpec
INVARIANTS
  NoAssertFails
PROPERTIES
  ClientsProceed
  QueueDrains
  DamageShown
