\* A goto that arrives in the middle of an idle tick.
CONSTANTS
  gui = gui
  Clients = {gui}
  MaxResends = 1
  NoCmd = NoCmd
  CmdKinds = {"goto", "path", "cancel"}
  MaxId = 1
  MaxSeq = 1
  GotoLen = 1
  StatusLen = 1
  Seed <- ZeroSeed
  PiWatermark <- Fresh
  AtomicPuts = TRUE
  OdomResets = TRUE
  Malformed = FALSE
  PiRestarts = FALSE
  DesktopRestarts = FALSE
SPECIFICATION Spec
INVARIANT IdleIsNotActive
