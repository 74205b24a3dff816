\* A resend that is put after the next command.
CONSTANTS
  gui = gui
  Clients = {gui}
  MaxResends = 1
  NoCmd = NoCmd
  CmdKinds = {"goto", "path", "cancel"}
  MaxId = 2
  MaxSeq = 1
  GotoLen = 1
  StatusLen = 1
  Seed <- ZeroSeed
  PiWatermark <- Fresh
  AtomicPuts = FALSE
  OdomResets = TRUE
  Malformed = FALSE
  PiRestarts = FALSE
  DesktopRestarts = FALSE
SPECIFICATION Spec
INVARIANT RevokedByNewer
