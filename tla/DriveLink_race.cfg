\* The threads of the client interleave freely; malformed commands, refreshes, desktop restarts.
CONSTANTS
  gui = gui
  Clients = {gui}
  MaxResends = 1
  NoCmd = NoCmd
  CmdKinds = {"goto", "path", "cancel"}
  MaxId = 2
  MaxSeq = 2
  GotoLen = 1
  StatusLen = 1
  Seed <- ZeroSeed
  PiWatermark <- Fresh
  AtomicPuts = FALSE
  OdomResets = TRUE
  Malformed = TRUE
  PiRestarts = FALSE
  DesktopRestarts = TRUE
SPECIFICATION Spec
CONSTRAINT ResetsBetweenTicks
INVARIANT TypeOK
INVARIANT EndedStaysEnded
INVARIANT AckedMeansHandled
 
