\* Crashes of the Tier-3 process; two commands and their resends.
CONSTANTS
  gui = gui
  Clients = {gui}
  MaxResends = 1
  NoCmd = NoCmd
  CmdKinds = {"goto", "cancel"}
  MaxId = 2
  MaxSeq = 1
  GotoLen = 1
  StatusLen = 1
  Seed <- ZeroSeed
  PiWatermark <- Fresh
  AtomicPuts = TRUE
  OdomResets = FALSE
  Malformed = FALSE
  PiRestarts = TRUE
  DesktopRestarts = FALSE
SPECIFICATION FairSpec
PROPERTY CancelStopsOrIsReported
PROPERTY StopsWithoutGoal
INVARIANT AckedCancelStops
PROPERTY ImplementsService
