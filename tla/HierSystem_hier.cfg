\* A loop of two waypoints, both ways to send a goal.
CONSTANTS
  StableLink <- Stable
  VerifyTimeout = 1
  Backoffs <- WaitsTwo
  MaxRelocalize = 1
  RearmGap = 1
  Patrols <- LoopOfTwo
  Window = 1
  Interval = 1
  MaxRejects = 1
  GiveUpAfter = 1
  MaxHops = 6
  Modes = {"goto", "path"}
  Breakpoints = {}
SPECIFICATION FairSpec
INVARIANT HierTypeOK
INVARIANT StoppedMeansRevoked
INVARIANT BoundedRetries
INVARIANT RecoveryInStep
INVARIANT BlockedIsHandled
INVARIANT TeleopOwnsWheels
PROPERTY BackoffNeverShrinks
PROPERTY BlockedGoesOn
PROPERTY RecoveryEnds
