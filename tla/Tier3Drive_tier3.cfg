\* Times in units of a tick; a goal of either kind, replaced and refreshed at any time.
CONSTANTS
  Deadline = 4
  RotateTimeout = 2
  NoProgress = 1
  RealignTimeout = 1
  Ttl = 1
  Stale = 2
  TerminalZeros = 1
  DtCap = 1
  DepthActs = TRUE
  MaxStep = 2
  Goals <- GotoAndPaths
  ArmLease = 1
  MsgLeases = {NoLease}
  NoLease = NoLease
SPECIFICATION Spec
INVARIANT TypeOK
INVARIANT RotationBounded
INVARIANT GotoEndsByDeadline
INVARIANT StalePathStops
INVARIANT TerminalIsFinal
INVARIANT OneHandoffPerContinue
INVARIANT StuckIsNoticed
INVARIANT HoldEndsWithLease
