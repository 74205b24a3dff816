\* Path mode with the breakpoint of handoff 1.
CONSTANTS
  StableLink <- Stable
  VerifyTimeout = 1
  Backoffs <- WaitsTwo
  MaxRelocalize = 1
  RearmGap = 1
  Patrols <- LoopOfTwo
  Window = 1
  Interval = 1
  MaxRejects = 1
  GiveUpAfter = 1
  MaxHops = 6
  Modes = {"path"}
  Breakpoints = {1}
SPECIFICATION StepSpec
INVARIANT HeldMeansStopped
