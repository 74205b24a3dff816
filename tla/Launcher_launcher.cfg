\* Supervision with hangs, exits, outages of the link and a shutdown.
CONSTANTS
  motor = motor
  lidar = lidar
  Processes <- MCProcesses
  Motor = motor
  Timeout <- MCTimeout
  Window = 1
  Grace = 1
  StableAfter = 1
  MaxBackoff = 2
SPECIFICATION FairSpec
INVARIANT LauncherTypeOK
INVARIANT MotorlessIsZeroed
PROPERTY JudgedByOwnSamples
PROPERTY HungIsReplaced
PROPERTY ShutdownEnds
