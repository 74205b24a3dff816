\* No loss; restarts of the motor controller. One unit is one second.
CONSTANTS
  HbTimeout = 2
  StatusPeriod = 1
  MotorHbTimeout = 2
  twist = twist
  direct = direct
  Kinds = {twist, direct}
  MinLife = 0
  MaxLife = 1
  StallEnabled = FALSE
  StallAfter = 0
  Lossy = FALSE
  MotorRestarts = TRUE
  QueueLen = 1
SPECIFICATION HSpec
SYMMETRY KindSymmetry
INVARIANT HTypeOK
INVARIANT LostHeartbeatLatched
INVARIANT NeverDrivenWhileLatched
INVARIANT OutputNeedsFreshCommand
INVARIANT DrivenForOneStatusPeriod
