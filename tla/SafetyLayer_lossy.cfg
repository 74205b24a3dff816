\* Lost reports, failing status ticks, late re-arms; then a link that settles.
CONSTANTS
  HbTimeout = 2
  StatusPeriod = 1
  MotorHbTimeout = 2
  twist = twist
  Kinds = {twist}
  MinLife = 1
  MaxLife = 1
  StallEnabled = FALSE
  StallAfter = 0
  Lossy = TRUE
  MotorRestarts = TRUE
  QueueLen = 2
SPECIFICATION FairSpec
INVARIANT TypeOK
PROPERTY ClearFollowsRearm
PROPERTY RearmRecovers
PROPERTY LostHeartbeatStops
