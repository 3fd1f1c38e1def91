SPECIFICATION FairSpec
CONSTANTS
  Boot = {boot}
  ThisBoot = boot
  NoBoot = NoBoot
  EveryN = 1
  MaxSeq = 2
  MaxInflight = 2
  QueueSize = 2
  W = 2
  MaxStreams = 2
  Driven = FALSE
  MaxBreaks = 1
  MaxExits = 0
  MaxMishaps = 1
PROPERTIES FailedWriteIsResent
CHECK_DEADLOCK FALSE
