SPECIFICATION FairSpec
CONSTANTS
  Boot = {boot}
  ThisBoot = boot
  NoBoot = NoBoot
  EveryN = 1
  MaxSeq = 4
  MaxInflight = 1
  QueueSize = 1
  W = 2
  MaxStreams = 2
  Driven = TRUE
  MaxBreaks = 1
  MaxExits = 0
  MaxMishaps = 2
PROPERTIES AllButTheWindowDelivered
CHECK_DEADLOCK FALSE
