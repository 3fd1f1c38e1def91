SPECIFICATION Spec
CONSTANTS
  Boot = {boot}
  ThisBoot = boot
  NoBoot = NoBoot
  EveryN = 1
  MaxSeq = 2
  MaxInflight = 2
  QueueSize = 4
  W = 2
  MaxStreams = 3
  Driven = FALSE
  MaxBreaks = 1
  MaxExits = 1
  MaxMishaps = 2
INVARIANTS Consistent OnlyDuplicatesDropped
PROPERTIES ImplementsExactlyOnce
CHECK_DEADLOCK FALSE
