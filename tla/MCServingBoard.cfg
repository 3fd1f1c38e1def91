SPECIFICATION Services
CONSTANTS
  EveryN = 2
  MaxSeq = 4
  MaxInflight = 2
  MaxRecord = 4
  BatchSize = 2
  MaxFailures = 2
  MaxTime = 4
  Interval = 2
  Limit = 1
  StreamFailures = 1
  MaxAlert = 4
  History = 3
  Feed = 2
  Near = 3
  Rewind = 2
  MaxRewinds = 1
  MaxRestarts = 1
  MaxBreaks = 1
  MaxHides = 1
  MaxOther = 1
INVARIANT BoardIsLatest
CHECK_DEADLOCK FALSE
