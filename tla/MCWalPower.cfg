SPECIFICATION PowerSpec
CONSTANTS
  MaxSeq = 5
  SegRecs = 2
  MaxDisk = 3
  MaxRead = 2
  MaxLife = 3
INVARIANT SeqIdentity
CHECK_DEADLOCK FALSE
