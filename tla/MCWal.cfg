SPECIFICATION Spec
CONSTANTS
  MaxSeq = 5
  SegRecs = 2
  MaxDisk = 3
  MaxRead = 2
  MaxLife = 3
INVARIANTS Consistent SeqIdentity NoSilentGap CursorComplete
CHECK_DEADLOCK FALSE
