SPECIFICATION FairSpec
CONSTANTS
  Clip = {1, 2}
  PartCount = 2
  MaxSegs = 3
  MaxFaults = 2
  MaxRewrites = 1
  MaxAborts = 1
INVARIANTS Consistent AnnouncedIsWhole NoOrphanObject
PROPERTIES EveryUploadReferenced
