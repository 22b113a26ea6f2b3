CONSTANTS
  Threads = {t1, t2}
  Buffers = {b1, b2}
  PageSize = 2
  CacheSize = 1
  LargeRead = 1
  FileLen = 3
  Offsets <- MCOffsets
  Lengths <- MCLengths
  Written = {1}
  MaxWrites = 1
  MaxFlushes = 1
  None = None
SPECIFICATION FairSpec
INVARIANTS TypeOK OneOwner  FreshSinceQuietFlush
PROPERTIES ReadsReturn
