CONSTANTS
  PageSize = 4
  ScanSize = 2
  Extents <- MCExtents
  Lengths = {2, 3}
  RoundLengths = {}
  Preallocated = FALSE
  Programs = {"watch", "list"}
  MaxRecords = 5
SPECIFICATION ConsumedSpec
CHECK_DEADLOCK FALSE
INVARIANTS TypeOK   
  
