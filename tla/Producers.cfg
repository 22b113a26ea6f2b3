CONSTANTS
  None = None
  Cluster = 4
  BufferClusters = 3
  Tables <- MCTables
  Volumes <- MCVolumes
SPECIFICATION FairSpec
INVARIANTS
  TypeOK
  RowsAreTheEntries
  CarvedSoFar
PROPERTY
  Ends
CHECK_DEADLOCK FALSE
