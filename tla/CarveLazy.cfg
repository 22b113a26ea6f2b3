CONSTANTS
  None = None
  Cluster = 4
  BufferClusters = 3
  Tables <- MCTables
  Volumes <- MCVolumes
SPECIFICATION Spec
INVARIANT
  RecordsStayTrue
CHECK_DEADLOCK FALSE
