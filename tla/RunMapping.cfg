CONSTANTS
  MaxRuns = 3
  Lengths = {0, 1, 3, 4, 5}
  Unit = 4
  ClusterSize = 2
  Slack = {0, 3, 8}
  RunLists <- MCRunLists
  Flags <- MCFlags
SPECIFICATION FairSpec
INVARIANTS EveryByteFromItsPlace RangesPartition
PROPERTIES MappingEnds
CHECK_DEADLOCK FALSE
