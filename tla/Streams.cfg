CONSTANTS
  LastEntry = 4
  Volumes <- MCVolumes
  Queries <- MCQueries
  MaxVCNs = 2
  VcnModulus = 8
  Wildcard = Wildcard
  None = None
SPECIFICATION Spec
CHECK_DEADLOCK FALSE
INVARIANTS TypeOK RightEntry MFTIsWhole StreamIsWhole ListedInodesOpen
PROPERTIES Settles
