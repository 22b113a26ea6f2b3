CONSTANTS
  Ids <- MCIds
  Root = "root"
  Seqs = {1}
  Volumes <- MCVolumes
  MaxLinks = 8
  MaxDirectoryDepth = 2
  ShortNameOptions = {TRUE, FALSE}
  Prefix <- MCPrefix
  MaxCalls = 2
  None = None
  Wildcard = Wildcard
  Lower <- MCLower
  Tilded <- MCTilded
  StaleNode <- MCStaleNode
SPECIFICATION FairSpec
CHECK_DEADLOCK FALSE
INVARIANTS TypeOK ExactlyThePaths  
PROPERTIES Returns
