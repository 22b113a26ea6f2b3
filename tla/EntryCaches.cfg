CONSTANTS
  Threads = {t1, t2}
  Ids = {1, 2}
  EntrySize = 1
  SummarySize = 1
  Written = {1}
  MaxWrites = 1
  MaxPurges = 1
  None = None
SPECIFICATION Spec
INVARIANTS TypeOK  FreshSinceQuietPurge
