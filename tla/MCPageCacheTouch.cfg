SPECIFICATION Spec
CONSTANTS
  PageBuckets = 2
  PageChains = 1
  FdBuckets = 1
  FdChains = 0
  FileSpan = 4
  Gids = {1, 2, 5, 9}
  Blank = Blank
  Absent = Absent
  Torn = Torn
  IoFails = {TRUE}
  MaxStores = 0
INVARIANT
  TouchAssertHolds
