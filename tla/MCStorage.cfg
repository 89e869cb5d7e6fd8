SPECIFICATION MCSpec
CONSTANTS
  PageBuckets = 1
  PageChains = 1
  FdBuckets = 1
  FdChains = 0
  FileSpan = 4
  Gids = {1, 2, 5}
  Blank = Blank
  Absent = Absent
  Torn = Torn
  IoFails = {TRUE, FALSE}
  MaxStores = 2
  Contexts = {r, h, c}
  Root = r
  Home = h
  ContextSize = 8
  Sizes = {2, 3}
  MaxChildren = 1
  StackMax = 1
  DefaultCapacity = 2
  MaxHeld = 2
  NULL = NULL
CHECK_DEADLOCK FALSE
INVARIANTS
  FramesAccounted
  LatestFound
  HandedStay
  BlocksApart
  OneTree
PROPERTY
  DiskMonotone
