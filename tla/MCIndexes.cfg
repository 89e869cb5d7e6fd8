SPECIFICATION MCSpec
CONSTANTS
  ListSz = 4
  Data = {a, b}
  BucketSz = 2
  ChainSz = 2
  Keys = {0, 1, 2, 3}
  Vals = {a, b}
  HashFns <- MCHashFns
INVARIANTS
  TypeOK
  WellFormed
  HashSound
  IterationComplete
  RefusalCounted
PROPERTIES
  ImplementsDeque
  ImplementsMap
