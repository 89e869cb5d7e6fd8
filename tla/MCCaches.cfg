SPECIFICATION MCSpec
CONSTANTS
  BucketSz = 2
  ChainSz = 1
  Keys = {0, 1, 2, 4}
  Vals = {a, b}
  FdBuckets = 2
  FdChains = 1
  Files = {0, 1, 2, 3, 4}
  KeyHashFns <- MCKeyHashFns
  FileHashFns <- MCFileHashFns
  IntMax = 3
  Increments <- MCIncrements
INVARIANTS
  TypeOK
  InBounds
  LruSound
  Descriptors
PROPERTIES
  Fresh
  ImplementsLru
