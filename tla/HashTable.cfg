CONSTANTS
  b1 = b1
  b2 = b2
  b3 = b3
  a = a
  num = num
  big = big
  v1 = v1
  g = g
  NULL = NULL
  Bucket = {b1, b2, b3}
  StrKey = {a, num, big}
  Value = {v1}
  Foreign = {g}
  M <- MCM
  UsableIndex = {0, 5}
  LongMax <- MCLongMax
  HashOf <- MCHashOf
  NumericValue <- MCNumericValue
  PrimeNumbers <- MCPrimes
  Sizes = {0, 3}
  MergeSources <- MCSources
VIEW WithoutRet
SYMMETRY BucketSymmetry
SPECIFICATION MCSpec
INVARIANTS TypeOK ListInv ChainInv LookupInv HeapInv NoDangling
PROPERTIES ApplyDeletesIt IsOrderedMap
