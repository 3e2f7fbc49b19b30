CONSTANTS
  b1 = b1
  b2 = b2
  b3 = b3
  a = a
  num = num
  big = big
  v1 = v1
  g = g
  NULL = NULL
  Bucket = {b1, b2, b3}
  StrKey = {a}
  Value = {v1}
  Foreign = {}
  M <- MCM
  UsableIndex = {0, 1}
  LongMax <- MCLongMax
  HashOf <- MCColliding
  NumericValue <- MCNumericValue
  PrimeNumbers <- MCPrimes
  Sizes = {0, 3}
  MergeSources = {}
VIEW WithoutRet
SYMMETRY BucketSymmetry
SPECIFICATION Spec
PROPERTIES ApplyDeletesIt
