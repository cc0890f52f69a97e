\* two pools that charge one ledger
CONSTANTS
  p1 = p1
  p2 = p2
  Pools = {p1, p2}
  Sizes = {1, 2, 3}
  Cap = 5
  Caches = {1, 4}
  MaxBuffers = 3
SPECIFICATION Spec
SYMMETRY PoolSymmetry
CHECK_DEADLOCK FALSE
INVARIANTS
  TypeOK
  LedgerBalanced
  CacheWithinCap
PROPERTIES
  RefusedWithNothingCached
