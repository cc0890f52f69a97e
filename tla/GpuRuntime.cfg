\* safety of command buffers, arena and deferred releases
CONSTANTS
  b = b
  e = e
  h = h
  w1 = w1
  w2 = w2
  Buffers = {b, e}
  External = {e}
  Handles = {h, w1, w2}
  of <- MCOf
  MaxValue = 3
  Gap = 0
  ArenaSize = 2
  Reserve = 1
  MaxScope = 2
  TimeoutLimit = 3
  Timeouts = TRUE
SPECIFICATION Spec
SYMMETRY WrapSymmetry
CHECK_DEADLOCK FALSE
PROPERTIES
  LifetimeSpec
INVARIANTS
  TypeOK
  RecordingExclusive
  ResidentWhileRunning
  MappingExcludesGpu
  BatchTracksWork
