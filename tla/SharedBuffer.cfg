\* safety of the fence protocol
CONSTANTS
  t1 = t1
  t2 = t2
  Threads = {t1, t2}
  MaxValue = 3
  LeaseMax = 2147483647
  TimeoutLimit = 3
  Timeouts = TRUE
  AdoptedBinds = FALSE
SPECIFICATION Spec
SYMMETRY ThreadSymmetry
CHECK_DEADLOCK FALSE
INVARIANTS
  TypeOK
  HostGpuExclusion
  LeaseWordCounts
  WaitsAreBacked
  HonestEventPasses
  FlushSettlesStamps
PROPERTIES
  LockSpec
