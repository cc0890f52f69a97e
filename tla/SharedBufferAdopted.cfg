\* binding the handle of to_gpu_buffer
CONSTANTS
  t1 = t1
  t2 = t2
  Threads = {t1, t2}
  MaxValue = 2
  LeaseMax = 2147483647
  TimeoutLimit = 3
  Timeouts = TRUE
  AdoptedBinds = TRUE
SPECIFICATION Spec
CHECK_DEADLOCK FALSE
INVARIANT HostGpuExclusion
