\* a blocked lease is granted, whatever the caller does next
CONSTANTS
  t1 = t1
  t2 = t2
  Threads = {t1, t2}
  MaxValue = 2
  LeaseMax = 1
  TimeoutLimit = 3
  Timeouts = FALSE
  AdoptedBinds = TRUE
SPECIFICATION FairSpec
CHECK_DEADLOCK FALSE
PROPERTIES
  BlockedIsGranted
