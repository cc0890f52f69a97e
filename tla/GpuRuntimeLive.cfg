\* every call returns, when no budget runs out
CONSTANTS
  b = b
  e = e
  h = h
  w1 = w1
  w2 = w2
  Buffers = {b}
  External = {}
  Handles = {h}
  of <- MCOfLive
  MaxValue = 4
  Gap = 1
  ArenaSize = 4
  Reserve = 1
  MaxScope = 2
  TimeoutLimit = 3
  Timeouts = FALSE
SPECIFICATION FairSpec
CHECK_DEADLOCK FALSE
PROPERTIES
  CallsReturn
