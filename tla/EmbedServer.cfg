SPECIFICATION LiveSpec
CONSTANTS
  r1 = r1
  r2 = r2
  r3 = r3
  main = main
  Requests = {r1, r2, r3}
  Main = main
  Default = 2
  MaxLen = 2
  MaxConcurrent = 1
  MaxQueue = 1
  MaxTokens = 1
INVARIANTS
  TypeOK
  SlotsBalanced
  DeadIsFinal
  FittedIdsFit
  ClosedIsFreed
PROPERTIES
  RequestsAnswered
  FatalExits
CHECK_DEADLOCK FALSE
