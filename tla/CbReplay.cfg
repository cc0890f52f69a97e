SPECIFICATION Spec
CONSTANTS
  Indices = {0, 1}
  Bufs = {"a", "b"}
  Imms = {"x"}
  Raws = {"z"}
  MaxDispatches = 3
  MaxCommands = 3
  MaxGuards = 2
  MaxReplays = 1
  Args <- MCArgs
  Rebinds <- MCRebinds
  Built <- MCBuilt
INVARIANTS
  TypeOK
  NeighboursOrdered
  ReplayedArguments
  
  LedgerHonest
CHECK_DEADLOCK FALSE
