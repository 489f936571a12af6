CONSTANTS
  Procs = {2, 3, 4}
  Stacks = {1, 2, 3}
SPECIFICATION FaultsSpec
INVARIANTS OwnStack
CHECK_DEADLOCK FALSE
