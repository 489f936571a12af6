CONSTANTS
  MAX_PROCESSES = 4
  PRIORITY_LEVELS = 2
  DEFAULT_PRIORITY = 0
  QUANTUM = 0
  MaxPid = 4
  MAX_SEMS = 5
  MAX_BLOCKED = 4
  Names = {m}
  InitialValues = {1}
  UserPriorities = {0}
  MaxValue = 1
  MaxUsers = 2
  MaxStray = 1
SPECIFICATION SemSpec
INVARIANTS NoOrphans
