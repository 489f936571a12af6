CONSTANTS
  MAX_PROCESSES = 4
  PRIORITY_LEVELS = 2
  DEFAULT_PRIORITY = 0
  QUANTUM = 1
  MaxPid = 4
SPECIFICATION FairSpec
INVARIANTS QueuesExact SlotsAccounted
PROPERTIES StackInUseKept MostUrgentFirst NoOvertaking UrgentServed KilledRecycled
