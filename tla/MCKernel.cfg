CONSTANTS
  BLOCK = 16
  Pointers = {p1, p2, p3}
  HeapSizes = {63, 80, 150}
  Sizes = {0, 1, 17, 40, 112, 128}
  MaxPid = 4
  MAX_SEMS = 4
  Foreground = {3}
  Returning = {3, 4}
SYMMETRY AnyPointer
SPECIFICATION PartsSpec
INVARIANTS ManagersTypeOK AccountsExact BuddySearchExact OneInside UsersCounted SleepersQueued
PROPERTIES BothAreAllocators
CHECK_DEADLOCK FALSE
