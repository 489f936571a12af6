CONSTANTS
  MaxPid = 4
  MAX_SEMS = 4
  Foreground = {3}
  Returning = {3}
SPECIFICATION LockSpec
INVARIANTS WaitersWoken
CHECK_DEADLOCK FALSE
