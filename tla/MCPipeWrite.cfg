CONSTANTS
  MAX_PROCESSES = 4
  PRIORITY_LEVELS = 2
  DEFAULT_PRIORITY = 0
  QUANTUM = 0
  MaxPid = 4
  MAX_PIPES = 1
  PIPE_BUF_SIZE = 2
  Bytes = {0, 1}
  MaxWrite = 3
  MaxRead = 2
SPECIFICATION FairPipeSpec
PROPERTIES CallsReturn
