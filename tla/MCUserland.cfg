CONSTANTS
  DecWorkers = {d1}
  IncWorkers = {i1}
  MaxOps = 2
  MaxPairs = 2
  MaxMeddling = 1
  Runs = {r1, r2}
  TOTAL_PROCESSES = 2
  MaxValue = 1
  MvarWriters = {w1, w2}
  MvarReaders = {rd1}
  MvarArgs <- MvarRuns
  MAX_PARTY = 2
  MaxMvars = 2
  MaxMvarMeddling = 1
  BUFFER_MAXLENGTH = 2
  LINE = 2
  MaxLen = 2
  Keys = {"lctrl", "rctrl", "c", "d", "enter", "back"}
  MaxPresses = 3
  MaxReads = 2
  AlphabetLetters = {2, 3}
  CR_MAXARGS = 3
  MaxLine = 5
  Children = {1, 2, 3}
  MAX_PIPES = 1
  MaxLines = 2
  MaxCtrlC = 1
  READ_MAX = 3
  MaxStream = 6
  Cols = 5
  Rows = 3
  MatchPoints = 3
  MaxLevel = 2
  MaxMatches = 2
  ScreenW = 4
  ScreenH = 3
  FontScales = {0, 2, 3}
  ECHO_LINE = 3
  EchoKeys = {"a", "tab"}
  Outputs <- OutputStrings
  MaxPrompts = 2
  MaxKeys = 2
  MaxOutputs = 1
  Sounders = {sp1, sp2}
  TICK_HZ = 1000
  Tones = {0, 20, 440}
  Durations = {0, 2}
  MaxSounds = 3
SPECIFICATION UserSpec
INVARIANTS NoLostUpdate ReadOnce RingHoldsPending LinesAreFresh LinesSplit CommandsFound OwnCommand PipesKept PipeResults CtrlCOncePerPress EchoShown
PROPERTIES TestSyncEnds ValueHandedOn PromptReturns TestPrioEnds BotSurvives BeepHeard
CHECK_DEADLOCK FALSE
