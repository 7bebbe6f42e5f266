SPECIFICATION Spec
CONSTANTS
  BLOCKSIZE = 2
  ndb = 2
  dbperidb = 2
  DATA_MAXSIZE = 6
  Many = 3
  Few = 2
  MaxDraws = 2
  Things = 2
  Kept = {2, 5, 6, 7}
  AppendBlocks = 2
  RandFiles = 2
  RandPos = {0, 3}
  RandLen = {2}
  RandTrunc = {0, 4}
  MaxLost = 1
  OPEN_MAX = 8
  Volumes = {"emu", "sfs"}
  Menu <- MCMenu
  MaxPicks = 2
  MaxFaults = 1
INVARIANTS
  FrackSound
  BadcallsPass
  ArithmeticExact
  PrintfExact
  StringsExact
  HeapTiled
CHECK_DEADLOCK FALSE
