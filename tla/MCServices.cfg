CONSTANTS
  ByteBits = 3
  IntBytes = 4
  BufferAlign = 8
  BufInts = 1
  BatchBytes = 4
  Rows = 26
  Starts = {0, 1, 5, 12, 26}
  Lengths = {1, 3, 8, 12, 14, 21}
  UseOffsets = {0, 3}
  Fills <- MCFills
  Inputs <- MCInputs
  Orders = {"forward", "backward"}
  Callers = {c1, c2}
  ApiIds <- MCApiIds
  FakeLaunch = "trap"
  ConfigFiles <- MCConfigFiles
  Unlimited = Unlimited
  NoConfig = NoConfig
  MaxReloads = 1
  MaxIntercepted = 3
  Threads = {1, 2, 3}
  MaxCalls = 3
  NoThread = 0
SPECIFICATION MCSpec
INVARIANTS
  MergedIsConcatenation ReadsExactlyWhatArrived
  InjectionsStayNearCount
  DatabaseIsAllOrNothing OnlyShutdownBreaksCalls
PROPERTIES ExitReturns CallsReturn
CHECK_DEADLOCK FALSE
