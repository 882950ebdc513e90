SPECIFICATION Spec
CONSTANTS
  CaptureAllocs = FALSE
  TidRange = 4
  Scripts <- MCScripts
  BufferCapacity = 2
  FlushThreshold = 2
  NUM_CACHED_BUFFERS = 1
  MaxSessions = 2
  NoSession = 0
  GPUs <- MCGPUs
  Replies <- MCReplies
  NoHandle = NoHandle
  Failed = Failed
  Verbose = TRUE
  MaxStarts = 2
  MaxQueries = 2
INVARIANTS
  NoRecordLost BuffersHaveOneOwner ConversionDrawsAll
  LoopsAreAccountedFor StatsDescribeTheirGPU
PROPERTIES ShutdownReturns LoopsEnd
CHECK_DEADLOCK FALSE
