SPECIFICATION Spec
CONSTANTS
  RowAlign = 4
  CharBits = 2
  Warp = 4
  RowBlock = 8
  MaxBatch = 127
  Shmem = 40
  SquareBias = 4
  MaxThreads = 32
  IntSize = 2
  DirectSizes = {1, 2, 4}
  Tables <- RowTables
  MAX_JSON_NESTING_DEPTH = 3
  MAX_JSON_PATH_DEPTH = 4
  max_num_len = 1000
  padding_rows = 10
  Columns <- InvalidRow
  PathLess <- MCPathLess
  double_normalization <- MCDouble
  ChunkBits = 5
  DIGITS = 2
  NoValue = NoValue
  SecondsPerDay = 24
  MicrosPerSec = 3
  TimestampBits = 23
  Ticks <- MCTicks
  DateBits = 22
  LongBits = 8
  Calls <- FirstSecond
INVARIANT OverflowIsNull
