SPECIFICATION Spec
CONSTANTS
  Threads = {1, 2}
  Tasks = {0, 1}
  Dedicated <- OneEach
  PoolThreads = {}
  ShuffleThreads = {}
  PoolTaskIds <- None
  AllocKinds <- AnyKind
  Removals <- None
  DoneTasks = {0}
  Forgotten = {}
  Injected <- GpuOomsOfFirst
  CudfInjected <- CudfOfFirst
  RetryLimit = 0
  MaxDepth = 2
  JavaBlocked = {}
  CanShutDown = FALSE
INVARIANTS
  NoInternalError
  NoLostWakeup
CHECK_DEADLOCK FALSE
