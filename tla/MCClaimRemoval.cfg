SPECIFICATION Spec
CONSTANTS
  Threads = {1, 2}
  Tasks = {0, 1}
  Dedicated <- OneEach
  PoolThreads = {}
  ShuffleThreads = {}
  PoolTaskIds <- None
  AllocKinds <- Gpu
  Removals <- None
  DoneTasks = {0, 1}
  Forgotten = {}
  Injected <- NoInjection
  CudfInjected <- NoInjection
  RetryLimit = 1
  MaxDepth = 1
  JavaBlocked = {}
  CanShutDown = FALSE
INVARIANTS
  WaitingThreadsAreNotRemoved
CHECK_DEADLOCK FALSE
