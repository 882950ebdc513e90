SPECIFICATION Spec
CONSTANTS
  Threads = {1, 2, 3}
  Tasks = {0, 1}
  Dedicated <- TwoThreadTask
  PoolThreads = {}
  ShuffleThreads = {}
  PoolTaskIds <- None
  AllocKinds <- Gpu
  Removals <- None
  DoneTasks = {0, 1}
  Forgotten = {0}
  Injected <- NoInjection
  CudfInjected <- NoInjection
  RetryLimit = 1
  MaxDepth = 1
  JavaBlocked = {1}
  CanShutDown = FALSE
INVARIANTS
  StrictTotalOrder
  PausedThreadsArePaused
