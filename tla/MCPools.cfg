SPECIFICATION Spec
CONSTANTS
  Threads = {1, 2, 3}
  Tasks = {0, 1}
  Dedicated <- OneEach
  PoolThreads = {3}
  ShuffleThreads = {}
  PoolTaskIds <- SomeTasks
  AllocKinds <- Gpu
  Removals <- None
  DoneTasks = {0}
  Forgotten = {}
  Injected <- NoInjection
  CudfInjected <- NoInjection
  RetryLimit = 0
  MaxDepth = 1
  JavaBlocked = {}
  CanShutDown = FALSE
INVARIANTS
  DeadlockIsBroken
CHECK_DEADLOCK FALSE
