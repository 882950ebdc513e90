SPECIFICATION FairSpec
CONSTANTS
  Threads = {1, 2, 3}
  Tasks = {0}
  Dedicated <- OnlyFirst
  PoolThreads = {2}
  ShuffleThreads = {3}
  PoolTaskIds <- SomeTasks
  AllocKinds <- Gpu
  Removals <- None
  DoneTasks = {}
  Forgotten = {}
  Injected <- NoInjection
  CudfInjected <- NoInjection
  RetryLimit = 0
  MaxDepth = 1
  JavaBlocked = {}
  CanShutDown = FALSE
PROPERTIES
  SomebodyWakes
CHECK_DEADLOCK FALSE
