SPECIFICATION Spec
CONSTANTS
  Threads = {1, 2}
  Tasks = {0, 1}
  Dedicated <- AnyDedicated
  PoolThreads = {2}
  ShuffleThreads = {}
  PoolTaskIds <- SomeTasks
  AllocKinds <- Gpu
  Removals <- AnyRemoval
  DoneTasks = {0, 1}
  Forgotten = {}
  Injected <- NoInjection
  CudfInjected <- NoInjection
  RetryLimit = 0
  MaxDepth = 1
  JavaBlocked = {1, 2}
  CanShutDown = TRUE
INVARIANTS
  TypeOK
  TaskKnowsItsThreads
  ShutdownReachesEveryone
PROPERTIES
  FollowsDiagram
CHECK_DEADLOCK FALSE
