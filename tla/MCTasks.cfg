SPECIFICATION MCSpec
CONSTANTS
  Attempts = {0, 1, 2}
  LongMax = 8
  LongMin = 0
  Workers = {1, 2}
  Tasks = {7, 8}
  NoTask = 0
  MaxClock = 1
  MaxThrows <- MCMaxThrows
  MaxBytes = 2
  MaxChanges = 3
INVARIANTS
  DistinctPriorities
  ThrowsReachTheirTask
  TimeLostNeverShrinks
  PeaksWereReached
PROPERTY
  ImplementsTaskOrder
