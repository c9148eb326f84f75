\* Three tasks; the buffer is one unit of the clock, the timeout is within it.
SPECIFICATION Spec
CONSTANTS
  t1 = t1
  t2 = t2
  t3 = t3
  NoTask = NoTask
  Tasks <- ThreeTasks
  Lifetimes = {0, 2}
  Buffer = 1
  Timeout = 1
  MaxTokens = 3
  MaxClock = 3
SYMMETRY Swaps3
INVARIANTS
  TypeOK
  FreshIsValid
  RetryIsNewer
  NewestCached
PROPERTIES
  NoNeedlessRefresh
