SPECIFICATION Spec
CONSTANTS
  t1 = t1
  t2 = t2
  t3 = t3
  NoTask = NoTask
  Tasks <- TwoTasks
  Lifetimes = {4}
  Buffer = 2
  Timeout = 1
  MaxTokens = 2
  MaxClock = 2
INVARIANT StaleDropped
