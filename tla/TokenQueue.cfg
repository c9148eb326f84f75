\* Three tasks in the queue of the lock; fairness is weak.
SPECIFICATION QueuedSpec
CONSTANTS
  NoTask = NoTask
  Tasks = {t1, t2, t3}
  Lifetimes = {2}
  Buffer = 1
  Timeout = 1
  MaxTokens = 2
  MaxClock = 1
INVARIANTS
  QueueIsWaiters
PROPERTIES
  ImplementsFairLock
  Served
  ImplementsTokenSource
