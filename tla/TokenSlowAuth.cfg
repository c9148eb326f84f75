SPECIFICATION Spec
CONSTANTS
  t1 = t1
  t2 = t2
  t3 = t3
  NoTask = NoTask
  Tasks <- OneTask
  Lifetimes = {22}
  Buffer = 3
  Timeout = 5
  MaxTokens = 1
  MaxClock = 27
INVARIANT FreshIsValid
