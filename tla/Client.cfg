\* Two calls, which use up three tokens; under fairness.
SPECIFICATION FairClientSpec
CONSTANTS
  c1 = c1
  c2 = c2
  NoTask = NoTask
  Tasks <- TwoCalls
  Lifetimes = {2}
  Buffer = 1
  Timeout = 1
  MaxTokens = 3
  MaxClock = 2
CHECK_DEADLOCK FALSE
INVARIANTS
  
  AtMostOnce
  OutcomeHonest
  SecondTokenIsNewer
PROPERTIES
  EveryCallReturns
  ImplementsCallOnce
