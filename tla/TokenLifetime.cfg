SPECIFICATION LifetimeSpec
CONSTANTS
  Half     = 8
  OverflowChecks = FALSE
  Buffer   = 2
  Reports <- SomeReports
  Boot     = 0
  MaxClock = 5
INVARIANTS
  KeptAsReported
  OnlyAbsurdLifetimesPanic
