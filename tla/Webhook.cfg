SPECIFICATION Spec
CONSTANTS
  Bytes     <- SomeBytes
  Dot       = "."
  Stamps    <- SomeStamps
  Bodies    <- SomeBodies
  Invalid   = Invalid
  Parse     <- BinaryParse
  Decimal   <- Binary
  Secret    = mine
  Secrets   = {mine, other}
  Spoilt    <- SomeSpoilt
  Half      = 4
  OverflowChecks = FALSE
  Sub       = 2
  Clock     <- SomeClock
  Tolerance <- OneSecond
  MaxSigned = 2
  MaxAccepted = 2
\* When MaxAccepted messages were accepted, all stops.
CHECK_DEADLOCK FALSE
INVARIANTS
  Bound
  ReplayWindow
  DriftTolerated
