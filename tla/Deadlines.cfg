SPECIFICATION Spec
CONSTANTS
  Timeout      <- DefaultTimeout
  SettleWait   <- GatewaySettleWait
  WriteTimeout <- GatewayWriteTimeout
  Up           = 2
  Down         = 1
\* The call is over.
CHECK_DEADLOCK FALSE
INVARIANTS
  GatewayGivesUpFirst
  CallIsBounded
