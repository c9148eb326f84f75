SPECIFICATION Spec
CONSTANTS
  Underscore = "_"  Colon = ":"  Space = " "
  FailedWord = "failed"  RejectedWord = "Rejected"
  Lower      <- SomeLower
  Digit      <- SomeDigit
  Other      <- SomeOther
  MaxTag     = 4
  Tags       <- SomeTags
  Details    <- SomeDetails
  Operations <- SomeOperations
  Reasons    <- SomeReasons
  Foreign    <- SomeForeign
\* The scan of one text ends.
CHECK_DEADLOCK FALSE
INVARIANTS
  ScanInv
  ScannerIsExact
  TagArrives
