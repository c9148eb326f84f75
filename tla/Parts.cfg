\* Configuration and URLs, accessors of errors, lists, notices.
SPECIFICATION Spec
CONSTANTS
  Texts       <- SomeTexts
  Paths       <- SomePaths
  Statuses    <- SomeStatuses
  Lists       <- AllLists
  Sizes       <- SomeSizes
  DefaultSize = 2
  MaxRows     = 3
  Txs         = {a, b}
\* A configuration that is refused is the end, and so is the last page.
CHECK_DEADLOCK FALSE
INVARIANTS
  RequestsGoWhereConfigured
  
  AccessorsAgree
  NothingSkipped
  
  
  NothingMissed
PROPERTIES
  ConfigIsStable
