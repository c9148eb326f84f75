SPECIFICATION Spec
CONSTANTS
  Statuses <- SomeStatuses
INVARIANTS
  DecodeMeans2xx
