\* One payment, four calls, the errors that differ in what follows from them.
SPECIFICATION Spec
CONSTANTS
  i1 = i1
  r1 = r1  r2 = r2
  c1 = c1  c2 = c2  c3 = c3  c4 = c4
  Intents  <- OneIntent
  Refs     <- TwoRefs
  Calls    <- FourCalls
  Refusals <- FewRefusals
  NoIntent = NoIntent
  NoRef    = NoRef
  NoCall   = NoCall
SYMMETRY ManySwaps
\* The number of calls is bounded: when they are used up, all stops.
CHECK_DEADLOCK FALSE
INVARIANTS
  TypeOK
  DuplicateOnlyAfterLoss
  PaidOnce
  ToldTruly
PROPERTIES
  ReplayRecovers
  ImplementsPayments
