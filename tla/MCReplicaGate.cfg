SPECIFICATION FairSpec
CONSTANTS
  List <- MCList
  Report <- MCReport
  Unknown = Unknown
  Wanted = {"", "orders", "order"}
  MaxSeconds <- MCMaxSeconds
  MaxTicks = 2
CHECK_DEADLOCK FALSE
INVARIANT BatchProved
INVARIANT FirstFailureReturned
PROPERTY TickAnswered
PROPERTY KeepsListPromise
