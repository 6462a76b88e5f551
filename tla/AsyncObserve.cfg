CONSTANTS
  MaxRev = 4
SPECIFICATION FairSpec
INVARIANTS ObservedInOrder NoReadAfterShutdown
PROPERTIES DestroyReturns
CHECK_DEADLOCK FALSE
