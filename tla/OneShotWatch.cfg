CONSTANT MaxEvents = 2
SPECIFICATION OneShotFairSpec
INVARIANTS FirstChange
PROPERTY WatchReturns
CHECK_DEADLOCK FALSE
