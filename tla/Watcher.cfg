CONSTANTS
  MaxEvents = 2
  Users = {u1, u2}
  u1 = u1
  u2 = u2
SPECIFICATION FairSpec
INVARIANTS EventsInOrder StoppedOnceJoined
PROPERTIES CancelReturns ConnectionLossStops
CHECK_DEADLOCK FALSE
