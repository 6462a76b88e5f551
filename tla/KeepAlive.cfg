CONSTANTS
  u1 = u1
  u2 = u2
  Users = {u1, u2}
  Refresher = Refresher
  NoThread = NoThread
  HasHandler = TRUE
SPECIFICATION FairSpec
INVARIANTS StreamIsFree CancelStops NoSilentDeath CheckRethrows
PROPERTIES CancelReturns KeepsRefreshing
