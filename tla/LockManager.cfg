CONSTANTS
  t1 = t1
  t2 = t2
  l1 = l1
  l2 = l2
  l3 = l3
  Threads = {t1, t2}
  Leases = {l1, l2, l3}
  NoLease = NoLease
  NoThread = NoThread
SPECIFICATION FairSpec
INVARIANTS HolderOwns NoStaleEntries
PROPERTIES ImplementsExclusion LockIsReleased
CHECK_DEADLOCK FALSE
