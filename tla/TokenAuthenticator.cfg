CONSTANTS
  t1 = t1
  t2 = t2
  Threads = {t1, t2}
  Creator = t1
  NoThread = NoThread
  TTL = 5
  TicksPerSecond = 2
  Delay = 4
SPECIFICATION FairSpec
INVARIANTS TokenNotExpired OneRenewalPerPeriod RefusalHasCause
PROPERTIES FailureIsRetried
