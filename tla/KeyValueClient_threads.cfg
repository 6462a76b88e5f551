CONSTANTS
  MaxByte = 2
  MaxRevision = 3
  MaxLate = 1
  Values = {"x", "y"}
  Threads = {t1, t2}
  t1 = t1
  t2 = t2
  Keys <- OneKey
  Functions <- Locking
SPECIFICATION Spec
INVARIANTS ResponseIsTrue OneWinner
CHECK_DEADLOCK FALSE
