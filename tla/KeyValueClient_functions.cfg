CONSTANTS
  MaxByte = 2
  MaxRevision = 3
  MaxLate = 0
  Values = {"x", "y"}
  Threads = {t1}
  t1 = t1
  Keys <- ThreeKeys
  Functions <- AllFunctions
SPECIFICATION Spec
INVARIANTS ResponseIsTrue ValuesReported FailureShowsPrevious
CHECK_DEADLOCK FALSE
