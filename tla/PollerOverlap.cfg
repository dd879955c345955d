SPECIFICATION Spec
CONSTANTS
  t1 = t1
  t2 = t2
  n1 = n1
  n2 = n2
  Nothing = Nothing
  Tasks = {t1, t2}
  Numbers = {n1, n2}
  NumberOf <- MCDistinct
  MaxAttempts = 0
  PoolSize <- MCPoolSize
  Replies <- TenPerMinute
  MaxTunings = 2
CHECK_DEADLOCK FALSE
INVARIANT
  BlockedUntilRestored
