SPECIFICATION FairSpec
CONSTANTS
  t1 = t1
  t2 = t2
  n1 = n1
  n2 = n2
  Nothing = Nothing
  Tasks = {t1}
  Numbers = {n1}
  NumberOf <- MCSingle
  MaxAttempts = 2
  PoolSize <- MCPoolSize
  Replies <- HundredPerMinute
  MaxTunings = 1
CHECK_DEADLOCK FALSE
PROPERTY
  RequestsResume
