SPECIFICATION FairSpec
CONSTANTS
  t1 = t1
  t2 = t2
  n1 = n1
  n2 = n2
  Nothing = Nothing
  Tasks = {t1, t2}
  Numbers = {n1}
  NumberOf <- MCOneNumber
  MaxAttempts = 1
  PoolSize = 2
  Replies <- OnePerSecond
  MaxTunings = 1
CHECK_DEADLOCK FALSE
PROPERTIES
  FeedLiveness
  RequestsResume
  EnqueueReturns
