SPECIFICATION FairSpec
CONSTANTS
  o1 = o1
  alice = alice
  bob = bob
  r1 = r1
  r2 = r2
  r3 = r3
  NoOne = NoOne
  Nothing = Nothing
  Users = {alice, bob}
  Numbers = {o1}
  Requests = {r1, r2, r3}
  UserOf <- MCUserOf
  OrderOf <- MCOrderOf
  MaxRuns = 2
  MaxFaults = 1
CHECK_DEADLOCK FALSE
INVARIANTS
  TypeOK
  CreditedAtMostOnce
  AnswersAgree
  Enqueueable
  OrderFollowed
  CreditOnItsWay
PROPERTIES
  StatusForward
  FollowsLife
  StoredIsSettled
  FirstRunCredits
