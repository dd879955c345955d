SPECIFICATION FairLoyaltySpec
CONSTANTS
  alice = alice
  bob = bob
  w1 = w1
  w2 = w2
  w3 = w3
  w4 = w4
  c1 = c1
  c2 = c2
  c3 = c3
  p = p
  q = q
  o1 = o1
  o2 = o2
  NoOne = NoOne
  Users = {alice, bob}
  Withdrawals = {w1, w2, w3, w4}
  Credits = {c1, c2, c3}
  UserOf <- MCUserOf
  OrderOf <- MCOrderOf
  ValidOrders = {p, q}
  Asked <- MCAsked
  MaxInt = 150
  Numbers = {o1, o2}
  NumberOf <- MCNumberOf
  MaxFaults = 2
CHECK_DEADLOCK FALSE
INVARIANTS
  TypeOK
  Conservation
  HistoryAddsUp
  AnswersMatchHistory
  CreditsAreEarned
  PointsAreEarned
PROPERTIES
  DebitsAreRecorded
  WithdrawalsEnd
