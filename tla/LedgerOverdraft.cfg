SPECIFICATION Spec
CONSTANTS
  alice = alice
  w1 = w1
  w2 = w2
  c1 = c1
  p = p
  q = q
  Users = {alice}
  Withdrawals = {w1, w2}
  Credits = {c1}
  UserOf <- MCUserOf
  OrderOf <- MCOrderOf
  ValidOrders = {p, q}
  Asked <- MCAsked
  MaxInt = 100
  MaxFaults = 0
CHECK_DEADLOCK FALSE
INVARIANT
  NoOverdraft
