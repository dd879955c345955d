SPECIFICATION Spec
CONSTANTS
  o1 = o1
  alice = alice
  bob = bob
  r1 = r1
  r2 = r2
  r3 = r3
  NoOne = NoOne
  Nothing = Nothing
  Users = {alice, bob}
  Numbers = {o1}
  Requests = {r1}
  UserOf <- MCOneUser
  OrderOf <- MCOneOrder
  MaxRuns = 1
  MaxFaults = 0
CHECK_DEADLOCK FALSE
INVARIANT
  InvalidMeansRefused
