SPECIFICATION Spec
CONSTANTS
  alice = alice
  bob = bob
  p1 = p1
  p2 = p2
  g1 = g1
  g2 = g2
  g3 = g3
  g4 = g4
  l1 = l1
  l2 = l2
  NoUser = NoUser
  Logins = {alice, bob}
  Passwords = {p1, p2}
  Registrations = {g1, g2, g3, g4}
  LoginRequests = {l1, l2}
  LoginOf <- MCLoginOf
  PasswordOf <- MCPasswordOf
  Invalid = {g4}
  MaxRuns = 3
  MaxFaults = 1
CHECK_DEADLOCK FALSE
INVARIANTS
  TypeOK
  TokensStayValid
  OneOwnerPerLogin
  OnlyUnsaltedLockedOut
