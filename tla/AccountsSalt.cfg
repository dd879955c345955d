SPECIFICATION Spec
CONSTANTS
  alice = alice
  bob = bob
  p1 = p1
  p2 = p2
  g1 = g1
  g2 = g2
  g3 = g3
  g4 = g4
  l1 = l1
  l2 = l2
  NoUser = NoUser
  Logins = {alice}
  Passwords = {p1}
  Registrations = {g1}
  LoginRequests = {l1}
  LoginOf <- MCOneLogin
  PasswordOf <- MCOnePassword
  Invalid = {}
  MaxRuns = 2
  MaxFaults = 0
CHECK_DEADLOCK FALSE
INVARIANT
  RegisteredCanLogIn
