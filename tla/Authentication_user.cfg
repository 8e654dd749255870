CONSTANTS
  alice = alice
  bob = bob
  pa = pa
  pb = pb
  Users = {alice, bob}
  Passwords = {pa, pb}
  NoPassword = NoPassword
  RightPassword <- RightPasswords
  RememberedPassword <- RememberedPasswords
  NoUser = NoUser
  Controllers = {k1, k2}
  AuthThreads = {t1, t2}
  UIThread = ui
  MaxDialogs = 2
CHECK_DEADLOCK FALSE
SPECIFICATION AuthSpec
INVARIANTS
  CurrentUserIsAuthenticated
