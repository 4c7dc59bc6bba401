SPECIFICATION Spec
CONSTANTS
  r1 = r1
  r2 = r2
  r3 = r3
  alice = alice
  bob = bob
  Request = {r1, r2, r3}
  User = {bob}
  Admin = {}
  Faults = {}
  NoUser = NoUser
  NoToken = NoToken
SYMMETRY RequestSymmetry
CONSTRAINT EditsMatter
INVARIANT AcceptedResetIsMailed
