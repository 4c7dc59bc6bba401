SPECIFICATION Spec
CONSTANTS
  r1 = r1
  r2 = r2
  alice = alice
  bob = bob
  super = super
  plain = plain
  Request = {r1, r2}
  User = {alice, bob}
  Role = {super, plain}
  SuperAdmin = super
  Founder = alice
  KeyLimit = 1
  Sent <- AboutAccounts
  NoUser = NoUser
  NoRole = NoRole
\* With the last active administrator gone no command can be sent any more.
CHECK_DEADLOCK FALSE
CONSTRAINT RequestsMeet
SYMMETRY RequestSymmetry
INVARIANTS
  TypeOK
PROPERTIES
  LastAdminLostByRace
  RolesFitExceptByRace
  AdministratorsKept
  ImplementsBook
