SPECIFICATION Spec
CONSTANTS
  r1 = r1
  r2 = r2
  r3 = r3
  alice = alice
  bob = bob
  Request = {r1, r2, r3}
  User = {alice}
  Admin = {alice}
  Faults = {"mail", "save", "reply"}
  NoUser = NoUser
  NoToken = NoToken
SYMMETRY RequestSymmetry
CONSTRAINT EditsMatter
INVARIANTS
  TypeOK
  NoLateCompletion
  UsedMeansConsumed
  StoredLinkWasMailed
  ResetWasAnnounced
  AuditTrail
PROPERTIES
  ReplacedKnowingly
  ImplementsLinks
