SPECIFICATION Spec
CONSTANTS
  r1 = r1
  r2 = r2
  email = email
  magic = magic
  sso1 = sso1
  sso2 = sso2
  Request = {r1, r2}
  Scheme = {email, magic, sso1, sso2}
  BuiltIn = {email, magic}
  ByEmail = email
  Name = {email, magic, sso1}
SYMMETRY RequestSymmetry
INVARIANTS
  SomeSchemeForAdmins
