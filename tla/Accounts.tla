------------------------------ MODULE Accounts ------------------------------
(***************************************************************************)
(* The commands of RaythaZero.Application/Admins, Users and Roles that     *)
(* make, promote, demote, suspend and delete accounts, give them roles and *)
(* API keys, and make and delete roles.                                    *)
(*                                                                         *)
(* A request of an administrator is authorized (the cookie's account is    *)
(* read again), validated, handled and saved; the first three only read,   *)
(* each at its own time, into one DbContext, and the save is one commit.   *)
(* A request is a slot, idle again when it is over.  E-mail addresses,     *)
(* names and permissions are left out: an account is named by its address, *)
(* and any administrator may send any command.  So are the stamps          *)
(* CreatorUserId and LastModifierUserId: their foreign keys only make more *)
(* saves throw (Fails).                                                    *)
(***************************************************************************)
EXTENDS Integers

CONSTANTS
  Request,     \* slots of concurrent requests
  User,        \* accounts
  Role,        \* roles
  SuperAdmin,  \* the role that cannot be deleted
  Founder,     \* the account made by the setup
  KeyLimit,    \* API keys an account may have (10 in the code)
  Sent,        \* the commands that are sent (a bound)
  NoUser, NoRole

ASSUME AccountAssumption ==
  /\ SuperAdmin \in Role
  /\ Founder \in User
  /\ KeyLimit \in Nat \ {0}
  /\ NoUser \notin User
  /\ NoRole \notin Role

VARIABLES
  \* the tables
  users,       \* the rows of Users
  admins,      \* those with IsAdmin
  active,      \* those with IsActive
  roles,       \* the rows of Roles
  has,         \* the rows <<user, role>> of RoleUser
  keys,        \* how many rows of ApiKeys an account has
  \* the requests
  pc,          \* where a request is
  kind,        \* its command
  user,        \* the account it is about
  role,        \* the role it is about
  form,        \* the roles its form asks for
  own,         \* requests about the account that sent them
  seen,        \* the rows of RoleUser its DbContext tracks, as far as it writes them
  \* history
  stale        \* requests during which another has changed the tables

userVars == <<users, admins, active>>
tableVars == <<userVars, roles, has, keys>>
formVars == <<user, role, form, own>>
requestVars == <<pc, kind, formVars, seen>>
vars == <<tableVars, requestVars, stale>>

\* The commands about an account by its id; those that validators refuse to
\* apply to one's own account; those that public users' pages send.
OnOther == {"removeAdminAccess", "deleteAdmin", "suspendAdmin", "restoreAdmin",
            "deleteUser", "suspendUser", "restoreUser"}
KeyKind == {"createApiKey", "deleteApiKey"}
ById == OnOther \union KeyKind \union {"editAdmin"}
\* "promote" is createAdmin for an account that is there.
ByAddress == {"createAdmin", "createUser", "promote"}
RoleKind == {"createRole", "deleteRole"}
Kind == ById \union ByAddress \union RoleKind

RolesOf(u) == {s \in roles : <<u, s>> \in has}
SeenRoles(r) == {s \in Role : <<user[r], s>> \in seen[r]}
InFlight == {r \in Request : pc[r] # "idle"}

-----------------------------------------------------------------------------
\* The setup makes two roles and one account that has both.
Init ==
  /\ users = {Founder} /\ admins = {Founder} /\ active = {Founder}
  /\ roles = Role
  /\ has = {Founder} \X Role
  /\ keys = [u \in User |-> 0]
  /\ pc = [r \in Request |-> "idle"]
  /\ kind = [r \in Request |-> "none"]
  /\ user = [r \in Request |-> NoUser]
  /\ role = [r \in Request |-> NoRole]
  /\ form = [r \in Request |-> {}]
  /\ own = {}
  /\ seen = [r \in Request |-> {}]
  /\ stale = {}

-----------------------------------------------------------------------------
(* Authorization and validation.                                           *)

\* The account a is signed in, active and an administrator: ValidatePrincipal
\* reads it again, with its roles, into the DbContext of the request.
Start(r, a, k, u, s, f) ==
  /\ pc[r] = "idle"
  /\ k \in Sent
  /\ a \in admins \intersect active
  /\ pc' = [pc EXCEPT ![r] = "validating"]
  /\ kind' = [kind EXCEPT ![r] = k]
  /\ user' = [user EXCEPT ![r] = u]
  /\ role' = [role EXCEPT ![r] = s]
  /\ form' = [form EXCEPT ![r] = f]
  /\ own' = IF u = a THEN own \union {r} ELSE own
  /\ seen' = [seen EXCEPT ![r] =
                {p \in has : /\ p[1] = a
                             /\ \/ k = "editAdmin" /\ u = a
                                \/ k = "deleteRole" /\ p[2] = s}]
  /\ UNCHANGED <<tableVars, stale>>

\* (mutant of StartOnOther: one's own account is not refused)
StartOnAnyone(r, a, k, u) == u \in users /\ Start(r, a, k, u, NoRole, {})

StartOnOther(r, a, k, u) == u \in users \ {a} /\ Start(r, a, k, u, NoRole, {})

StartKey(r, a, k, u) == u \in users /\ Start(r, a, k, u, NoRole, {})

\* "Roles" must not be empty.
StartEditAdmin(r, a, u, f) ==
  u \in users /\ f # {} /\ Start(r, a, "editAdmin", u, NoRole, f)

StartCreateAdmin(r, a, u, f) == f # {} /\ Start(r, a, "createAdmin", u, NoRole, f)

StartCreateUser(r, a, u) == Start(r, a, "createUser", u, NoRole, {})

StartOnRole(r, a, k, s) == Start(r, a, k, NoUser, s, {})

\* A query finds a row by the columns it has now, but what it returns for a row
\* that is tracked is what was read first: the sender is an administrator.
IsAdminTo(r) == user[r] \in admins \/ (r \in own /\ user[r] \in users)

\* (mutant of KeyAllowed: off by one)
KeyAllowedAtLimit(r) == IsAdminTo(r) /\ keys[user[r]] <= KeyLimit

KeyAllowed(r) == IsAdminTo(r) /\ keys[user[r]] < KeyLimit

RoleUnused(r) ==
  /\ role[r] \in roles \ {SuperAdmin}
  /\ \A u \in User : <<u, role[r]>> \notin has \union seen[r]

\* (mutant of PublicAccount: administrators are not refused)
AnyAccount(r) == user[r] \in users

PublicAccount(r) == user[r] \in users \ admins

\* The validator's queries.  The entity an edit of IsActive changes is tracked
\* from here on, and an edit that changes nothing has no save.
Valid(r) ==
  /\ kind[r] = "editAdmin" => user[r] \in users
  /\ kind[r] = "createAdmin" => ~IsAdminTo(r)
  /\ kind[r] = "createUser" => user[r] \notin users
  /\ kind[r] \in {"deleteUser", "suspendUser", "restoreUser"} => PublicAccount(r)
  /\ kind[r] = "suspendUser" => user[r] \in active
  /\ kind[r] = "restoreUser" => user[r] \notin active
  /\ kind[r] = "createApiKey" => KeyAllowed(r)
  /\ kind[r] = "createRole" => role[r] \notin roles
  /\ kind[r] = "deleteRole" => RoleUnused(r)

\* CreateAdmin finds the account by its address, tracked as it is now.
Validate(r) ==
  /\ pc[r] = "validating"
  /\ Valid(r)
  /\ pc' = [pc EXCEPT ![r] = "handling"]
  /\ kind' = IF kind[r] = "createAdmin" /\ user[r] \in users
             THEN [kind EXCEPT ![r] = "promote"] ELSE kind
  /\ UNCHANGED <<tableVars, formVars, seen, stale>>

-----------------------------------------------------------------------------
(* The handlers' queries.                                                  *)

\* The rows of RoleUser that the handler includes.
Included(r) ==
  {p \in has : \/ kind[r] \in {"editAdmin", "removeAdminAccess"} /\ p[1] = user[r]
               \/ kind[r] = "deleteRole" /\ p[2] = role[r]}

\* What the handler looks for is there.  An account that has become an
\* administrator and was not tracked before would be inserted a second time,
\* which the index on addresses refuses.
Found(r) ==
  /\ kind[r] \in {"editAdmin", "removeAdminAccess", "deleteAdmin", "suspendAdmin",
                  "restoreAdmin"} => user[r] \in admins
  /\ kind[r] \in {"deleteUser", "suspendUser", "restoreUser", "createApiKey"}
       => user[r] \in users
  /\ kind[r] = "suspendAdmin" => user[r] \in active
  /\ kind[r] = "restoreAdmin" => user[r] \notin active
  /\ kind[r] = "createAdmin" => user[r] \notin admins
  /\ kind[r] = "editAdmin" => form[r] \subseteq roles \union SeenRoles(r)
  /\ kind[r] \in {"createAdmin", "promote"} => form[r] \subseteq roles
  /\ kind[r] = "deleteApiKey" => keys[user[r]] > 0
  /\ kind[r] = "deleteRole" => role[r] \in roles

Handle(r) ==
  /\ pc[r] = "handling"
  /\ Found(r)
  /\ pc' = [pc EXCEPT ![r] = "saving"]
  /\ kind' = IF kind[r] \in {"createAdmin", "promote"}
             THEN [kind EXCEPT ![r] = IF user[r] \in users THEN "promote"
                                      ELSE "createAdmin"]
             ELSE kind
  /\ seen' = [seen EXCEPT ![r] = @ \union Included(r)]
  /\ UNCHANGED <<tableVars, formVars, stale>>

-----------------------------------------------------------------------------
(* The save.  It writes the differences to what is tracked and throws, as  *)
(* a whole, if a row to update or delete is gone, a row to insert is there *)
(* or a row it refers to is not.                                           *)

Finish(r) ==
  /\ pc' = [pc EXCEPT ![r] = "idle"]
  /\ kind' = [kind EXCEPT ![r] = "none"]
  /\ user' = [user EXCEPT ![r] = NoUser]
  /\ role' = [role EXCEPT ![r] = NoRole]
  /\ form' = [form EXCEPT ![r] = {}]
  /\ own' = own \ {r}
  /\ seen' = [seen EXCEPT ![r] = {}]

\* The commit of the command k overtakes every other request.
Commit(r, k) ==
  /\ pc[r] = "saving"
  /\ kind[r] \in k
  /\ Finish(r)
  /\ stale' = InFlight \ {r}

\* (mutant of SaveEditAdmin: roles are only added)
SaveEditAdminAdding(r) ==
  LET added == {user[r]} \X (form[r] \ SeenRoles(r))
  IN /\ Commit(r, {"editAdmin"})
     /\ user[r] \in users
     /\ form[r] \ SeenRoles(r) \subseteq roles
     /\ added \intersect has = {}
     /\ has' = has \union added
     /\ UNCHANGED <<userVars, roles, keys>>

SaveEditAdmin(r) ==
  LET added == {user[r]} \X (form[r] \ SeenRoles(r))
      removed == {user[r]} \X (SeenRoles(r) \ form[r])
  IN /\ Commit(r, {"editAdmin"})
     /\ user[r] \in users
     /\ form[r] \ SeenRoles(r) \subseteq roles
     /\ added \intersect has = {} /\ removed \subseteq has
     /\ has' = (has \union added) \ removed
     /\ UNCHANGED <<userVars, roles, keys>>

\* (mutant of SaveRemoveAdminAccess: the roles stay)
SaveRemoveAdminOnly(r) ==
  /\ Commit(r, {"removeAdminAccess"})
  /\ user[r] \in users
  /\ admins' = admins \ {user[r]}
  /\ UNCHANGED <<users, active, roles, has, keys>>

SaveRemoveAdminAccess(r) ==
  /\ Commit(r, {"removeAdminAccess"})
  /\ user[r] \in users
  /\ {user[r]} \X SeenRoles(r) \subseteq has
  /\ admins' = admins \ {user[r]}
  /\ has' = has \ ({user[r]} \X SeenRoles(r))
  /\ UNCHANGED <<users, active, roles, keys>>

\* (mutant of SaveDelete: no cascade to RoleUser)
SaveDeleteUncascaded(r) ==
  /\ Commit(r, {"deleteAdmin", "deleteUser"})
  /\ user[r] \in users
  /\ users' = users \ {user[r]}
  /\ admins' = admins \ {user[r]}
  /\ active' = active \ {user[r]}
  /\ keys' = [keys EXCEPT ![user[r]] = 0]
  /\ UNCHANGED <<roles, has>>

\* The rows of RoleUser and ApiKeys go with the account.
SaveDelete(r) ==
  /\ Commit(r, {"deleteAdmin", "deleteUser"})
  /\ user[r] \in users
  /\ users' = users \ {user[r]}
  /\ admins' = admins \ {user[r]}
  /\ active' = active \ {user[r]}
  /\ has' = {p \in has : p[1] # user[r]}
  /\ keys' = [keys EXCEPT ![user[r]] = 0]
  /\ UNCHANGED roles

SaveSuspend(r) ==
  /\ Commit(r, {"suspendAdmin", "suspendUser"})
  /\ user[r] \in users
  /\ active' = active \ {user[r]}
  /\ UNCHANGED <<users, admins, roles, has, keys>>

SaveRestore(r) ==
  /\ Commit(r, {"restoreAdmin", "restoreUser"})
  /\ user[r] \in users
  /\ active' = active \union {user[r]}
  /\ UNCHANGED <<users, admins, roles, has, keys>>

\* Roles the account has already are not looked at, and would be inserted twice.
SavePromote(r) ==
  /\ Commit(r, {"promote"})
  /\ user[r] \in users
  /\ form[r] \subseteq roles
  /\ {user[r]} \X form[r] \intersect has = {}
  /\ admins' = admins \union {user[r]}
  /\ has' = has \union ({user[r]} \X form[r])
  /\ UNCHANGED <<users, active, roles, keys>>

\* An address is not taken again while a request that has tracked the account it
\* belonged to, or names it by its id, is still running.
SaveCreate(r) ==
  /\ Commit(r, {"createAdmin", "createUser"})
  /\ user[r] \notin users
  /\ \A q \in InFlight :
       kind[q] \in ById \union {"promote"} \/ q \in own => q = r \/ user[q] # user[r]
  /\ form[r] \subseteq roles
  /\ users' = users \union {user[r]}
  /\ active' = active \union {user[r]}
  /\ admins' = IF kind[r] = "createAdmin" THEN admins \union {user[r]} ELSE admins
  /\ has' = has \union ({user[r]} \X form[r])
  /\ UNCHANGED <<roles, keys>>

SaveCreateApiKey(r) ==
  /\ Commit(r, {"createApiKey"})
  /\ user[r] \in users
  /\ keys' = [keys EXCEPT ![user[r]] = @ + 1]
  /\ UNCHANGED <<userVars, roles, has>>

\* Keys are counted and not told apart.
SaveDeleteApiKey(r) ==
  /\ Commit(r, {"deleteApiKey"})
  /\ keys[user[r]] > 0
  /\ keys' = [keys EXCEPT ![user[r]] = @ - 1]
  /\ UNCHANGED <<userVars, roles, has>>

SaveCreateRole(r) ==
  /\ Commit(r, {"createRole"})
  /\ role[r] \notin roles
  /\ \A q \in InFlight : kind[q] = "deleteRole" => role[q] # role[r]
  /\ roles' = roles \union {role[r]}
  /\ UNCHANGED <<userVars, has, keys>>

\* The rows of RoleUser go with the role, also those it does not track.
SaveDeleteRole(r) ==
  /\ Commit(r, {"deleteRole"})
  /\ role[r] \in roles
  /\ seen[r] \subseteq has
  /\ roles' = roles \ {role[r]}
  /\ has' = {p \in has : p[2] # role[r]}
  /\ UNCHANGED <<userVars, keys>>

\* The validator refuses, something is not found, there is nothing to save, a query
\* or the save throws: an account that other rows name in a stamp cannot be deleted,
\* and a sender who is deleted meanwhile cannot stamp a row.
Fails(r) ==
  /\ pc[r] # "idle"
  /\ Finish(r)
  /\ stale' = stale \ {r}
  /\ UNCHANGED tableVars

-----------------------------------------------------------------------------
Starts(r, a) ==
  \/ \E k \in OnOther, u \in User : StartOnOther(r, a, k, u)
  \/ \E k \in KeyKind, u \in User : StartKey(r, a, k, u)
  \/ \E u \in User, f \in SUBSET roles : StartEditAdmin(r, a, u, f)
  \/ \E u \in User, f \in SUBSET roles : StartCreateAdmin(r, a, u, f)
  \/ \E u \in User : StartCreateUser(r, a, u)
  \/ \E k \in RoleKind, s \in Role : StartOnRole(r, a, k, s)

Saves(r) ==
  \/ SaveEditAdmin(r)
  \/ SaveRemoveAdminAccess(r)
  \/ SaveDelete(r)
  \/ SaveSuspend(r)
  \/ SaveRestore(r)
  \/ SavePromote(r)
  \/ SaveCreate(r)
  \/ SaveCreateApiKey(r)
  \/ SaveDeleteApiKey(r)
  \/ SaveCreateRole(r)
  \/ SaveDeleteRole(r)

Next ==
  \/ \E r \in Request, a \in User : Starts(r, a)
  \/ \E r \in Request : Validate(r)
  \/ \E r \in Request : Handle(r)
  \/ \E r \in Request : Saves(r)
  \/ \E r \in Request : Fails(r)

Spec == Init /\ [][Next]_vars

-----------------------------------------------------------------------------
(* Properties.                                                             *)

\* Every variable has its type; no join row and no key is left dangling.
TypeOK ==
  /\ users \subseteq User
  /\ admins \subseteq users
  /\ active \subseteq users
  /\ roles \subseteq Role
  /\ has \subseteq users \X roles
  /\ keys \in [User -> Nat]
  /\ \A u \in User \ users : keys[u] = 0
  /\ pc \in [Request -> {"idle", "validating", "handling", "saving"}]
  /\ kind \in [Request -> Kind \union {"none"}]
  /\ user \in [Request -> User \union {NoUser}]
  /\ role \in [Request -> Role \union {NoRole}]
  /\ form \in [Request -> SUBSET Role]
  /\ own \subseteq Request
  /\ seen \in [Request -> SUBSET (User \X Role)]
  /\ stale \subseteq Request

\* A request commits during which another one has changed the tables.
OvertakenCommit == \E r \in stale : pc[r] = "saving" /\ pc'[r] = "idle"

\* That nobody may demote, suspend or delete his own account is enough to keep an
\* active administrator, unless two of them overlap.
LastAdminLostByRace ==
  [][admins \intersect active # {} /\ (admins \intersect active)' = {}
       => OvertakenCommit]_vars

\* Roles and administrators go together: only overlapping requests leave an
\* administrator without a role, or a role with an account that is none.
RolesFitExceptByRace ==
  [][\A u \in User :
       (u \in admins' <=> RolesOf(u)' # {}) \/ ~(u \in admins <=> RolesOf(u) # {})
         \/ OvertakenCommit]_vars

\* A request of the users' pages commits a deletion or a suspension.
TakenByUsersPage(r) ==
  /\ pc[r] = "saving" /\ pc'[r] = "idle"
  /\ kind[r] \in {"deleteUser", "suspendUser"}
  /\ users' # users \/ active' # active

\* "You cannot delete another administrator account." and "You cannot change the
\* status of another administrator account.": what the users' pages send does not
\* touch an administrator, unless it became one meanwhile.
AdministratorsKept ==
  [][\A r \in Request : TakenByUsersPage(r) => user[r] \notin admins \/ r \in stale]_vars

\* A key is added only to an administrator with fewer than KeyLimit of them, unless
\* requests overlap.
KeysWithinRules ==
  [][\A u \in User :
       keys'[u] > keys[u] => (u \in admins /\ keys[u] < KeyLimit) \/ OvertakenCommit]_vars

\* (does not hold) "You have already hit your limit of 10 api keys per user."
KeyLimitKept == \A u \in User : keys[u] <= KeyLimit

-----------------------------------------------------------------------------
(* The abstract specification.                                             *)

Book == INSTANCE AccountBook WITH asked <- form, open <- InFlight, overtaken <- stale

\* Authorization, validators, tracked entities and saves come to commands that are
\* authorized, checked and done in one step, as far as no other request has
\* overtaken them; overtaken ones still touch only what they are about.
ImplementsBook == Book!Spec
=============================================================================
