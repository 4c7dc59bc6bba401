--------------------------- MODULE AccountsProofs ---------------------------
(***************************************************************************)
(* Proofs about Accounts, for any number of requests, accounts, roles and  *)
(* keys.                                                                   *)
(*                                                                         *)
(* The invariant says what a request knows: as long as nobody has changed  *)
(* the tables since it began, its sender is still an active administrator, *)
(* and what was validated and read still holds.                            *)
(***************************************************************************)
EXTENDS Accounts, TLAPS

\* What a request is about; idle ones have no history.
FormInv ==
  \A r \in Request :
    /\ pc[r] = "idle" => r \notin stale /\ r \notin own
    /\ pc[r] # "idle" => kind[r] \in Kind
    /\ pc[r] = "validating" => kind[r] # "promote"
    /\ kind[r] \in ById \union ByAddress => user[r] \in User
    /\ kind[r] \in RoleKind => role[r] \in Role
    /\ kind[r] \in {"editAdmin", "createAdmin", "promote"} => form[r] # {}
    /\ kind[r] = "createUser" => form[r] = {}
    /\ kind[r] = "deleteRole" /\ pc[r] \in {"handling", "saving"} => role[r] # SuperAdmin

\* What the sender and the authorization have to do with it.
Authorized(r) ==
  /\ admins \intersect active # {}
  /\ kind[r] \in OnOther => \E a \in admins \intersect active : a # user[r]
  /\ r \in own => user[r] \in admins
  /\ seen[r] \subseteq has

\* What the validator has checked.
Checked(r) ==
  /\ kind[r] \in {"deleteUser", "suspendUser", "createAdmin", "promote"} =>
       user[r] \notin admins
  /\ kind[r] = "suspendUser" => user[r] \in active
  /\ kind[r] = "restoreUser" => user[r] \notin active
  /\ kind[r] = "createApiKey" => user[r] \in admins /\ keys[user[r]] < KeyLimit
  /\ kind[r] = "deleteRole" => \A p \in has : p[2] # role[r]

\* What the handler has read.
Loaded(r) ==
  /\ kind[r] \in {"editAdmin", "removeAdminAccess"} =>
       /\ user[r] \in admins
       /\ \A p \in has : p[1] = user[r] => p \in seen[r]
  /\ kind[r] = "suspendAdmin" => user[r] \in active
  /\ kind[r] = "restoreAdmin" => user[r] \notin active

FreshInv ==
  \A r \in Request \ stale :
    pc[r] # "idle" =>
      /\ Authorized(r)
      /\ pc[r] # "validating" => Checked(r)
      /\ pc[r] = "saving" => Loaded(r)

IInv == TypeOK /\ FormInv /\ FreshInv

\* The invariant holds initially.
LEMMA InitIInv == Init => IInv
<1> SUFFICES ASSUME Init PROVE IInv
  OBVIOUS
<1>1. TypeOK
  BY AccountAssumption DEF Init, TypeOK
<1>2. FormInv /\ FreshInv
  BY DEF Init, FormInv, FreshInv, ById, ByAddress, RoleKind, OnOther, KeyKind
<1> QED
  BY <1>1, <1>2 DEF IInv

-----------------------------------------------------------------------------
(* Requests.                                                               *)

\* A request that starts is typed, formed and fresh.
LEMMA StartStep ==
  ASSUME IInv, NEW r \in Request, NEW a \in User, NEW k \in Kind,
         NEW u \in User \union {NoUser}, NEW s \in Role \union {NoRole},
         NEW f \in SUBSET Role, Start(r, a, k, u, s, f),
         k # "promote", k \in OnOther => u # a,
         k \in ById \union ByAddress => u \in User,
         k \in RoleKind => s \in Role,
         k \in {"editAdmin", "createAdmin", "promote"} => f # {},
         k = "createUser" => f = {}
  PROVE  IInv'
<1>0. TypeOK /\ FormInv /\ FreshInv
  BY DEF IInv
<1> DEFINE tracked == {p \in has : /\ p[1] = a
                                   /\ \/ k = "editAdmin" /\ u = a
                                      \/ k = "deleteRole" /\ p[2] = s}
<1>1. tracked \subseteq has /\ tracked \in SUBSET (User \X Role)
  BY <1>0 DEF TypeOK
<1>2. TypeOK'
  <2> HIDE DEF tracked
  <2>1. seen' = [seen EXCEPT ![r] = tracked]
    BY DEF Start, tracked
  <2> QED
    BY <1>0, <1>1, <2>1 DEF TypeOK, Start, tableVars, userVars
<1>3. FormInv'
  BY <1>0 DEF TypeOK, FormInv, Start
<1>4. FreshInv'
  <2> SUFFICES ASSUME NEW q \in Request, q \notin stale', pc'[q] # "idle"
               PROVE  /\ Authorized(q)'
                      /\ pc'[q] # "validating" => Checked(q)'
                      /\ pc'[q] = "saving" => Loaded(q)'
    BY DEF FreshInv
  <2>1. CASE q = r
    <3>1. /\ pc'[r] = "validating" /\ kind'[r] = k /\ user'[r] = u
          /\ seen'[r] = tracked
      BY <1>0 DEF TypeOK, Start
    <3>2. r \in own' => u = a
      BY <1>0 DEF FormInv, Start
    <3>3. a \in admins \intersect active /\ admins' = admins /\ active' = active /\ has' = has
      BY DEF Start, tableVars, userVars
    <3>4. Authorized(r)'
      <4> HIDE DEF tracked
      <4> QED
        BY <3>1, <3>2, <3>3, <1>1 DEF Authorized
    <3> QED
      BY <2>1, <3>1, <3>4
  <2>2. CASE q # r
    <3>1. /\ pc'[q] = pc[q] /\ kind'[q] = kind[q] /\ user'[q] = user[q]
          /\ role'[q] = role[q] /\ seen'[q] = seen[q] /\ (q \in own' <=> q \in own)
          /\ UNCHANGED <<tableVars, stale>>
      BY <1>0, <2>2 DEF TypeOK, Start
    <3> QED
      BY <1>0, <3>1 DEF FreshInv, Authorized, Checked, Loaded, tableVars, userVars
  <2> QED
    BY <2>1, <2>2
<1> QED
  BY <1>2, <1>3, <1>4 DEF IInv

\* What a step that only reads leaves as it is.
LEMMA OthersKeep ==
  ASSUME IInv, NEW r \in Request, NEW q \in Request, q # r,
         q \notin stale, pc[q] # "idle",
         UNCHANGED <<tableVars, formVars, stale>>,
         pc'[q] = pc[q], kind'[q] = kind[q], seen'[q] = seen[q]
  PROVE  /\ Authorized(q)'
         /\ pc'[q] # "validating" => Checked(q)'
         /\ pc'[q] = "saving" => Loaded(q)'
BY DEF IInv, FreshInv, Authorized, Checked, Loaded, formVars, tableVars, userVars

\* Validation checks what a fresh request relies on.
LEMMA ValidateStep ==
  ASSUME IInv, NEW r \in Request, Validate(r)
  PROVE  IInv'
<1>0. TypeOK /\ FormInv /\ FreshInv
  BY DEF IInv
<1>1. TypeOK'
  BY <1>0 DEF TypeOK, Validate, tableVars, userVars, formVars, Kind, ByAddress
<1>2. FormInv'
  <2>1. kind[r] = "deleteRole" => role[r] # SuperAdmin
    BY DEF Validate, Valid, RoleUnused
  <2> QED
    BY <1>0, <2>1 DEF TypeOK, FormInv, Validate, formVars, Kind, ById, ByAddress,
                      RoleKind, OnOther, KeyKind
<1>3. FreshInv'
  <2> SUFFICES ASSUME NEW q \in Request, q \notin stale', pc'[q] # "idle"
               PROVE  /\ Authorized(q)'
                      /\ pc'[q] # "validating" => Checked(q)'
                      /\ pc'[q] = "saving" => Loaded(q)'
    BY DEF FreshInv
  <2>0. UNCHANGED <<tableVars, formVars, seen, stale>>
    BY DEF Validate
  <2>1. CASE q = r
    <3>1. pc[r] = "validating" /\ pc'[r] = "handling"
      BY <1>0 DEF TypeOK, Validate
    <3>2. kind'[r] = kind[r] \/ (kind[r] = "createAdmin" /\ kind'[r] = "promote")
      BY <1>0 DEF TypeOK, Validate
    <3>3. Authorized(r)
      BY <1>0, <2>0, <2>1, <3>1 DEF FreshInv
    <3>4. Authorized(r)'
      BY <2>0, <3>2, <3>3 DEF Authorized, formVars, tableVars, userVars, OnOther
    <3>5. Checked(r)
      <4>1. Valid(r)
        BY DEF Validate
      <4>2. /\ kind[r] \in {"deleteUser", "suspendUser", "createAdmin"} => user[r] \notin admins
            /\ kind[r] = "suspendUser" => user[r] \in active
            /\ kind[r] = "restoreUser" => user[r] \notin active
        BY <4>1 DEF Valid, PublicAccount, IsAdminTo
      <4>5. kind[r] # "promote"
        BY <1>0, <3>1 DEF FormInv
      <4>3. kind[r] = "createApiKey" => user[r] \in admins /\ keys[user[r]] < KeyLimit
        BY <4>1, <3>3 DEF Valid, KeyAllowed, IsAdminTo, Authorized
      <4>4. kind[r] = "deleteRole" => \A p \in has : p[2] # role[r]
        <5> SUFFICES ASSUME kind[r] = "deleteRole", NEW p \in has, p[2] = role[r]
                     PROVE FALSE
          OBVIOUS
        <5>1. PICK u \in users, s \in roles : p = <<u, s>>
          BY <1>0 DEF TypeOK
        <5>2. u \in User /\ s = role[r]
          BY <1>0, <5>1 DEF TypeOK
        <5> QED
          BY <4>1, <5>1, <5>2 DEF Valid, RoleUnused
      <4> QED
        BY <4>2, <4>3, <4>4, <4>5 DEF Checked
    <3>6. Checked(r)'
      BY <2>0, <3>2, <3>5 DEF Checked, formVars, tableVars, userVars
    <3> QED
      BY <2>1, <3>1, <3>4, <3>6
  <2>2. CASE q # r
    <3>1. pc'[q] = pc[q] /\ kind'[q] = kind[q] /\ seen'[q] = seen[q]
      BY <1>0, <2>0, <2>2 DEF TypeOK, Validate
    <3> QED
      BY <2>0, <2>2, <3>1, OthersKeep
  <2> QED
    BY <2>1, <2>2
<1> QED
  BY <1>1, <1>2, <1>3 DEF IInv

\* The handler's queries load what the save of a fresh request differs from.
LEMMA HandleStep ==
  ASSUME IInv, NEW r \in Request, Handle(r)
  PROVE  IInv'
<1>0. TypeOK /\ FormInv /\ FreshInv
  BY DEF IInv
<1>1. Included(r) \subseteq has /\ Included(r) \in SUBSET (User \X Role)
  BY <1>0 DEF Included, TypeOK
<1>2. TypeOK'
  BY <1>0, <1>1 DEF TypeOK, Handle, tableVars, userVars, formVars, Kind, ByAddress
<1>3. FormInv'
  BY <1>0 DEF TypeOK, FormInv, Handle, formVars, Kind, ById, ByAddress, RoleKind,
              OnOther, KeyKind
<1>4. FreshInv'
  <2> SUFFICES ASSUME NEW q \in Request, q \notin stale', pc'[q] # "idle"
               PROVE  /\ Authorized(q)'
                      /\ pc'[q] # "validating" => Checked(q)'
                      /\ pc'[q] = "saving" => Loaded(q)'
    BY DEF FreshInv
  <2>0. UNCHANGED <<tableVars, formVars, stale>>
    BY DEF Handle
  <2>1. CASE q = r
    <3>1. pc[r] = "handling" /\ pc'[r] = "saving"
      BY <1>0 DEF TypeOK, Handle
    <3>2. \/ kind'[r] = kind[r]
          \/ kind[r] \in {"promote", "createAdmin"} /\ kind'[r] \in {"promote", "createAdmin"}
      BY <1>0 DEF TypeOK, Handle
    <3>3. seen'[r] = seen[r] \union Included(r)
      BY <1>0 DEF TypeOK, Handle
    <3>4. Authorized(r) /\ Checked(r)
      BY <1>0, <2>0, <2>1, <3>1 DEF FreshInv
    <3>5. Authorized(r)'
      BY <1>1, <2>0, <3>2, <3>3, <3>4
         DEF Authorized, formVars, tableVars, userVars, OnOther
    <3>6. Checked(r)'
      BY <2>0, <3>2, <3>4 DEF Checked, formVars, tableVars, userVars
    <3>7. Loaded(r)'
      <4>1. ASSUME kind'[r] \in {"editAdmin", "removeAdminAccess"}
            PROVE  /\ user[r] \in admins
                   /\ \A p \in has : p[1] = user[r] => p \in seen'[r]
        BY <3>2, <3>3, <4>1 DEF Handle, Found, Included
      <4>2. /\ kind'[r] = "suspendAdmin" => user[r] \in active
            /\ kind'[r] = "restoreAdmin" => user[r] \notin active
        BY <3>2 DEF Handle, Found
      <4> QED
        BY <2>0, <4>1, <4>2 DEF Loaded, formVars, tableVars, userVars
    <3> QED
      BY <2>1, <3>5, <3>6, <3>7
  <2>2. CASE q # r
    <3>1. pc'[q] = pc[q] /\ kind'[q] = kind[q] /\ seen'[q] = seen[q]
      BY <1>0, <2>2 DEF TypeOK, Handle
    <3> QED
      BY <2>0, <2>2, <3>1, OthersKeep
  <2> QED
    BY <2>1, <2>2
<1> QED
  BY <1>2, <1>3, <1>4 DEF IInv

\* A commit makes every other request stale; a failure leaves the tables alone.
LEMMA FinishKeeps ==
  ASSUME IInv, NEW r \in Request, Finish(r),
         \/ stale' = InFlight \ {r}
         \/ stale' = stale \ {r} /\ UNCHANGED tableVars
  PROVE  /\ FormInv' /\ FreshInv'
         /\ pc' \in [Request -> {"idle", "validating", "handling", "saving"}]
         /\ kind' \in [Request -> Kind \union {"none"}]
         /\ user' \in [Request -> User \union {NoUser}]
         /\ role' \in [Request -> Role \union {NoRole}]
         /\ form' \in [Request -> SUBSET Role]
         /\ own' \subseteq Request
         /\ seen' \in [Request -> SUBSET (User \X Role)]
         /\ stale' \subseteq Request
<1>0. TypeOK /\ FormInv /\ FreshInv
  BY DEF IInv
<1>1. FormInv'
  BY <1>0 DEF TypeOK, FormInv, Finish, InFlight, ById, ByAddress, RoleKind, OnOther, KeyKind
<1>2. FreshInv'
  <2> SUFFICES ASSUME NEW q \in Request, q \notin stale', pc'[q] # "idle"
               PROVE  /\ Authorized(q)'
                      /\ pc'[q] # "validating" => Checked(q)'
                      /\ pc'[q] = "saving" => Loaded(q)'
    BY DEF FreshInv
  <2>1. /\ q # r /\ pc'[q] = pc[q] /\ kind'[q] = kind[q] /\ user'[q] = user[q]
        /\ role'[q] = role[q] /\ seen'[q] = seen[q] /\ (q \in own' <=> q \in own)
    BY <1>0 DEF TypeOK, Finish
  <2>2. q \notin stale /\ UNCHANGED tableVars
    BY <1>0, <2>1 DEF InFlight
  <2> QED
    BY <1>0, <2>1, <2>2 DEF FreshInv, Authorized, Checked, Loaded, tableVars, userVars
<1> QED
  BY <1>0, <1>1, <1>2 DEF TypeOK, Finish, InFlight

\* The end of a request keeps the invariant if the tables keep their types.
LEMMA FinishStep ==
  ASSUME IInv, NEW r \in Request, Finish(r),
         \/ stale' = InFlight \ {r}
         \/ stale' = stale \ {r} /\ UNCHANGED tableVars,
         users' \subseteq User, admins' \subseteq users', active' \subseteq users',
         roles' \subseteq Role, has' \subseteq users' \X roles',
         keys' \in [User -> Nat], \A u \in User \ users' : keys'[u] = 0
  PROVE  IInv'
BY FinishKeeps DEF IInv, TypeOK

-----------------------------------------------------------------------------
(* Saves.                                                                  *)

\* A saving request that was not overtaken knows what the properties are about.
LEMMA SavingKnows ==
  ASSUME IInv, NEW r \in Request, pc[r] = "saving", r \notin stale
  PROVE  Authorized(r) /\ Checked(r) /\ Loaded(r)
BY DEF IInv, FreshInv

\* Every save keeps the invariant.
LEMMA SaveStep ==
  ASSUME IInv, NEW r \in Request, Saves(r)
  PROVE  IInv'
<1>0. TypeOK /\ FormInv
  BY DEF IInv
<1>1. CASE SaveEditAdmin(r)
  <2>1. user[r] \in users /\ form[r] \ SeenRoles(r) \subseteq roles
    BY <1>1 DEF SaveEditAdmin
  <2>2. has' \subseteq users \X roles
    BY <1>0, <1>1, <2>1 DEF TypeOK, SaveEditAdmin
  <2> QED
    BY <1>0, <1>1, <2>2, FinishStep DEF TypeOK, SaveEditAdmin, Commit, userVars
<1>2. CASE SaveRemoveAdminAccess(r)
  BY <1>0, <1>2, FinishStep DEF TypeOK, SaveRemoveAdminAccess, Commit
<1>3. CASE SaveDelete(r)
  <2>1. user[r] \in User
    BY <1>0, <1>3 DEF TypeOK, SaveDelete
  <2>2. has' \subseteq users' \X roles'
    BY <1>0, <1>3 DEF TypeOK, SaveDelete
  <2>3. keys' \in [User -> Nat] /\ \A u \in User \ users' : keys'[u] = 0
    BY <1>0, <1>3, <2>1 DEF TypeOK, SaveDelete
  <2> QED
    BY <1>0, <1>3, <2>2, <2>3, FinishStep DEF TypeOK, SaveDelete, Commit
<1>4. CASE SaveSuspend(r) \/ SaveRestore(r)
  BY <1>0, <1>4, FinishStep DEF TypeOK, SaveSuspend, SaveRestore, Commit
<1>5. CASE SavePromote(r)
  BY <1>0, <1>5, FinishStep DEF TypeOK, SavePromote, Commit
<1>6. CASE SaveCreate(r)
  <2>1. user[r] \in User
    BY <1>0, <1>6 DEF FormInv, SaveCreate, Commit, ByAddress
  <2>2. users' = users \union {user[r]} /\ roles' = roles
    BY <1>6 DEF SaveCreate
  <2>3. has' \subseteq users' \X roles'
    BY <1>0, <1>6, <2>2 DEF TypeOK, SaveCreate
  <2> QED
    BY <1>0, <1>6, <2>1, <2>3, FinishStep DEF TypeOK, SaveCreate, Commit
<1>7. CASE SaveCreateApiKey(r)
  BY <1>0, <1>7, FinishStep DEF TypeOK, SaveCreateApiKey, Commit, userVars
<1>8. CASE SaveDeleteApiKey(r)
  <2>1. user[r] \in User
    BY <1>0, <1>8 DEF FormInv, SaveDeleteApiKey, Commit, ById, KeyKind
  <2>2. keys' \in [User -> Nat] /\ \A u \in User \ users' : keys'[u] = 0
    BY <1>0, <1>8, <2>1 DEF TypeOK, SaveDeleteApiKey, userVars
  <2> QED
    BY <1>0, <1>8, <2>2, FinishStep DEF TypeOK, SaveDeleteApiKey, Commit, userVars
<1>9. CASE SaveCreateRole(r)
  <2>1. role[r] \in Role
    BY <1>0, <1>9 DEF FormInv, SaveCreateRole, Commit, RoleKind
  <2> QED
    BY <1>0, <1>9, <2>1, FinishStep DEF TypeOK, SaveCreateRole, Commit, userVars
<1>10. CASE SaveDeleteRole(r)
  BY <1>0, <1>10, FinishStep DEF TypeOK, SaveDeleteRole, Commit, userVars
<1> QED
  BY <1>1, <1>2, <1>3, <1>4, <1>5, <1>6, <1>7, <1>8, <1>9, <1>10 DEF Saves

\* Every start keeps the invariant.
LEMMA StartsStep ==
  ASSUME IInv, NEW r \in Request, NEW a \in User, Starts(r, a)
  PROVE  IInv'
<1> USE DEF Kind, ById, ByAddress, RoleKind, OnOther, KeyKind
<1>0. users \subseteq User /\ roles \subseteq Role
  BY DEF IInv, TypeOK
<1>1. ASSUME NEW k \in OnOther, NEW u \in User, StartOnOther(r, a, k, u) PROVE IInv'
  BY <1>1, StartStep DEF StartOnOther
<1>2. ASSUME NEW k \in KeyKind, NEW u \in User, StartKey(r, a, k, u) PROVE IInv'
  BY <1>2, StartStep DEF StartKey
<1>3. ASSUME NEW u \in User, NEW f \in SUBSET roles, StartEditAdmin(r, a, u, f) PROVE IInv'
  BY <1>0, <1>3, StartStep DEF StartEditAdmin
<1>4. ASSUME NEW u \in User, NEW f \in SUBSET roles, StartCreateAdmin(r, a, u, f) PROVE IInv'
  BY <1>0, <1>4, StartStep DEF StartCreateAdmin
<1>5. ASSUME NEW u \in User, StartCreateUser(r, a, u) PROVE IInv'
  BY <1>5, StartStep DEF StartCreateUser
<1>6. ASSUME NEW k \in RoleKind, NEW s \in Role, StartOnRole(r, a, k, s) PROVE IInv'
  BY <1>6, StartStep DEF StartOnRole
<1> QED
  BY <1>1, <1>2, <1>3, <1>4, <1>5, <1>6 DEF Starts

\* Every step keeps the invariant.
LEMMA IInvStep == IInv /\ [Next]_vars => IInv'
<1> SUFFICES ASSUME IInv, [Next]_vars PROVE IInv'
  OBVIOUS
<1>1. ASSUME NEW r \in Request, Fails(r) PROVE IInv'
  BY <1>1, FinishStep DEF IInv, TypeOK, Fails, tableVars, userVars
<1>2. ASSUME UNCHANGED vars PROVE IInv'
  BY <1>2 DEF IInv, TypeOK, FormInv, FreshInv, Authorized, Checked, Loaded, vars,
              tableVars, userVars, requestVars, formVars
<1> QED
  BY <1>1, <1>2, StartsStep, ValidateStep, HandleStep, SaveStep DEF Next

\* The invariant always holds.
THEOREM Invariant == Spec => []IInv
<1> QED
  BY InitIInv, IInvStep, PTL DEF Spec

\* Every variable has its type, and no join row and no key is left dangling.
THEOREM TypeCorrect == Spec => []TypeOK
<1>1. IInv => TypeOK
  BY DEF IInv
<1> QED
  BY <1>1, Invariant, PTL

-----------------------------------------------------------------------------
(* The action properties.                                                  *)

\* The tables change in saves only; one that was not overtaken knows enough.
LEMMA OnlySaves ==
  ASSUME IInv, [Next]_vars
  PROVE  \/ UNCHANGED tableVars
         \/ OvertakenCommit
         \/ \E r \in Request : Saves(r) /\ Authorized(r) /\ Checked(r) /\ Loaded(r)
<1>1. ASSUME NEW r \in Request, NEW a \in User, Starts(r, a) PROVE UNCHANGED tableVars
  BY <1>1 DEF Starts, StartOnOther, StartKey, StartEditAdmin, StartCreateAdmin,
              StartCreateUser, StartOnRole, Start
<1>2. ASSUME NEW r \in Request, Validate(r) \/ Handle(r) \/ Fails(r)
      PROVE UNCHANGED tableVars
  BY <1>2 DEF Validate, Handle, Fails
<1>3. ASSUME UNCHANGED vars PROVE UNCHANGED tableVars
  BY <1>3 DEF vars
<1>4. ASSUME NEW r \in Request, Saves(r)
      PROVE  OvertakenCommit \/ (Authorized(r) /\ Checked(r) /\ Loaded(r))
  <2>1. pc[r] = "saving" /\ Finish(r)
    BY <1>4 DEF Saves, SaveEditAdmin, SaveRemoveAdminAccess, SaveDelete, SaveSuspend,
                SaveRestore, SavePromote, SaveCreate, SaveCreateApiKey, SaveDeleteApiKey,
                SaveCreateRole, SaveDeleteRole, Commit
  <2>2. pc'[r] = "idle"
    BY <2>1 DEF Finish, IInv, TypeOK
  <2> QED
    BY <2>1, <2>2, SavingKnows DEF OvertakenCommit
<1> QED
  BY <1>1, <1>2, <1>3, <1>4 DEF Next

\* The last active administrator is lost only by requests that overlap.
THEOREM LastAdminSafe == Spec => LastAdminLostByRace
<1>1. ASSUME IInv, [Next]_vars,
             admins \intersect active # {}, (admins \intersect active)' = {}
      PROVE  OvertakenCommit
  <2> SUFFICES ASSUME ~OvertakenCommit PROVE FALSE
    OBVIOUS
  <2>0. ~UNCHANGED tableVars
    BY <1>1 DEF tableVars, userVars
  <2>1. PICK r \in Request : Saves(r) /\ Authorized(r)
    BY <1>1, <2>0, OnlySaves
  <2>2. CASE SaveRemoveAdminAccess(r) \/ SaveDelete(r) \/ SaveSuspend(r)
    <3>1. kind[r] \in OnOther
      BY <2>2 DEF SaveRemoveAdminAccess, SaveDelete, SaveSuspend, Commit, OnOther
    <3>2. PICK a \in admins \intersect active : a # user[r]
      BY <2>1, <3>1 DEF Authorized
    <3>3. a \in admins' /\ a \in active'
      BY <2>2, <3>2 DEF SaveRemoveAdminAccess, SaveDelete, SaveSuspend
    <3> QED
      BY <1>1, <3>3
  <2>3. CASE ~(SaveRemoveAdminAccess(r) \/ SaveDelete(r) \/ SaveSuspend(r))
    <3>1. admins \subseteq admins' /\ active \subseteq active'
      BY <2>1, <2>3 DEF Saves, SaveEditAdmin, SaveRestore, SavePromote, SaveCreate,
                        SaveCreateApiKey, SaveDeleteApiKey, SaveCreateRole,
                        SaveDeleteRole, userVars
    <3> QED
      BY <1>1, <3>1
  <2> QED
    BY <2>2, <2>3
<1> QED
  BY <1>1, Invariant, PTL DEF Spec, LastAdminLostByRace

\* What the users' pages send does not touch an administrator.
THEOREM AdministratorsSafe == Spec => AdministratorsKept
<1>1. ASSUME IInv, NEW r \in Request, TakenByUsersPage(r)
      PROVE  user[r] \notin admins \/ r \in stale
  BY <1>1, SavingKnows DEF Checked, TakenByUsersPage
<1>2. IInv => \A r \in Request : TakenByUsersPage(r) => user[r] \notin admins \/ r \in stale
  BY <1>1
<1> QED
  BY <1>2, Invariant, PTL DEF Spec, AdministratorsKept

\* Keys are added within the rules, unless requests overlap.
THEOREM KeysSafe == Spec => KeysWithinRules
<1>1. ASSUME IInv, [Next]_vars, NEW u \in User, keys'[u] > keys[u], ~OvertakenCommit
      PROVE  u \in admins /\ keys[u] < KeyLimit
  <2>0. TypeOK
    BY <1>1 DEF IInv
  <2>1. ~UNCHANGED tableVars
    BY <1>1, <2>0 DEF tableVars, TypeOK
  <2>2. PICK r \in Request : Saves(r) /\ Checked(r)
    BY <1>1, <2>1, OnlySaves
  <2>3. CASE SaveCreateApiKey(r)
    <3>1. kind[r] = "createApiKey" /\ u = user[r]
      BY <1>1, <2>0, <2>3 DEF SaveCreateApiKey, Commit, TypeOK
    <3> QED
      BY <2>2, <3>1 DEF Checked
  <2>4. CASE SaveDelete(r) \/ SaveDeleteApiKey(r)
    <3>1. keys[u] \in Nat
      BY <2>0 DEF TypeOK
    <3>2. keys'[u] \in {keys[u], keys[u] - 1, 0}
      BY <2>0, <2>4 DEF SaveDelete, SaveDeleteApiKey, TypeOK
    <3> QED
      BY <1>1, <3>1, <3>2
  <2>5. CASE ~(SaveCreateApiKey(r) \/ SaveDelete(r) \/ SaveDeleteApiKey(r))
    <3>1. keys' = keys
      BY <2>2, <2>5 DEF Saves, SaveEditAdmin, SaveRemoveAdminAccess, SaveSuspend,
                        SaveRestore, SavePromote, SaveCreate, SaveCreateRole, SaveDeleteRole
    <3> QED
      BY <1>1, <2>0, <3>1 DEF TypeOK
  <2> QED
    BY <2>3, <2>4, <2>5
<1>2. ASSUME IInv, [Next]_vars
      PROVE  \A u \in User :
               keys'[u] > keys[u] => (u \in admins /\ keys[u] < KeyLimit) \/ OvertakenCommit
  BY <1>1, <1>2
<1> QED
  BY <1>2, Invariant, PTL DEF Spec, KeysWithinRules

\* The rows of a join table that are one account's, and the roles they name.
LEMMA RolesAreRows ==
  ASSUME NEW U, NEW R, NEW H, H \subseteq U \X R, NEW u
  PROVE  (\E s \in R : <<u, s>> \in H) <=> \E p \in H : p[1] = u
<1>1. ASSUME NEW s \in R, <<u, s>> \in H PROVE \E p \in H : p[1] = u
  BY <1>1
<1>2. ASSUME NEW p \in H, p[1] = u PROVE \E s \in R : <<u, s>> \in H
  <2>1. PICK v \in U, s \in R : p = <<v, s>>
    OBVIOUS
  <2> QED
    BY <1>2, <2>1
<1> QED
  BY <1>1, <1>2

\* Roles and administrators go together, unless requests overlap.
THEOREM RolesSafe == Spec => RolesFitExceptByRace
<1>1. ASSUME IInv, [Next]_vars, NEW u \in User, ~OvertakenCommit,
             u \in admins <=> RolesOf(u) # {}
      PROVE  u \in admins' <=> RolesOf(u)' # {}
  <2>0. TypeOK /\ FormInv /\ TypeOK'
    BY <1>1, IInvStep DEF IInv
  <2>0a. has \subseteq users \X roles /\ has' \subseteq users' \X roles'
    BY <2>0 DEF TypeOK
  <2>0b. (\E s \in roles : <<u, s>> \in has) <=> \E p \in has : p[1] = u
    BY <2>0a, RolesAreRows
  <2>0c. (\E s \in roles' : <<u, s>> \in has') <=> \E p \in has' : p[1] = u
    BY <2>0a, RolesAreRows
  <2>1. u \in admins <=> \E p \in has : p[1] = u
    BY <1>1, <2>0b DEF RolesOf
  <2> SUFFICES u \in admins' <=> \E p \in has' : p[1] = u
    BY <2>0c DEF RolesOf
  <2>2. CASE UNCHANGED tableVars
    BY <2>1, <2>2 DEF tableVars, userVars
  <2>3. ASSUME NEW r \in Request, Saves(r), Authorized(r), Checked(r), Loaded(r)
        PROVE  u \in admins' <=> \E p \in has' : p[1] = u
    <3>1. CASE SaveEditAdmin(r)
      <4>1. kind[r] = "editAdmin"
        BY <3>1 DEF SaveEditAdmin, Commit
      <4>2. user[r] \in admins /\ admins' = admins
        BY <2>3, <3>1, <4>1 DEF Loaded, SaveEditAdmin, userVars
      <4>3. CASE u # user[r]
        BY <2>1, <3>1, <4>2, <4>3 DEF SaveEditAdmin
      <4>4. CASE u = user[r]
        <5>1. PICK s \in form[r] : TRUE
          BY <2>0, <4>1 DEF FormInv
        <5>2. CASE s \notin SeenRoles(r)
          <6>1. <<user[r], s>> \in has'
            BY <3>1, <5>1, <5>2 DEF SaveEditAdmin
          <6> QED
            BY <4>2, <4>4, <6>1
        <5>3. CASE s \in SeenRoles(r)
          <6>1. <<user[r], s>> \in has
            BY <2>3, <5>3 DEF Authorized, SeenRoles
          <6>2. <<user[r], s>> \in has'
            BY <3>1, <5>1, <6>1 DEF SaveEditAdmin
          <6> QED
            BY <4>2, <4>4, <6>2
        <5> QED
          BY <5>2, <5>3
      <4> QED
        BY <4>3, <4>4
    <3>2. CASE SaveRemoveAdminAccess(r)
      <4>1. \A p \in has : p[1] = user[r] => p \in seen[r]
        BY <2>3, <3>2 DEF Loaded, SaveRemoveAdminAccess, Commit
      <4>2. \A p \in has : p[1] = user[r] => p \in {user[r]} \X SeenRoles(r)
        BY <2>0, <4>1 DEF SeenRoles, TypeOK
      <4> QED
        BY <2>1, <3>2, <4>2 DEF SaveRemoveAdminAccess
    <3>3. CASE SaveDelete(r)
      BY <2>1, <3>3 DEF SaveDelete
    <3>4. CASE SavePromote(r)
      <4>1. form[r] # {}
        BY <2>0, <3>4 DEF FormInv, SavePromote, Commit
      <4>2. PICK s \in form[r] : <<user[r], s>> \in has'
        BY <3>4, <4>1 DEF SavePromote
      <4> QED
        BY <2>1, <3>4, <4>2 DEF SavePromote
    <3>5. CASE SaveCreate(r)
      <4>1. user[r] \notin users
        BY <3>5 DEF SaveCreate
      <4>2. kind[r] = "createAdmin" => form[r] # {}
        BY <2>0 DEF FormInv
      <4>3. kind[r] # "createAdmin" => form[r] = {}
        BY <2>0, <3>5 DEF FormInv, SaveCreate, Commit
      <4>4. user[r] \notin admins
        BY <2>0, <4>1 DEF TypeOK
      <4>5. CASE u # user[r]
        BY <2>1, <3>5, <4>5 DEF SaveCreate
      <4>6. CASE u = user[r] /\ kind[r] = "createAdmin"
        <5>1. PICK s \in form[r] : <<u, s>> \in has'
          BY <3>5, <4>2, <4>6 DEF SaveCreate
        <5> QED
          BY <3>5, <4>6, <5>1 DEF SaveCreate
      <4>7. CASE u = user[r] /\ kind[r] # "createAdmin"
        BY <2>1, <3>5, <4>3, <4>4, <4>7 DEF SaveCreate
      <4> QED
        BY <4>5, <4>6, <4>7
    <3>6. CASE SaveDeleteRole(r)
      <4>1. has' = has /\ admins' = admins
        BY <2>3, <3>6 DEF SaveDeleteRole, Commit, Checked, userVars
      <4> QED
        BY <2>1, <4>1
    <3>7. CASE \/ SaveSuspend(r) \/ SaveRestore(r) \/ SaveCreateApiKey(r)
               \/ SaveDeleteApiKey(r) \/ SaveCreateRole(r)
      BY <2>1, <3>7 DEF SaveSuspend, SaveRestore, SaveCreateApiKey, SaveDeleteApiKey,
                        SaveCreateRole, userVars
    <3> QED
      BY <2>3, <3>1, <3>2, <3>3, <3>4, <3>5, <3>6, <3>7 DEF Saves
  <2> QED
    BY <1>1, <2>2, <2>3, OnlySaves
<1>2. ASSUME IInv, [Next]_vars
      PROVE  \A u \in User :
               (u \in admins' <=> RolesOf(u)' # {}) \/ ~(u \in admins <=> RolesOf(u) # {})
                 \/ OvertakenCommit
  BY <1>1, <1>2
<1> QED
  BY <1>2, Invariant, PTL DEF Spec, RolesFitExceptByRace

-----------------------------------------------------------------------------
(* The refinement.                                                         *)

\* What a request ends with, and what it may rely on if it was not overtaken.
LEMMA EndOfRequest ==
  ASSUME IInv, NEW r \in Request, pc[r] # "idle", Finish(r)
  PROVE  Book!End(r)
<1>0. pc \in [Request -> {"idle", "validating", "handling", "saving"}]
  BY DEF IInv, TypeOK
<1>1. InFlight' = InFlight \ {r}
  BY <1>0 DEF InFlight, Finish
<1> QED
  BY <1>1 DEF Book!End, InFlight, Finish

LEMMA SaveIsDone ==
  ASSUME IInv, NEW r \in Request, NEW k, Commit(r, k)
  PROVE  /\ Book!End(r) /\ Book!Done(r)
         /\ r \in stale \/ (Authorized(r) /\ Checked(r) /\ Loaded(r))
         /\ kind[r] \in OnOther => Book!ByAnother(r, user[r])
<1>1. Book!End(r)
  BY EndOfRequest DEF Commit
<1>2. r \in stale \/ (Authorized(r) /\ Checked(r) /\ Loaded(r))
  BY SavingKnows DEF Commit
<1>3. Book!Done(r)
  BY <1>2 DEF Book!Done, Book!OnTime, Commit, Authorized
<1>4. kind[r] \in OnOther => Book!ByAnother(r, user[r])
  BY <1>2 DEF Book!ByAnother, Book!OnTime, Authorized
<1> QED
  BY <1>1, <1>2, <1>3, <1>4

\* Rows of has that an update of one account's roles leaves are those of the others
\* and that account's own.
LEMMA RowsSplit ==
  ASSUME NEW U, NEW R, NEW H, H \subseteq U \X R, NEW old, NEW u,
         \A p \in H : p[1] # u => p \in old,
         \A p \in old : p[1] # u => p \in H
  PROVE  H = {p \in old : p[1] # u} \union ({u} \X {s \in R : <<u, s>> \in H})
<1>1. ASSUME NEW p \in H, p[1] = u PROVE p \in {u} \X {s \in R : <<u, s>> \in H}
  <2>1. PICK v \in U, s \in R : p = <<v, s>>
    OBVIOUS
  <2> QED
    BY <1>1, <2>1
<1> QED
  BY <1>1

\* An edit of an administrator.
LEMMA EditSets ==
  ASSUME IInv, IInv', NEW r \in Request, SaveEditAdmin(r)
  PROVE  Book!End(r) /\ \E u \in User : Book!OnAccount(r, u)
<1>0. TypeOK /\ TypeOK' /\ FormInv
  BY DEF IInv
<1>1. /\ Book!End(r) /\ Book!Done(r)
      /\ r \in stale \/ (Authorized(r) /\ Checked(r) /\ Loaded(r))
  BY SaveIsDone DEF SaveEditAdmin
<1>2. kind[r] = "editAdmin" /\ user[r] \in users /\ user[r] \in User
  BY <1>0 DEF SaveEditAdmin, Commit, TypeOK
<1>3. PICK u \in User : u = user[r]
  BY <1>2
<1> DEFINE g == {s \in roles' : <<u, s>> \in has'}
<1>4. has' = Book!WithRoles(u, g)
  <2>1. has' \subseteq users' \X roles'
    BY <1>0 DEF TypeOK
  <2>2. \A p \in has' : p[1] # u => p \in has
    BY <1>3 DEF SaveEditAdmin
  <2>3. \A p \in has : p[1] # u => p \in has'
    BY <1>3 DEF SaveEditAdmin
  <2> QED
    BY <2>1, <2>2, <2>3, RowsSplit DEF Book!WithRoles
<1>5. g \subseteq roles /\ g \in SUBSET Role
  BY <1>0 DEF SaveEditAdmin, TypeOK
<1>6. ASSUME r \notin stale PROVE u \in admins /\ g = form[r] /\ form[r] # {}
  <2>1. Authorized(r) /\ Loaded(r)
    BY <1>1, <1>6
  <2>2. u \in admins /\ form[r] # {}
    BY <1>0, <1>2, <1>3, <2>1 DEF Loaded, FormInv
  <2>3. roles' = roles /\ form[r] \subseteq Role
    BY <1>0 DEF SaveEditAdmin, TypeOK
  <2>4. \A s \in Role : <<u, s>> \in seen[r] <=> <<u, s>> \in has
    BY <1>2, <1>3, <2>1 DEF Loaded, Authorized
  <2>5. \A s \in Role : <<u, s>> \in has' <=> s \in form[r]
    <3> SUFFICES ASSUME NEW s \in Role PROVE <<u, s>> \in has' <=> s \in form[r]
      OBVIOUS
    <3>1. s \in SeenRoles(r) <=> <<u, s>> \in has
      BY <1>3, <2>4 DEF SeenRoles
    <3>2. <<u, s>> \in has' <=>
            /\ <<u, s>> \in has \/ s \in form[r] \ SeenRoles(r)
            /\ s \notin SeenRoles(r) \ form[r]
      BY <1>3 DEF SaveEditAdmin
    <3> QED
      BY <3>1, <3>2
  <2>6. has' \subseteq users' \X roles'
    BY <1>0 DEF TypeOK
  <2>7. g = form[r]
    BY <1>0, <2>3, <2>5, <2>6 DEF TypeOK
  <2> QED
    BY <2>2, <2>7
<1>7. Book!SetRoles(r, u, g)
  BY <1>1, <1>2, <1>3, <1>4, <1>5, <1>6
     DEF Book!SetRoles, Book!OnTime, SaveEditAdmin, userVars
<1> HIDE DEF g
<1> QED
  BY <1>1, <1>5, <1>7 DEF Book!OnAccount

\* A removal of administrative access.
LEMMA RemovalDemotes ==
  ASSUME IInv, IInv', NEW r \in Request, SaveRemoveAdminAccess(r)
  PROVE  Book!End(r) /\ \E u \in User : Book!OnAccount(r, u)
<1>0. TypeOK /\ TypeOK'
  BY DEF IInv
<1>2. kind[r] = "removeAdminAccess" /\ user[r] \in users /\ user[r] \in User
  BY <1>0 DEF SaveRemoveAdminAccess, Commit, TypeOK
<1>1. /\ Book!End(r) /\ Book!Done(r) /\ Book!ByAnother(r, user[r])
      /\ r \in stale \/ (Authorized(r) /\ Checked(r) /\ Loaded(r))
  BY <1>2, SaveIsDone DEF SaveRemoveAdminAccess, OnOther
<1>3. PICK u \in User : u = user[r]
  BY <1>2
<1> DEFINE g == {s \in roles' : <<u, s>> \in has'}
<1>4. has' = Book!WithRoles(u, g)
  <2>1. has' \subseteq users' \X roles'
    BY <1>0 DEF TypeOK
  <2>2. \A p \in has' : p[1] # u => p \in has
    BY DEF SaveRemoveAdminAccess
  <2>3. \A p \in has : p[1] # u => p \in has'
    BY <1>3 DEF SaveRemoveAdminAccess
  <2> QED
    BY <2>1, <2>2, <2>3, RowsSplit DEF Book!WithRoles
<1>5. g \subseteq Book!RolesOf(u) /\ g \in SUBSET Role
  BY <1>0 DEF SaveRemoveAdminAccess, TypeOK, Book!RolesOf
<1>6. ASSUME r \notin stale PROVE u \in admins /\ g = {}
  <2>1. Loaded(r)
    BY <1>1, <1>6
  <2>2. u \in admins
    BY <1>2, <1>3, <2>1 DEF Loaded
  <2>3. ASSUME NEW s \in g PROVE FALSE
    <3>1. <<u, s>> \in has /\ s \in Role
      BY <1>0, <2>3 DEF SaveRemoveAdminAccess, TypeOK
    <3>2. <<u, s>> \in seen[r]
      BY <1>2, <1>3, <2>1, <3>1 DEF Loaded
    <3>3. <<u, s>> \in {user[r]} \X SeenRoles(r)
      BY <1>3, <3>1, <3>2 DEF SeenRoles
    <3> QED
      BY <2>3, <3>3 DEF SaveRemoveAdminAccess
  <2> QED
    BY <2>2, <2>3
<1>7. Book!Demote(r, u, g)
  BY <1>1, <1>2, <1>3, <1>4, <1>5, <1>6
     DEF Book!Demote, Book!OnTime, SaveRemoveAdminAccess
<1> HIDE DEF g
<1> QED
  BY <1>1, <1>5, <1>7 DEF Book!OnAccount

\* A deletion, a suspension, a restoration.
LEMMA OthersChange ==
  ASSUME IInv, NEW r \in Request, SaveDelete(r) \/ SaveSuspend(r) \/ SaveRestore(r)
  PROVE  Book!End(r) /\ \E u \in User : Book!OnAccount(r, u)
<1>0. TypeOK
  BY DEF IInv
<1>1. kind[r] \in OnOther /\ user[r] \in users /\ user[r] \in User
  BY <1>0 DEF SaveDelete, SaveSuspend, SaveRestore, Commit, OnOther, TypeOK
<1>2. /\ Book!End(r) /\ Book!Done(r) /\ Book!ByAnother(r, user[r])
      /\ r \in stale \/ (Authorized(r) /\ Checked(r) /\ Loaded(r))
  BY <1>1, SaveIsDone DEF SaveDelete, SaveSuspend, SaveRestore
<1>3. CASE SaveDelete(r)
  <2>1. Book!WithRoles(user[r], {}) = {p \in has : p[1] # user[r]}
    BY DEF Book!WithRoles
  <2>2. Book!Delete(r, user[r])
    BY <1>1, <1>2, <1>3, <2>1 DEF Book!Delete, SaveDelete
  <2> QED
    BY <1>1, <1>2, <2>2 DEF Book!OnAccount
<1>4. CASE SaveSuspend(r)
  <2>1. r \in stale \/ user[r] \in active
    BY <1>2, <1>4 DEF Checked, Loaded, SaveSuspend, Commit
  <2>2. Book!Suspend(r, user[r])
    BY <1>1, <1>2, <1>4, <2>1 DEF Book!Suspend, Book!OnTime, SaveSuspend
  <2> QED
    BY <1>1, <1>2, <2>2 DEF Book!OnAccount
<1>5. CASE SaveRestore(r)
  <2>1. r \in stale \/ user[r] \notin active
    BY <1>2, <1>5 DEF Checked, Loaded, SaveRestore, Commit
  <2>2. Book!Restore(r, user[r])
    BY <1>1, <1>2, <1>5, <2>1 DEF Book!Restore, Book!OnTime, SaveRestore
  <2> QED
    BY <1>1, <1>2, <2>2 DEF Book!OnAccount
<1> QED
  BY <1>3, <1>4, <1>5

\* A promotion, a new account.
LEMMA NewComers ==
  ASSUME IInv, NEW r \in Request, SavePromote(r) \/ SaveCreate(r)
  PROVE  Book!End(r) /\ \E u \in User : Book!OnAccount(r, u)
<1>0. TypeOK /\ FormInv
  BY DEF IInv
<1>1. user[r] \in User
  BY <1>0 DEF SavePromote, SaveCreate, Commit, FormInv, ByAddress
<1>2. /\ Book!End(r) /\ Book!Done(r)
      /\ r \in stale \/ (Authorized(r) /\ Checked(r) /\ Loaded(r))
  BY SaveIsDone DEF SavePromote, SaveCreate
<1>3. CASE SavePromote(r)
  <2>1. kind[r] = "promote" /\ form[r] # {}
    BY <1>0, <1>3 DEF SavePromote, Commit, FormInv
  <2>2. form[r] \subseteq roles \ Book!RolesOf(user[r])
    BY <1>3 DEF SavePromote, Book!RolesOf
  <2>3. r \in stale \/ user[r] \notin admins
    BY <1>2, <2>1 DEF Checked
  <2>4. Book!Promote(r, user[r])
    BY <1>2, <1>3, <2>1, <2>2, <2>3 DEF Book!Promote, Book!OnTime, SavePromote
  <2> QED
    BY <1>1, <1>2, <2>4 DEF Book!OnAccount
<1>4. CASE SaveCreate(r)
  <2>1. kind[r] = "createAdmin" <=> form[r] # {}
    BY <1>0, <1>4 DEF SaveCreate, Commit, FormInv
  <2>2. Book!Create(r, user[r])
    BY <1>2, <1>4, <2>1 DEF Book!Create, SaveCreate
  <2> QED
    BY <1>1, <1>2, <2>2 DEF Book!OnAccount
<1> QED
  BY <1>3, <1>4

\* A key more, a key less.
LEMMA KeysChange ==
  ASSUME IInv, NEW r \in Request, SaveCreateApiKey(r) \/ SaveDeleteApiKey(r)
  PROVE  Book!End(r) /\ \E u \in User : Book!OnAccount(r, u)
<1>0. TypeOK /\ FormInv
  BY DEF IInv
<1>1. user[r] \in User
  BY <1>0 DEF SaveCreateApiKey, SaveDeleteApiKey, Commit, FormInv, ById, KeyKind
<1>2. /\ Book!End(r) /\ Book!Done(r)
      /\ r \in stale \/ (Authorized(r) /\ Checked(r) /\ Loaded(r))
  BY SaveIsDone DEF SaveCreateApiKey, SaveDeleteApiKey
<1>3. CASE SaveCreateApiKey(r)
  <2>1. r \in stale \/ (user[r] \in admins /\ keys[user[r]] < KeyLimit)
    BY <1>2, <1>3 DEF Checked, SaveCreateApiKey, Commit
  <2>2. Book!AddKey(r, user[r])
    BY <1>2, <1>3, <2>1 DEF Book!AddKey, Book!OnTime, SaveCreateApiKey, userVars
  <2> QED
    BY <1>1, <1>2, <2>2 DEF Book!OnAccount
<1>4. CASE SaveDeleteApiKey(r)
  <2>1. Book!DropKey(r, user[r])
    BY <1>2, <1>4 DEF Book!DropKey, SaveDeleteApiKey, userVars
  <2> QED
    BY <1>1, <1>2, <2>1 DEF Book!OnAccount
<1> QED
  BY <1>3, <1>4

\* A role more, a role less.
LEMMA RolesChange ==
  ASSUME IInv, NEW r \in Request, SaveCreateRole(r) \/ SaveDeleteRole(r)
  PROVE  /\ Book!End(r)
         /\ \E s \in Role : Book!CreateRole(r, s) \/ Book!DeleteRole(r, s)
<1>0. TypeOK /\ FormInv
  BY DEF IInv
<1>1. role[r] \in Role
  BY <1>0 DEF SaveCreateRole, SaveDeleteRole, Commit, FormInv, RoleKind
<1>2. /\ Book!End(r) /\ Book!Done(r)
      /\ r \in stale \/ (Authorized(r) /\ Checked(r) /\ Loaded(r))
  BY SaveIsDone DEF SaveCreateRole, SaveDeleteRole
<1>3. CASE SaveCreateRole(r)
  <2>1. Book!CreateRole(r, role[r])
    BY <1>2, <1>3 DEF Book!CreateRole, SaveCreateRole, userVars
  <2> QED
    BY <1>1, <1>2, <2>1
<1>4. CASE SaveDeleteRole(r)
  <2>1. kind[r] = "deleteRole" /\ pc[r] = "saving" /\ role[r] \in roles
    BY <1>4 DEF SaveDeleteRole, Commit
  <2>2. role[r] # SuperAdmin
    BY <1>0, <2>1 DEF FormInv
  <2>3. r \in stale \/ \A u \in users : role[r] \notin Book!RolesOf(u)
    BY <1>2, <2>1 DEF Checked, Book!RolesOf
  <2>4. Book!DeleteRole(r, role[r])
    BY <1>2, <1>4, <2>1, <2>2, <2>3 DEF Book!DeleteRole, Book!OnTime, SaveDeleteRole, userVars
  <2> QED
    BY <1>1, <1>2, <2>4
<1> QED
  BY <1>3, <1>4

\* A request arrives in one step; until its end the book stays as it is.
LEMMA StartArrives ==
  ASSUME IInv, NEW r \in Request, NEW a \in User, Starts(r, a)
  PROVE  Book!Arrive(r)
<1>0. TypeOK
  BY DEF IInv
<1>1. ASSUME NEW k, NEW u, NEW s, NEW f \in SUBSET Role, Start(r, a, k, u, s, f)
      PROVE  Book!Arrive(r)
  <2>1. InFlight' = InFlight \union {r} /\ r \notin InFlight
    BY <1>0, <1>1 DEF Start, InFlight, TypeOK
  <2>2. form' = [form EXCEPT ![r] = f] /\ UNCHANGED <<tableVars, stale>>
    BY <1>1 DEF Start
  <2> QED
    BY <2>1, <2>2 DEF Book!Arrive, Book!tables, tableVars, userVars
<1>2. roles \subseteq Role
  BY <1>0 DEF TypeOK
<1>3. \E k, u, s : \E f \in SUBSET Role : Start(r, a, k, u, s, f)
  BY <1>2 DEF Starts, StartOnOther, StartKey, StartEditAdmin, StartCreateAdmin,
              StartCreateUser, StartOnRole
<1> QED
  BY <1>1, <1>3

LEMMA ReadsStutter ==
  ASSUME IInv, NEW r \in Request, Validate(r) \/ Handle(r)
  PROVE  UNCHANGED Book!vars
<1>0. pc \in [Request -> {"idle", "validating", "handling", "saving"}]
  BY DEF IInv, TypeOK
<1>1. InFlight' = InFlight
  BY <1>0 DEF Validate, Handle, InFlight
<1> QED
  BY <1>1 DEF Validate, Handle, Book!vars, Book!tables, tableVars, userVars, formVars

LEMMA BookStep == IInv /\ [Next]_vars => [Book!Next]_(Book!vars)
<1> SUFFICES ASSUME IInv, [Next]_vars PROVE Book!Next \/ UNCHANGED Book!vars
  OBVIOUS
<1>0. IInv'
  BY IInvStep
<1>1. ASSUME NEW r \in Request, NEW a \in User, Starts(r, a) PROVE Book!Next
  BY <1>1, StartArrives DEF Book!Next
<1>2. ASSUME NEW r \in Request, Saves(r) PROVE Book!Next
  <2>1. \/ Book!End(r) /\ \E u \in User : Book!OnAccount(r, u)
        \/ /\ Book!End(r)
           /\ \E s \in Role : Book!CreateRole(r, s) \/ Book!DeleteRole(r, s)
    BY <1>0, <1>2, EditSets, RemovalDemotes, OthersChange, NewComers, KeysChange,
       RolesChange DEF Saves
  <2> QED
    BY <2>1 DEF Book!Next
<1>3. ASSUME NEW r \in Request, Fails(r) PROVE Book!Next
  <2>1. Book!End(r)
    BY <1>3, EndOfRequest DEF Fails
  <2>2. Book!Leave(r)
    BY <1>3 DEF Fails, Book!Leave, Book!tables, tableVars, userVars
  <2> QED
    BY <2>1, <2>2 DEF Book!Next
<1>4. ASSUME UNCHANGED vars PROVE UNCHANGED Book!vars
  BY <1>4 DEF vars, requestVars, formVars, tableVars, userVars, Book!vars, Book!tables,
              InFlight
<1> QED
  BY <1>1, <1>2, <1>3, <1>4, ReadsStutter DEF Next

\* The commands do what the book says: whatever races, each is one step of it, and one
\* that nobody overtook keeps all of its promises.
THEOREM AccountsImplementBook == Spec => ImplementsBook
<1>1. Init => Book!Init
  BY DEF Init, Book!Init, InFlight
<1> QED
  BY <1>1, BookStep, Invariant, PTL DEF Spec, ImplementsBook, Book!Spec
=============================================================================
