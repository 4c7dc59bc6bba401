----------------------------- MODULE AccountBook -----------------------------
(***************************************************************************)
(* What the commands on accounts, roles and keys promise: the tables as    *)
(* they would be if each command were authorized, checked and done in one  *)
(* step, without tracked entities, partial writes or constraints.          *)
(*                                                                         *)
(* A request is open from its arrival to its end; whoever commits          *)
(* overtakes all others that are open.  The promises that begin with       *)
(* OnTime are those a request keeps only if nobody has overtaken it.       *)
(***************************************************************************)
EXTENDS Naturals

CONSTANTS
  Request, User, Role, SuperAdmin, Founder,
  KeyLimit     \* API keys an account may have

VARIABLES
  users, admins, active,   \* the accounts, and which are administrators or active
  roles,       \* the roles
  has,         \* <<account, role>>: who has which
  keys,        \* how many API keys an account has
  asked,       \* the roles a request asks for
  open,        \* requests being served
  overtaken    \* those of them during which another has committed

tables == <<users, admins, active, roles, has, keys>>
vars == <<tables, asked, open, overtaken>>

Init ==
  /\ users = {Founder} /\ admins = {Founder} /\ active = {Founder}
  /\ roles = Role /\ has = {Founder} \X Role
  /\ keys = [u \in User |-> 0]
  /\ asked = [r \in Request |-> {}]
  /\ open = {} /\ overtaken = {}

Arrive(r) ==
  /\ r \notin open
  /\ open' = open \union {r}
  /\ \E f \in SUBSET Role : asked' = [asked EXCEPT ![r] = f]
  /\ UNCHANGED <<tables, overtaken>>

End(r) ==
  /\ r \in open
  /\ open' = open \ {r}
  /\ asked' = [asked EXCEPT ![r] = {}]

\* Refused, failed, or without anything to change.
Leave(r) ==
  /\ overtaken' = overtaken \ {r}
  /\ UNCHANGED tables

OnTime(r, promise) == r \in overtaken \/ promise

\* A command is that of an active administrator.
Done(r) ==
  /\ OnTime(r, admins \intersect active # {})
  /\ overtaken' = open \ {r}

\* Nobody demotes, suspends or deletes himself.
ByAnother(r, u) == OnTime(r, \E a \in admins \intersect active : a # u)

RolesOf(u) == {s \in roles : <<u, s>> \in has}
WithRoles(u, g) == {p \in has : p[1] # u} \union ({u} \X g)

\* An edit leaves the roles it asked for, and never touches those of others.
SetRoles(r, u, g) ==
  /\ u \in users /\ g \subseteq roles
  /\ OnTime(r, u \in admins /\ g = asked[r] /\ g # {})
  /\ has' = WithRoles(u, g)
  /\ Done(r)
  /\ UNCHANGED <<users, admins, active, roles, keys>>

\* An account that is no administrator any more has no roles left.
Demote(r, u, g) ==
  /\ u \in users /\ g \subseteq RolesOf(u)
  /\ ByAnother(r, u)
  /\ OnTime(r, u \in admins /\ g = {})
  /\ admins' = admins \ {u}
  /\ has' = WithRoles(u, g)
  /\ Done(r)
  /\ UNCHANGED <<users, active, roles, keys>>

Delete(r, u) ==
  /\ u \in users
  /\ ByAnother(r, u)
  /\ users' = users \ {u} /\ admins' = admins \ {u} /\ active' = active \ {u}
  /\ has' = WithRoles(u, {})
  /\ keys' = [keys EXCEPT ![u] = 0]
  /\ Done(r)
  /\ UNCHANGED roles

Suspend(r, u) ==
  /\ u \in users
  /\ ByAnother(r, u)
  /\ OnTime(r, u \in active)
  /\ active' = active \ {u}
  /\ Done(r)
  /\ UNCHANGED <<users, admins, roles, has, keys>>

Restore(r, u) ==
  /\ u \in users
  /\ ByAnother(r, u)
  /\ OnTime(r, u \notin active)
  /\ active' = active \union {u}
  /\ Done(r)
  /\ UNCHANGED <<users, admins, roles, has, keys>>

Promote(r, u) ==
  /\ u \in users
  /\ asked[r] # {} /\ asked[r] \subseteq roles \ RolesOf(u)
  /\ OnTime(r, u \notin admins)
  /\ admins' = admins \union {u}
  /\ has' = has \union ({u} \X asked[r])
  /\ Done(r)
  /\ UNCHANGED <<users, active, roles, keys>>

\* A new account is an administrator if it is given roles.
Create(r, u) ==
  /\ u \notin users
  /\ asked[r] \subseteq roles
  /\ users' = users \union {u} /\ active' = active \union {u}
  /\ admins' = IF asked[r] # {} THEN admins \union {u} ELSE admins
  /\ has' = has \union ({u} \X asked[r])
  /\ Done(r)
  /\ UNCHANGED <<roles, keys>>

AddKey(r, u) ==
  /\ u \in users
  /\ OnTime(r, u \in admins /\ keys[u] < KeyLimit)
  /\ keys' = [keys EXCEPT ![u] = @ + 1]
  /\ Done(r)
  /\ UNCHANGED <<users, admins, active, roles, has>>

DropKey(r, u) ==
  /\ keys[u] > 0
  /\ keys' = [keys EXCEPT ![u] = @ - 1]
  /\ Done(r)
  /\ UNCHANGED <<users, admins, active, roles, has>>

CreateRole(r, s) ==
  /\ s \notin roles
  /\ roles' = roles \union {s}
  /\ Done(r)
  /\ UNCHANGED <<users, admins, active, has, keys>>

\* A role that somebody has is not deleted; the one of the setup never is.
DeleteRole(r, s) ==
  /\ s \in roles \ {SuperAdmin}
  /\ OnTime(r, \A u \in users : s \notin RolesOf(u))
  /\ roles' = roles \ {s}
  /\ has' = {p \in has : p[2] # s}
  /\ Done(r)
  /\ UNCHANGED <<users, admins, active, keys>>

OnAccount(r, u) ==
  \/ Delete(r, u) \/ Suspend(r, u) \/ Restore(r, u) \/ Promote(r, u) \/ Create(r, u)
  \/ AddKey(r, u) \/ DropKey(r, u)
  \/ \E g \in SUBSET Role : SetRoles(r, u, g) \/ Demote(r, u, g)

Next ==
  \E r \in Request :
    \/ Arrive(r)
    \/ /\ End(r)
       /\ \/ Leave(r)
          \/ \E u \in User : OnAccount(r, u)
          \/ \E s \in Role : CreateRole(r, s) \/ DeleteRole(r, s)

Spec == Init /\ [][Next]_vars
=============================================================================
