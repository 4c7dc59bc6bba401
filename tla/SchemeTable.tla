----------------------------- MODULE SchemeTable -----------------------------
(***************************************************************************)
(* What the commands on authentication schemes promise: the table as it    *)
(* would be if each command were checked and done in one step, without     *)
(* validators, handlers, tracked entities or unique indexes.               *)
(*                                                                         *)
(* A request is open from its arrival to its end.  One that is not         *)
(* overtaken, because what administrators may use has not changed since it *)
(* arrived, leaves them another scheme when it takes one away, and         *)
(* switches what it found the other way.  One that is overtaken promises   *)
(* neither.  Both keep names apart and built-in rows in place.             *)
(***************************************************************************)
CONSTANTS Request, Scheme, BuiltIn, ByEmail, Name

VARIABLES
  rows,        \* the rows
  names,       \* the DeveloperName of each row
  forAdmins,   \* the rows administrators may use
  open,        \* requests being served
  overtaken    \* those of them during which another changed forAdmins

vars == <<rows, names, forAdmins, open, overtaken>>

Init ==
  /\ rows = BuiltIn
  /\ names = [s \in BuiltIn |-> s]
  /\ forAdmins = {ByEmail}
  /\ open = {} /\ overtaken = {}

Arrive(r) ==
  /\ r \notin open
  /\ open' = open \union {r}
  /\ UNCHANGED <<rows, names, forAdmins, overtaken>>

\* The request ends, and has overtaken the others if it changed forAdmins.
Done(r) ==
  /\ r \in open
  /\ open' = open \ {r}
  /\ overtaken' = (IF forAdmins' = forAdmins THEN overtaken ELSE open) \ {r}

\* Refused, failed, or without anything to change.
Leave(r) ==
  /\ Done(r)
  /\ UNCHANGED <<rows, names, forAdmins>>

Create(r, s, n, box) ==
  /\ s \notin rows
  /\ \A u \in rows : names[u] # n
  /\ rows' = rows \union {s}
  /\ names' = [u \in rows' |-> IF u = s THEN n ELSE names[u]]
  /\ forAdmins' = IF box THEN forAdmins \union {s} ELSE forAdmins
  /\ Done(r)

SwitchOn(r, s) ==
  /\ s \in rows
  /\ r \in overtaken \/ s \notin forAdmins
  /\ forAdmins' = forAdmins \union {s}
  /\ Done(r)
  /\ UNCHANGED <<rows, names>>

AnotherIsLeft(s) == \E u \in forAdmins : u # s

SwitchOff(r, s) ==
  /\ s \in rows
  /\ r \in overtaken \/ (s \in forAdmins /\ AnotherIsLeft(s))
  /\ forAdmins' = forAdmins \ {s}
  /\ Done(r)
  /\ UNCHANGED <<rows, names>>

Delete(r, s) ==
  /\ s \in rows \ BuiltIn
  /\ r \in overtaken \/ s \notin forAdmins \/ AnotherIsLeft(s)
  /\ rows' = rows \ {s}
  /\ names' = [u \in rows' |-> names[u]]
  /\ forAdmins' = forAdmins \ {s}
  /\ Done(r)

Next ==
  \E r \in Request :
    \/ Arrive(r) \/ Leave(r)
    \/ \E s \in Scheme, n \in Name, box \in BOOLEAN : Create(r, s, n, box)
    \/ \E s \in Scheme : SwitchOn(r, s) \/ SwitchOff(r, s) \/ Delete(r, s)

Spec == Init /\ [][Next]_vars
=============================================================================
