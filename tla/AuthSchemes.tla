----------------------------- MODULE AuthSchemes -----------------------------
(***************************************************************************)
(* The commands of RaythaZero.Application/AuthenticationSchemes: create,   *)
(* edit and delete a row of AuthenticationSchemes, the ways people may     *)
(* sign in.  The validators of edit and delete refuse to take the last     *)
(* scheme from the administrators; nothing keeps that true until the save. *)
(*                                                                         *)
(* A request is one slot, a tab of an administrator's browser: it is idle  *)
(* again once it was answered, refused or threw.  An edit is posted from   *)
(* the row's page, which may have been open for a while and is shown again *)
(* when the edit is refused.  The page posts every field, changed or not,  *)
(* and no version of the row.  A refused request changes nothing and is no *)
(* step, unless it has read the entity before.  Each query is a step.  The *)
(* DbContext tracks the entity its first query read, and its save writes   *)
(* those columns only in which the form differs from what was read.  Of    *)
(* the columns, those the validators look at are kept.                     *)
(***************************************************************************)
EXTENDS FiniteSets, Naturals

CONSTANTS
  Request,     \* slots of concurrent requests
  Scheme,      \* ids of rows
  BuiltIn,     \* the rows of the setup: IsBuiltInAuth
  ByEmail,     \* the one of them with e-mail address and password
  Name         \* DeveloperNames, as ToDeveloperName leaves them

ASSUME SchemeAssumption ==
  /\ BuiltIn \subseteq Scheme
  /\ BuiltIn \subseteq Name     \* a built-in row is named after itself
  /\ ByEmail \in BuiltIn

VARIABLES
  \* the table
  rows,        \* the rows
  name,        \* the DeveloperName of a row, or of one about to be inserted
  forAdmins,   \* rows with IsEnabledForAdmins
  \* the requests
  pc,          \* where a request is
  kind,        \* its command
  target,      \* the row it is about
  shownTicked, \* those whose page was opened with IsEnabledForAdmins ticked
  ticked,      \* requests whose form has IsEnabledForAdmins
  seenTicked,  \* requests that read the row with IsEnabledForAdmins
  \* history
  stale,       \* requests during which another has changed forAdmins
  outdated     \* those whose page was open when another switched its row

tableVars == <<rows, name, forAdmins>>
requestVars == <<pc, kind, target, shownTicked, ticked, seenTicked>>
history == <<stale, outdated>>
vars == <<tableVars, requestVars, history>>

Kind == {"create", "edit", "delete"}
NoScheme == "no scheme"

\* Requests the server is busy with; an open page is none.
InFlight == {r \in Request : pc[r] \notin {"idle", "open"}}

-----------------------------------------------------------------------------
Init ==
  /\ rows = BuiltIn
  /\ name = [s \in Scheme |-> s]
  /\ forAdmins = {ByEmail}
  /\ pc = [r \in Request |-> "idle"]
  /\ kind = [r \in Request |-> "none"]
  /\ target = [r \in Request |-> NoScheme]
  /\ shownTicked = {} /\ ticked = {} /\ seenTicked = {}
  /\ stale = {} /\ outdated = {}

\* The request ends, whatever its answer, and its DbContext with it.
Finish(r) ==
  /\ pc' = [pc EXCEPT ![r] = "idle"]
  /\ kind' = [kind EXCEPT ![r] = "none"]
  /\ target' = [target EXCEPT ![r] = NoScheme]
  /\ shownTicked' = shownTicked \ {r}
  /\ ticked' = ticked \ {r}
  /\ seenTicked' = seenTicked \ {r}

\* It ends without a change of the table.
Fail(r) ==
  /\ Finish(r)
  /\ stale' = stale \ {r}
  /\ outdated' = outdated \ {r}
  /\ UNCHANGED tableVars

\* The request goes on at the label l with the command k about row s; the form
\* has the box ticked or not.
Begin(r, l, k, s, box) ==
  /\ pc[r] \in {"idle", "open"}
  /\ pc' = [pc EXCEPT ![r] = l]
  /\ kind' = [kind EXCEPT ![r] = k]
  /\ target' = [target EXCEPT ![r] = s]
  /\ ticked' = IF box THEN ticked \union {r} ELSE ticked

GoOn(r, l) ==
  /\ pc' = [pc EXCEPT ![r] = l]
  /\ UNCHANGED <<kind, target, shownTicked, ticked, seenTicked>>

-----------------------------------------------------------------------------
(* The page of a row.                                                      *)

OpenPage(r, s) ==
  /\ pc[r] \in {"idle", "open"}
  /\ s \in rows
  /\ pc' = [pc EXCEPT ![r] = "open"]
  /\ kind' = [kind EXCEPT ![r] = "edit"]
  /\ target' = [target EXCEPT ![r] = s]
  /\ shownTicked' = IF s \in forAdmins THEN shownTicked \union {r} ELSE shownTicked \ {r}
  /\ outdated' = outdated \ {r}
  /\ UNCHANGED <<tableVars, ticked, seenTicked, stale>>

\* Another page is opened, or posted, in its place.
LeavePage(r) ==
  /\ shownTicked' = shownTicked \ {r}
  /\ outdated' = outdated \ {r}

\* A refused edit shows the page again as it was posted, with the errors; it says
\* nothing of what others did to the row meanwhile.
ShowAgain(r) ==
  /\ target[r] \in rows
  /\ pc' = [pc EXCEPT ![r] = "open"]
  /\ ticked' = ticked \ {r}
  /\ seenTicked' = seenTicked \ {r}
  /\ stale' = stale \ {r}
  /\ outdated' = IF r \in seenTicked <=> target[r] \in forAdmins
                 THEN outdated ELSE outdated \union {r}
  /\ UNCHANGED <<tableVars, kind, target, shownTicked>>

-----------------------------------------------------------------------------
(* Create: the validator's one query looks for the name, the handler reads *)
(* nothing.                                                                *)

NameTaken(n) == \E s \in rows : name[s] = n

\* The new row gets an id nobody knows yet (a Guid).
ValidateCreate(r, s, n, box) ==
  /\ s \notin rows \union {target[q] : q \in Request}
  /\ ~NameTaken(n)
  /\ Begin(r, "saving", "create", s, box)
  /\ LeavePage(r)
  /\ name' = [name EXCEPT ![s] = n]
  /\ UNCHANGED <<rows, forAdmins, seenTicked, stale>>

-----------------------------------------------------------------------------
(* Edit and delete: the validator reads the row and then counts; the       *)
(* handler reads the row again, which shows whether it is still there, but *)
(* keeps the values it is tracked with.                                    *)

ReadRow(r, k, s, box) ==
  /\ s \in rows
  /\ Begin(r, "counting", k, s, box)
  /\ seenTicked' = IF s \in forAdmins THEN seenTicked \union {r} ELSE seenTicked
  /\ UNCHANGED <<tableVars, stale>>

\* The page is posted.
ReadForEdit(r, box) ==
  /\ pc[r] = "open"
  /\ ReadRow(r, "edit", target[r], box)
  /\ UNCHANGED <<shownTicked, outdated>>

\* (mutant of ReadForDelete: built-in schemes are not refused)
ReadForDeleteAny(r, s) == ReadRow(r, "delete", s, FALSE) /\ LeavePage(r)

ReadForDelete(r, s) ==
  /\ s \notin BuiltIn
  /\ ReadRow(r, "delete", s, FALSE)
  /\ LeavePage(r)

\* (mutant of OnlyOneAdminAuthLeft: none left)
NoAdminAuthLeft == forAdmins = {}

OnlyOneAdminAuthLeft == Cardinality(forAdmins) = 1

\* The row is enabled for administrators, as far as the request knows, and it
\* would not be any more (a delete's form has no box).
TakesAway(r) == r \in seenTicked /\ r \notin ticked

Count(r) ==
  /\ pc[r] = "counting"
  /\ ~(TakesAway(r) /\ OnlyOneAdminAuthLeft)
  /\ GoOn(r, "handling")
  /\ UNCHANGED <<tableVars, history>>

CountRefuses(r) ==
  /\ pc[r] = "counting"
  /\ TakesAway(r) /\ OnlyOneAdminAuthLeft
  /\ \/ kind[r] = "edit" /\ ShowAgain(r)
     \/ kind[r] = "delete" /\ Fail(r)

HandleRow(r) ==
  /\ pc[r] = "handling"
  /\ target[r] \in rows
  /\ GoOn(r, "saving")
  /\ UNCHANGED <<tableVars, history>>

\* First() finds no row, or a query fails.
QueryThrows(r) ==
  /\ pc[r] \in {"counting", "handling"}
  /\ Fail(r)

-----------------------------------------------------------------------------
(* The save, its answer, and whoever is overtaken by it.                   *)

\* The pages of row s somebody has before them.
PagesOf(s) == {r \in Request : pc[r] = "open" /\ target[r] = s}

\* The commit ends the request, whether its reply arrives or not.
Commit(r) ==
  /\ pc[r] = "saving"
  /\ Finish(r)
  /\ stale' = (IF forAdmins' = forAdmins THEN stale ELSE InFlight) \ {r}
  /\ outdated' = (IF forAdmins' = forAdmins THEN outdated
                  ELSE outdated \union PagesOf(target[r])) \ {r}

\* (mutant of UniqueName: there is no unique index)
NoUniqueIndex(r) == TRUE

\* The unique index on DeveloperName.
UniqueName(r) == ~NameTaken(name[target[r]])

SaveCreate(r) ==
  /\ kind[r] = "create"
  /\ UniqueName(r)
  /\ rows' = rows \union {target[r]}
  /\ forAdmins' = IF r \in ticked THEN forAdmins \union {target[r]} ELSE forAdmins
  /\ Commit(r)
  /\ UNCHANGED name

\* (mutant of Written: every column is written)
WrittenAlways(r) == TRUE

\* The column differs from what was read.
Written(r) == ~(r \in ticked <=> r \in seenTicked)

Edited(r) ==
  IF ~Written(r) THEN forAdmins
  ELSE IF r \in ticked THEN forAdmins \union {target[r]} ELSE forAdmins \ {target[r]}

\* (mutant of SaveEdit: nobody notices that the row is gone)
SaveEditOfAnyRow(r) ==
  /\ kind[r] = "edit"
  /\ forAdmins' = Edited(r)
  /\ Commit(r)
  /\ UNCHANGED <<rows, name>>

\* An UPDATE that finds no row throws; without a change there is no UPDATE.
SaveEdit(r) ==
  /\ kind[r] = "edit"
  /\ Written(r) => target[r] \in rows
  /\ forAdmins' = Edited(r)
  /\ Commit(r)
  /\ UNCHANGED <<rows, name>>

SaveDelete(r) ==
  /\ kind[r] = "delete"
  /\ target[r] \in rows
  /\ rows' = rows \ {target[r]}
  /\ forAdmins' = forAdmins \ {target[r]}
  /\ Commit(r)
  /\ UNCHANGED name

\* The database fails; or the name is taken, the row is gone, or an account was
\* last signed in by the scheme to be deleted (a foreign key without cascade).
SaveThrows(r) ==
  /\ pc[r] = "saving"
  /\ Fail(r)

-----------------------------------------------------------------------------
Next ==
  \/ \E r \in Request, s \in Scheme, n \in Name, box \in BOOLEAN :
       ValidateCreate(r, s, n, box)
  \/ \E r \in Request, s \in Scheme : OpenPage(r, s)
  \/ \E r \in Request, box \in BOOLEAN : ReadForEdit(r, box)
  \/ \E r \in Request, s \in Scheme : ReadForDelete(r, s)
  \/ \E r \in Request : Count(r)
  \/ \E r \in Request : CountRefuses(r)
  \/ \E r \in Request : HandleRow(r)
  \/ \E r \in Request : QueryThrows(r)
  \/ \E r \in Request : SaveCreate(r)
  \/ \E r \in Request : SaveEdit(r)
  \/ \E r \in Request : SaveDelete(r)
  \/ \E r \in Request : SaveThrows(r)

Spec == Init /\ [][Next]_vars

-----------------------------------------------------------------------------
(* Properties.                                                             *)

\* Every variable has its type; only rows are enabled.
TypeOK ==
  /\ rows \subseteq Scheme
  /\ name \in [Scheme -> Scheme \union Name]
  /\ forAdmins \subseteq rows
  /\ pc \in [Request -> {"idle", "open", "counting", "handling", "saving"}]
  /\ kind \in [Request -> Kind \union {"none"}]
  /\ target \in [Request -> Scheme \union {NoScheme}]
  /\ \A s \in {shownTicked, ticked, seenTicked, stale, outdated} : s \subseteq Request

\* The check of the validators is enough for requests that do not overlap: the
\* last scheme is taken from the administrators only by a request during which
\* another one changed what is enabled for them.
LastSchemeTakenByRace ==
  [][forAdmins # {} /\ forAdmins' = {}
       => \E r \in stale : pc[r] = "saving" /\ pc'[r] = "idle"]_vars

\* A choice of others is undone unawares by a page that was open when they made
\* it, and by nothing else: whoever switches a scheme, on or off, has changed the
\* box from what the page showed, or posted a page that was out of date by then.
\* What others switch while an edit is served is left to them by the edit of
\* another field.
SwitchedAsMeant ==
  [][\A s \in rows \intersect rows' :
       ~(s \in forAdmins <=> s \in forAdmins')
         => \E r \in Request :
              /\ pc[r] = "saving" /\ pc'[r] = "idle" /\ target[r] = s
              /\ r \in ticked <=> s \in forAdmins'
              /\ r \in outdated \/ ~(r \in ticked <=> r \in shownTicked)]_vars

\* Schemes are found by name when somebody signs in: of all requests that found
\* a name free at the same time one gets it.
OneSchemePerName == \A s, u \in rows : name[s] = name[u] => s = u

\* The commands that make accounts look up the scheme for e-mail and password
\* and fail without it: built-in schemes stay.
BuiltInStays == BuiltIn \subseteq rows

\* (does not hold) "You must have at least 1 authentication scheme enabled for
\* administrators."
SomeSchemeForAdmins == forAdmins # {}

-----------------------------------------------------------------------------
(* The abstract specification.                                             *)

Table == INSTANCE SchemeTable
           WITH names <- [s \in rows |-> name[s]],
                open <- InFlight,
                overtaken <- stale

\* Validators, tracked entities and saves come to commands that are checked and
\* done in one step, as far as no other request has overtaken them.
ImplementsTable == Table!Spec
=============================================================================
