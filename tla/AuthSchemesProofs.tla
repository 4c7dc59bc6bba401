-------------------------- MODULE AuthSchemesProofs --------------------------
(***************************************************************************)
(* Proofs about AuthSchemes, for any number of requests, rows and names.   *)
(*                                                                         *)
(* The invariant says what a request knows: as long as nobody has changed  *)
(* what is enabled for administrators since it began, what it read and     *)
(* counted still holds; and what a page shows as long as nobody has        *)
(* switched its row since it was opened.                                   *)
(***************************************************************************)
EXTENDS AuthSchemes, FiniteSetTheorems, TLAPS

\* What the forms of the requests say; the idle have none, and an open page has
\* not been posted.
FormInv ==
  \A r \in Request :
    /\ pc[r] \in {"idle", "open"} => r \notin ticked /\ r \notin seenTicked /\ r \notin stale
    /\ pc[r] = "open" => kind[r] = "edit"
    /\ pc[r] # "idle" => kind[r] \in Kind /\ target[r] \in Scheme
    /\ pc[r] \in {"counting", "handling"} => kind[r] \in {"edit", "delete"}
    /\ kind[r] = "delete" => r \notin ticked /\ target[r] \notin BuiltIn

\* A request that was not overtaken knows whether its row is enabled; once it has
\* counted, it takes nothing away unless another row is enabled too.
FreshInv ==
  \A r \in Request \ stale :
    r \in InFlight /\ kind[r] \in {"edit", "delete"} =>
      /\ r \in seenTicked <=> target[r] \in forAdmins
      /\ pc[r] # "counting" /\ TakesAway(r)
           => \E s \in forAdmins : s # target[r]

\* A page that is not out of date shows its row as it is; an edit posted from one
\* has read what the page showed.
PageInv ==
  \A r \in Request \ outdated :
    /\ pc[r] = "open" => (r \in shownTicked <=> target[r] \in forAdmins)
    /\ r \in InFlight /\ kind[r] = "edit" => (r \in seenTicked <=> r \in shownTicked)

IInv ==
  /\ TypeOK
  /\ FormInv
  /\ FreshInv
  /\ PageInv
  /\ OneSchemePerName
  /\ BuiltInStays

\* The invariant holds initially.
LEMMA InitIInv == Init => IInv
<1> SUFFICES ASSUME Init PROVE IInv
  OBVIOUS
<1>1. TypeOK
  BY SchemeAssumption DEF Init, TypeOK
<1>2. FormInv /\ FreshInv /\ PageInv
  BY DEF Init, FormInv, FreshInv, PageInv, InFlight
<1>3. OneSchemePerName /\ BuiltInStays
  BY SchemeAssumption DEF Init, OneSchemePerName, BuiltInStays
<1> QED
  BY <1>1, <1>2, <1>3 DEF IInv

\* A count other than 1 leaves a second enabled row beside any first one.
LEMMA AnotherLeft ==
  ASSUME NEW s \in forAdmins, ~OnlyOneAdminAuthLeft
  PROVE  \E u \in forAdmins : u # s
<1>1. forAdmins # {s}
  BY FS_Singleton DEF OnlyOneAdminAuthLeft
<1> QED
  BY <1>1

\* The end of a request keeps what is known of the others, if what is enabled
\* for administrators stays or everybody else is overtaken.
LEMMA FinishKeeps ==
  ASSUME IInv, NEW r \in Request, Finish(r),
         \/ forAdmins' = forAdmins /\ stale' = stale \ {r}
         \/ stale' = InFlight \ {r}
  PROVE  FormInv' /\ FreshInv'
<1>0. TypeOK /\ FormInv /\ FreshInv
  BY DEF IInv
<1>1. FormInv'
  BY <1>0 DEF TypeOK, FormInv, Finish, InFlight, Kind
<1>2. FreshInv'
  BY <1>0 DEF TypeOK, FormInv, FreshInv, Finish, InFlight, TakesAway, Kind
<1> QED
  BY <1>1, <1>2

\* It keeps what the pages show, if the pages of a row that is switched are
\* counted as out of date.
LEMMA FinishKeepsPages ==
  ASSUME IInv, NEW r \in Request, Finish(r), outdated \ {r} \subseteq outdated',
         \A q \in Request \ outdated' : q # r /\ pc[q] = "open" =>
           (target[q] \in forAdmins <=> target[q] \in forAdmins')
  PROVE  PageInv'
<1>0. TypeOK /\ PageInv
  BY DEF IInv
<1>1. /\ pc'[r] = "idle"
      /\ \A q \in Request \ {r} :
           /\ pc'[q] = pc[q] /\ kind'[q] = kind[q] /\ target'[q] = target[q]
           /\ q \in shownTicked' <=> q \in shownTicked
           /\ q \in seenTicked' <=> q \in seenTicked
  BY <1>0 DEF TypeOK, Finish
<1> QED
  BY <1>0, <1>1 DEF PageInv, InFlight

\* A save switches no row but its own.
LEMMA CommitKeepsPages ==
  ASSUME IInv, NEW r \in Request, Commit(r),
         forAdmins \ {target[r]} \subseteq forAdmins',
         forAdmins' \subseteq forAdmins \union {target[r]}
  PROVE  PageInv'
<1>1. Finish(r) /\ outdated \ {r} \subseteq outdated'
  BY DEF Commit
<1>2. ASSUME NEW q \in Request \ outdated', q # r, pc[q] = "open"
      PROVE  target[q] \in forAdmins <=> target[q] \in forAdmins'
  <2>1. forAdmins' = forAdmins \/ target[q] # target[r]
    BY <1>2 DEF Commit, PagesOf
  <2> QED
    BY <2>1
<1> QED
  BY <1>1, <1>2, FinishKeepsPages

\* Every step keeps the types.
LEMMA TypeStep == IInv /\ [Next]_vars => TypeOK'
<1> SUFFICES ASSUME IInv, [Next]_vars PROVE TypeOK'
  OBVIOUS
<1>0. TypeOK /\ FormInv
  BY DEF IInv
<1>1. ASSUME NEW r \in Request, NEW s \in Scheme, NEW n \in Name, NEW box \in BOOLEAN,
             ValidateCreate(r, s, n, box)
      PROVE TypeOK'
  BY <1>0, <1>1 DEF TypeOK, ValidateCreate, Begin, LeavePage, Kind
<1>2. ASSUME NEW r \in Request, NEW s \in Scheme, NEW k \in Kind, NEW box \in BOOLEAN,
             ReadRow(r, k, s, box), LeavePage(r) \/ UNCHANGED <<shownTicked, outdated>>
      PROVE TypeOK'
  BY <1>0, <1>2 DEF TypeOK, ReadRow, Begin, LeavePage, tableVars
<1>3. ASSUME NEW r \in Request, Count(r) \/ HandleRow(r) PROVE TypeOK'
  BY <1>0, <1>3 DEF TypeOK, Count, HandleRow, GoOn, tableVars, history
<1>4. ASSUME NEW r \in Request, Fail(r) PROVE TypeOK'
  BY <1>0, <1>4 DEF TypeOK, Fail, Finish, tableVars
<1>5. ASSUME NEW r \in Request, Commit(r), rows' \subseteq Scheme, name' = name,
             forAdmins' \subseteq rows'
      PROVE TypeOK'
  BY <1>0, <1>5 DEF TypeOK, Commit, Finish, InFlight, PagesOf
<1>6. ASSUME NEW r \in Request, SaveCreate(r) PROVE TypeOK'
  BY <1>0, <1>5, <1>6 DEF TypeOK, FormInv, SaveCreate, Commit
<1>7. ASSUME NEW r \in Request, SaveEdit(r) PROVE TypeOK'
  BY <1>0, <1>5, <1>7 DEF TypeOK, SaveEdit, Edited
<1>8. ASSUME NEW r \in Request, SaveDelete(r) PROVE TypeOK'
  BY <1>0, <1>5, <1>8 DEF TypeOK, SaveDelete
<1>9. ASSUME NEW r \in Request, NEW s \in Scheme, OpenPage(r, s) PROVE TypeOK'
  BY <1>0, <1>9 DEF TypeOK, OpenPage, tableVars, Kind
<1>10. ASSUME NEW r \in Request, ShowAgain(r) PROVE TypeOK'
  BY <1>0, <1>10 DEF TypeOK, ShowAgain, tableVars
<1>11. ASSUME NEW r \in Request, NEW box \in BOOLEAN, ReadForEdit(r, box) PROVE TypeOK'
  BY <1>0, <1>2, <1>11 DEF FormInv, ReadForEdit, Kind
<1>12. ASSUME UNCHANGED vars PROVE TypeOK'
  BY <1>0, <1>12 DEF TypeOK, vars, tableVars, requestVars, history
<1> QED
  BY <1>1, <1>2, <1>3, <1>4, <1>6, <1>7, <1>8, <1>9, <1>10, <1>11, <1>12
     DEF Next, ReadForDelete, CountRefuses, QueryThrows, SaveThrows, Kind

\* Every step keeps the forms, what the requests know and what the pages show.
LEMMA KnownStep == IInv /\ [Next]_vars => FormInv' /\ FreshInv' /\ PageInv'
<1> SUFFICES ASSUME IInv, [Next]_vars PROVE FormInv' /\ FreshInv' /\ PageInv'
  OBVIOUS
<1>0. TypeOK /\ FormInv /\ FreshInv /\ PageInv
  BY DEF IInv
<1>1. ASSUME NEW r \in Request, NEW s \in Scheme, NEW n \in Name, NEW box \in BOOLEAN,
             ValidateCreate(r, s, n, box)
      PROVE FormInv' /\ FreshInv' /\ PageInv'
  <2>1. FormInv'
    BY <1>0, <1>1 DEF TypeOK, FormInv, ValidateCreate, Begin, Kind
  <2>2. FreshInv'
    BY <1>0, <1>1
       DEF TypeOK, FormInv, FreshInv, ValidateCreate, Begin, TakesAway, InFlight, Kind
  <2>3. PageInv'
    BY <1>0, <1>1 DEF TypeOK, PageInv, ValidateCreate, Begin, LeavePage, InFlight
  <2> QED
    BY <2>1, <2>2, <2>3
<1>2. ASSUME NEW r \in Request, NEW s \in Scheme, NEW k \in {"edit", "delete"},
             NEW box \in BOOLEAN, ReadRow(r, k, s, box),
             k = "delete" => s \notin BuiltIn /\ box = FALSE
      PROVE FormInv' /\ FreshInv'
  <2>1. FormInv'
    BY <1>0, <1>2 DEF TypeOK, FormInv, ReadRow, Begin, tableVars, Kind
  <2>2. FreshInv'
    BY <1>0, <1>2
       DEF TypeOK, FormInv, FreshInv, ReadRow, Begin, tableVars, TakesAway, InFlight, Kind
  <2> QED
    BY <2>1, <2>2
<1>3. ASSUME NEW r \in Request, NEW s \in Scheme, ReadForDelete(r, s)
      PROVE FormInv' /\ FreshInv' /\ PageInv'
  <2>1. PageInv'
    BY <1>0, <1>3
       DEF TypeOK, PageInv, ReadForDelete, ReadRow, Begin, LeavePage, tableVars, InFlight
  <2> QED
    BY <1>2, <1>3, <2>1 DEF ReadForDelete
<1>4. ASSUME NEW r \in Request, NEW box \in BOOLEAN, ReadForEdit(r, box)
      PROVE FormInv' /\ FreshInv' /\ PageInv'
  <2>1. target[r] \in Scheme
    BY <1>0, <1>4 DEF FormInv, ReadForEdit
  <2>2. FormInv' /\ FreshInv'
    BY <1>2, <1>4, <2>1 DEF ReadForEdit
  <2>3. r \in seenTicked' <=> target[r] \in forAdmins
    BY <1>0, <1>4 DEF FormInv, ReadForEdit, ReadRow
  <2>4. PageInv'
    BY <1>0, <1>4, <2>3
       DEF TypeOK, PageInv, ReadForEdit, ReadRow, Begin, tableVars, InFlight
  <2> QED
    BY <2>2, <2>4
<1>5. ASSUME NEW r \in Request, Count(r) PROVE FormInv' /\ FreshInv' /\ PageInv'
  <2>1. FormInv'
    BY <1>0, <1>5 DEF TypeOK, FormInv, Count, GoOn, tableVars, history, Kind
  <2>2. r \notin stale /\ TakesAway(r) => \E u \in forAdmins : u # target[r]
    <3> SUFFICES ASSUME r \notin stale, TakesAway(r)
                 PROVE \E u \in forAdmins : u # target[r]
      OBVIOUS
    <3>1. target[r] \in forAdmins
      BY <1>0, <1>5 DEF FormInv, FreshInv, Count, TakesAway, InFlight
    <3> QED
      BY <3>1, <1>5, AnotherLeft DEF Count
  <2>3. FreshInv'
    BY <1>0, <1>5, <2>2
       DEF TypeOK, FormInv, FreshInv, Count, GoOn, tableVars, history, TakesAway, InFlight
  <2>4. PageInv'
    BY <1>0, <1>5 DEF TypeOK, PageInv, Count, GoOn, tableVars, history, InFlight
  <2> QED
    BY <2>1, <2>3, <2>4
<1>6. ASSUME NEW r \in Request, HandleRow(r) PROVE FormInv' /\ FreshInv' /\ PageInv'
  <2>1. FormInv' /\ FreshInv'
    BY <1>0, <1>6
       DEF TypeOK, FormInv, FreshInv, HandleRow, GoOn, tableVars, history, TakesAway,
           InFlight, Kind
  <2>2. PageInv'
    BY <1>0, <1>6 DEF TypeOK, PageInv, HandleRow, GoOn, tableVars, history, InFlight
  <2> QED
    BY <2>1, <2>2
<1>7. ASSUME NEW r \in Request, Fail(r) PROVE FormInv' /\ FreshInv' /\ PageInv'
  <2>1. Finish(r) /\ forAdmins' = forAdmins /\ stale' = stale \ {r} /\ outdated' = outdated \ {r}
    BY <1>7 DEF Fail, tableVars
  <2> QED
    BY <2>1, FinishKeeps, FinishKeepsPages
<1>8. ASSUME NEW r \in Request, SaveCreate(r) \/ SaveEdit(r) \/ SaveDelete(r)
      PROVE FormInv' /\ FreshInv' /\ PageInv'
  <2>1. /\ Commit(r)
        /\ forAdmins \ {target[r]} \subseteq forAdmins'
        /\ forAdmins' \subseteq forAdmins \union {target[r]}
    BY <1>8 DEF SaveCreate, SaveEdit, SaveDelete, Edited
  <2>2. FormInv' /\ FreshInv'
    BY <2>1, FinishKeeps DEF Commit
  <2> QED
    BY <2>1, <2>2, CommitKeepsPages
<1>9. ASSUME NEW r \in Request, NEW s \in Scheme, OpenPage(r, s)
      PROVE FormInv' /\ FreshInv' /\ PageInv'
  <2>1. FormInv'
    BY <1>0, <1>9 DEF TypeOK, FormInv, OpenPage, tableVars, Kind
  <2>2. FreshInv'
    BY <1>0, <1>9 DEF TypeOK, FreshInv, OpenPage, tableVars, TakesAway, InFlight
  <2>3. PageInv'
    BY <1>0, <1>9 DEF TypeOK, PageInv, OpenPage, tableVars, InFlight
  <2> QED
    BY <2>1, <2>2, <2>3
<1>10. ASSUME NEW r \in Request, CountRefuses(r), ShowAgain(r), kind[r] = "edit"
       PROVE FormInv' /\ FreshInv' /\ PageInv'
  <2>1. FormInv'
    BY <1>0, <1>10 DEF TypeOK, FormInv, ShowAgain, CountRefuses, tableVars, Kind
  <2>2. FreshInv'
    BY <1>0, <1>10 DEF TypeOK, FreshInv, ShowAgain, tableVars, TakesAway, InFlight
  <2>3. r \notin outdated' => (r \in shownTicked <=> target[r] \in forAdmins)
    BY <1>0, <1>10 DEF FreshInv, PageInv, ShowAgain, CountRefuses, InFlight
  <2>4. PageInv'
    BY <1>0, <1>10, <2>3 DEF TypeOK, PageInv, ShowAgain, tableVars, InFlight
  <2> QED
    BY <2>1, <2>2, <2>4
<1>11. ASSUME UNCHANGED vars PROVE FormInv' /\ FreshInv' /\ PageInv'
  BY <1>0, <1>11
     DEF FormInv, FreshInv, PageInv, TakesAway, InFlight, vars, tableVars, requestVars, history
<1> QED
  BY <1>1, <1>3, <1>4, <1>5, <1>6, <1>7, <1>8, <1>9, <1>10, <1>11
     DEF Next, CountRefuses, QueryThrows, SaveThrows

\* Every step keeps the names apart and the built-in rows in place.
LEMMA RowsStep == IInv /\ [Next]_vars => OneSchemePerName' /\ BuiltInStays'
<1> SUFFICES ASSUME IInv, [Next]_vars PROVE OneSchemePerName' /\ BuiltInStays'
  OBVIOUS
<1>0. TypeOK /\ FormInv /\ OneSchemePerName /\ BuiltInStays
  BY DEF IInv
<1>1. ASSUME NEW r \in Request, NEW s \in Scheme, NEW n \in Name, NEW box \in BOOLEAN,
             ValidateCreate(r, s, n, box)
      PROVE OneSchemePerName' /\ BuiltInStays'
  BY <1>0, <1>1 DEF TypeOK, OneSchemePerName, BuiltInStays, ValidateCreate
<1>2. ASSUME NEW r \in Request, SaveCreate(r) PROVE OneSchemePerName' /\ BuiltInStays'
  BY <1>0, <1>2
     DEF OneSchemePerName, BuiltInStays, SaveCreate, UniqueName, NameTaken
<1>3. ASSUME NEW r \in Request, SaveDelete(r) PROVE OneSchemePerName' /\ BuiltInStays'
  BY <1>0, <1>3 DEF FormInv, OneSchemePerName, BuiltInStays, SaveDelete
<1>4. ASSUME UNCHANGED <<rows, name>> PROVE OneSchemePerName' /\ BuiltInStays'
  BY <1>0, <1>4 DEF OneSchemePerName, BuiltInStays
<1> QED
  BY <1>1, <1>2, <1>3, <1>4
     DEF Next, OpenPage, ReadForEdit, ReadForDelete, ReadRow, Count, CountRefuses,
         ShowAgain, HandleRow, QueryThrows, SaveEdit, SaveThrows, Fail, vars, tableVars

\* The inductive invariant of the schemes.
THEOREM SchemeInvariant == Spec => []IInv
<1>1. IInv /\ [Next]_vars => IInv'
  BY TypeStep, KnownStep, RowsStep DEF IInv
<1> QED
  BY InitIInv, <1>1, PTL DEF Spec

\* Every variable keeps its type.
THEOREM SchemeTypes == Spec => []TypeOK
<1>1. IInv => TypeOK
  BY DEF IInv
<1> QED
  BY SchemeInvariant, <1>1, PTL

\* No two rows have one DeveloperName.
THEOREM NamesAreUnique == Spec => []OneSchemePerName
<1>1. IInv => OneSchemePerName
  BY DEF IInv
<1> QED
  BY SchemeInvariant, <1>1, PTL

\* The rows of the setup are never deleted.
THEOREM BuiltInSchemesStay == Spec => []BuiltInStays
<1>1. IInv => BuiltInStays
  BY DEF IInv
<1> QED
  BY SchemeInvariant, <1>1, PTL

\* Only a request that was overtaken takes the last scheme from the administrators.
THEOREM LastSchemeNeedsRace == Spec => LastSchemeTakenByRace
<1>1. IInv /\ [Next]_vars =>
        [forAdmins # {} /\ forAdmins' = {}
           => \E r \in stale : pc[r] = "saving" /\ pc'[r] = "idle"]_vars
  <2> SUFFICES ASSUME IInv, [Next]_vars, forAdmins # {}, forAdmins' = {}
               PROVE \E r \in stale : pc[r] = "saving" /\ pc'[r] = "idle"
    OBVIOUS
  <2>0. TypeOK /\ FormInv /\ FreshInv
    BY DEF IInv
  <2>1. ~UNCHANGED forAdmins
    OBVIOUS
  <2>2. PICK r \in Request : SaveCreate(r) \/ SaveEdit(r) \/ SaveDelete(r)
    BY <2>1
       DEF Next, ValidateCreate, OpenPage, ReadForEdit, ReadForDelete, ReadRow, Count,
           CountRefuses, ShowAgain, HandleRow, QueryThrows, SaveThrows, Fail, vars, tableVars
  <2>3. pc[r] = "saving" /\ pc'[r] = "idle"
    BY <2>0, <2>2 DEF TypeOK, SaveCreate, SaveEdit, SaveDelete, Commit, Finish
  <2>4. SUFFICES ASSUME r \notin stale PROVE FALSE
    BY <2>3
  <2>5. CASE SaveCreate(r)
    BY <2>1, <2>5 DEF SaveCreate
  <2>6. CASE SaveEdit(r)
    <3>1. TakesAway(r) /\ forAdmins' = forAdmins \ {target[r]}
      BY <2>1, <2>6 DEF SaveEdit, Edited, Written, TakesAway
    <3> QED
      BY <2>0, <2>3, <2>4, <2>6, <3>1 DEF FreshInv, SaveEdit, InFlight
  <2>7. CASE SaveDelete(r)
    <3>1. forAdmins' = forAdmins \ {target[r]} /\ r \notin ticked
      BY <2>0, <2>7 DEF SaveDelete, FormInv
    <3>2. target[r] \in forAdmins
      BY <2>1, <3>1
    <3> QED
      BY <2>0, <2>3, <2>4, <2>7, <3>1, <3>2 DEF FreshInv, SaveDelete, TakesAway, InFlight
  <2> QED
    BY <2>2, <2>5, <2>6, <2>7
<1> QED
  BY SchemeInvariant, <1>1, PTL DEF Spec, LastSchemeTakenByRace

\* Whoever switches a scheme has changed the box from what the page showed, or has
\* posted a page that another's switch of the row had put out of date.
THEOREM SwitchesAreMeant == Spec => SwitchedAsMeant
<1>1. IInv /\ [Next]_vars =>
        [\A s \in rows \intersect rows' :
           ~(s \in forAdmins <=> s \in forAdmins')
             => \E r \in Request :
                  /\ pc[r] = "saving" /\ pc'[r] = "idle" /\ target[r] = s
                  /\ r \in ticked <=> s \in forAdmins'
                  /\ r \in outdated \/ ~(r \in ticked <=> r \in shownTicked)]_vars
  <2> SUFFICES ASSUME IInv, [Next]_vars, NEW s \in rows \intersect rows',
                      ~(s \in forAdmins <=> s \in forAdmins')
               PROVE \E r \in Request :
                       /\ pc[r] = "saving" /\ pc'[r] = "idle" /\ target[r] = s
                       /\ r \in ticked <=> s \in forAdmins'
                       /\ r \in outdated \/ ~(r \in ticked <=> r \in shownTicked)
    OBVIOUS
  <2>0. TypeOK /\ PageInv
    BY DEF IInv
  <2>1. ~UNCHANGED forAdmins
    OBVIOUS
  <2>2. PICK r \in Request : SaveCreate(r) \/ SaveEdit(r) \/ SaveDelete(r)
    BY <2>1
       DEF Next, ValidateCreate, OpenPage, ReadForEdit, ReadForDelete, ReadRow, Count,
           CountRefuses, ShowAgain, HandleRow, QueryThrows, SaveThrows, Fail, vars, tableVars
  <2>3. pc[r] = "saving" /\ pc'[r] = "idle"
    BY <2>0, <2>2 DEF TypeOK, SaveCreate, SaveEdit, SaveDelete, Commit, Finish
  <2>4. ~SaveCreate(r)
    BY DEF SaveCreate, UniqueName, NameTaken
  <2>5. ~SaveDelete(r)
    BY DEF SaveDelete
  <2>6. SaveEdit(r)
    BY <2>2, <2>4, <2>5
  <2>7. target[r] = s /\ ~(r \in ticked <=> r \in seenTicked)
    BY <2>6 DEF SaveEdit, Edited, Written
  <2>8. r \in ticked <=> s \in forAdmins'
    BY <2>6, <2>7 DEF SaveEdit, Edited, Written
  <2>9. r \in outdated \/ (r \in seenTicked <=> r \in shownTicked)
    BY <2>0, <2>3, <2>6 DEF PageInv, SaveEdit, InFlight
  <2> QED
    BY <2>3, <2>7, <2>8, <2>9
<1> QED
  BY SchemeInvariant, <1>1, PTL DEF Spec, SwitchedAsMeant

-----------------------------------------------------------------------------
(* The refinement.                                                         *)

\* A row about to be inserted has an id of its own, and a name of the form.
NewRowInv ==
  \A r \in Request :
    r \in InFlight /\ kind[r] = "create" =>
      /\ target[r] \notin rows /\ name[target[r]] \in Name
      /\ \A q \in Request : q # r /\ pc[q] # "idle" => target[q] # target[r]

\* Every step keeps the ids of new rows apart from all others.
LEMMA NewRowStep == IInv /\ NewRowInv /\ [Next]_vars => NewRowInv'
<1> SUFFICES ASSUME IInv, NewRowInv, [Next]_vars PROVE NewRowInv'
  OBVIOUS
<1>0. TypeOK /\ FormInv
  BY DEF IInv
<1>1. ASSUME NEW r \in Request, NEW s \in Scheme, NEW n \in Name, NEW box \in BOOLEAN,
             ValidateCreate(r, s, n, box)
      PROVE NewRowInv'
  BY <1>0, <1>1 DEF TypeOK, NewRowInv, ValidateCreate, Begin, InFlight
<1>2. ASSUME NEW r \in Request, NEW s \in Scheme, NEW k \in {"edit", "delete"},
             NEW box \in BOOLEAN, ReadRow(r, k, s, box)
      PROVE NewRowInv'
  BY <1>0, <1>2 DEF TypeOK, NewRowInv, ReadRow, Begin, tableVars, InFlight
<1>3. ASSUME NEW r \in Request, Count(r) \/ HandleRow(r) PROVE NewRowInv'
  BY <1>0, <1>3 DEF TypeOK, FormInv, NewRowInv, Count, HandleRow, GoOn, tableVars, InFlight
<1>4. ASSUME NEW r \in Request, Finish(r), UNCHANGED name,
             rows' \subseteq rows \union (IF kind[r] = "create" THEN {target[r]} ELSE {}),
             r \in InFlight
      PROVE NewRowInv'
  BY <1>0, <1>4 DEF TypeOK, NewRowInv, Finish, InFlight
<1>5. ASSUME NEW r \in Request, Fail(r), r \in InFlight PROVE NewRowInv'
  BY <1>4, <1>5 DEF Fail, tableVars
<1>6. ASSUME NEW r \in Request, SaveCreate(r) \/ SaveEdit(r) \/ SaveDelete(r)
      PROVE NewRowInv'
  BY <1>4, <1>6 DEF SaveCreate, SaveEdit, SaveDelete, Commit, InFlight
<1>7. ASSUME NEW r \in Request, NEW s \in Scheme, OpenPage(r, s) PROVE NewRowInv'
  BY <1>0, <1>7 DEF TypeOK, NewRowInv, OpenPage, tableVars, InFlight
<1>8. ASSUME NEW r \in Request, ShowAgain(r) PROVE NewRowInv'
  BY <1>0, <1>8 DEF TypeOK, NewRowInv, ShowAgain, tableVars, InFlight
<1>9. ASSUME NEW r \in Request, NEW box \in BOOLEAN, ReadForEdit(r, box) PROVE NewRowInv'
  BY <1>0, <1>2, <1>9 DEF FormInv, ReadForEdit
<1>10. ASSUME UNCHANGED vars PROVE NewRowInv'
  BY <1>10 DEF NewRowInv, InFlight, vars, tableVars, requestVars
<1>11. ASSUME NEW r \in Request, CountRefuses(r) \/ QueryThrows(r) \/ SaveThrows(r)
       PROVE NewRowInv'
  BY <1>5, <1>8, <1>11 DEF CountRefuses, QueryThrows, SaveThrows, InFlight
<1> QED
  BY <1>1, <1>2, <1>3, <1>6, <1>7, <1>9, <1>10, <1>11 DEF Next, ReadForDelete

\* The names of the rows, as the table has them.
Names == [s \in rows |-> name[s]]

\* A request that is answered, refused or throws ends in the table as well.
LEMMA DoneStep ==
  ASSUME TypeOK, NEW r \in Request, Finish(r), r \in InFlight,
         stale' = (IF forAdmins' = forAdmins THEN stale ELSE InFlight) \ {r}
  PROVE  Table!Done(r)
<1>1. InFlight' = InFlight \ {r} /\ r \in InFlight
  BY DEF TypeOK, Finish, InFlight
<1> QED
  BY <1>1 DEF Table!Done

LEMMA SaveCreateStep ==
  ASSUME IInv, NewRowInv, NEW r \in Request, SaveCreate(r)
  PROVE  Table!Next
<1> DEFINE s == target[r]
<1>1. /\ TypeOK /\ r \in InFlight /\ s \in Scheme /\ s \notin rows /\ name[s] \in Name
  BY DEF IInv, TypeOK, FormInv, NewRowInv, SaveCreate, Commit, InFlight
<1>2. Table!Done(r)
  BY <1>1, DoneStep DEF SaveCreate, Commit
<1>3. \A u \in rows : Names[u] # name[s]
  BY DEF SaveCreate, UniqueName, NameTaken, Names
<1>4. Names' = [u \in rows' |-> IF u = s THEN name[s] ELSE Names[u]]
  BY <1>1 DEF Names, SaveCreate
<1>5. CASE r \in ticked
  <2>1. Table!Create(r, s, name[s], TRUE)
    BY <1>1, <1>2, <1>3, <1>4, <1>5 DEF Table!Create, SaveCreate, Names
  <2> HIDE DEF s
  <2> QED
    BY <1>1, <2>1 DEF Table!Next
<1>6. CASE r \notin ticked
  <2>1. Table!Create(r, s, name[s], FALSE)
    BY <1>1, <1>2, <1>3, <1>4, <1>6 DEF Table!Create, SaveCreate, Names
  <2> HIDE DEF s
  <2> QED
    BY <1>1, <2>1 DEF Table!Next
<1> QED
  BY <1>5, <1>6

LEMMA SaveEditStep ==
  ASSUME IInv, NEW r \in Request, SaveEdit(r)
  PROVE  Table!Next
<1> DEFINE s == target[r]
<1>1. /\ TypeOK /\ pc[r] = "saving" /\ r \in InFlight /\ s \in Scheme
      /\ UNCHANGED <<rows, Names>>
  BY DEF IInv, TypeOK, FormInv, SaveEdit, Commit, Kind, Names, InFlight
<1>2. Table!Done(r)
  BY <1>1, DoneStep DEF SaveEdit, Commit
<1>3. r \notin stale => /\ r \in seenTicked <=> s \in forAdmins
                        /\ TakesAway(r) => \E u \in forAdmins : u # s
  BY <1>1 DEF IInv, FreshInv, SaveEdit
<1>4. CASE ~Written(r)
  <2>1. Table!Leave(r)
    BY <1>1, <1>2, <1>4 DEF Table!Leave, SaveEdit, Edited, Names
  <2> QED
    BY <2>1 DEF Table!Next
<1>5. CASE Written(r) /\ r \in ticked
  <2>1. s \in rows /\ forAdmins' = forAdmins \union {s}
    BY <1>5 DEF SaveEdit, Edited
  <2>2. r \in stale \/ s \notin forAdmins
    BY <1>3, <1>5 DEF Written
  <2> HIDE DEF s
  <2>3. Table!SwitchOn(r, s)
    BY <1>1, <1>2, <2>1, <2>2 DEF Table!SwitchOn, Names
  <2> QED
    BY <1>1, <2>3 DEF Table!Next
<1>6. CASE Written(r) /\ r \notin ticked
  <2>1. s \in rows /\ forAdmins' = forAdmins \ {s}
    BY <1>6 DEF SaveEdit, Edited
  <2>2. r \in seenTicked /\ TakesAway(r)
    BY <1>6 DEF Written, TakesAway
  <2>3. r \in stale \/ (s \in forAdmins /\ \E u \in forAdmins : u # s)
    BY <1>3, <2>2
  <2> HIDE DEF s
  <2>4. Table!SwitchOff(r, s)
    BY <1>1, <1>2, <2>1, <2>3 DEF Table!SwitchOff, Table!AnotherIsLeft, Names
  <2> QED
    BY <1>1, <2>4 DEF Table!Next
<1> QED
  BY <1>4, <1>5, <1>6

LEMMA SaveDeleteStep ==
  ASSUME IInv, NEW r \in Request, SaveDelete(r)
  PROVE  Table!Next
<1>1. TypeOK /\ pc[r] = "saving" /\ r \in InFlight /\ target[r] \in Scheme
  BY DEF IInv, TypeOK, FormInv, SaveDelete, Commit, Kind, InFlight
<1>2. PICK s \in Scheme : s = target[r]
  BY <1>1
<1>3. s \in rows \ BuiltIn /\ r \notin ticked
  BY <1>2 DEF IInv, FormInv, SaveDelete
<1>4. Table!Done(r)
  BY <1>1, DoneStep DEF SaveDelete, Commit
<1>5. r \in stale \/ s \notin forAdmins \/ \E u \in forAdmins : u # s
  BY <1>1, <1>2, <1>3 DEF IInv, FreshInv, SaveDelete, TakesAway
<1>6. Names' = [u \in rows' |-> Names[u]]
  BY <1>2 DEF Names, SaveDelete
<1>7. Table!Delete(r, s)
  BY <1>2, <1>3, <1>4, <1>5, <1>6 DEF Table!Delete, Table!AnotherIsLeft, SaveDelete, Names
<1> QED
  BY <1>7 DEF Table!Next

\* Every step of the commands is one of the table or changes nothing in it.
LEMMA TableStep == IInv /\ NewRowInv /\ [Next]_vars => [Table!Next]_(Table!vars)
<1> SUFFICES ASSUME IInv, NewRowInv, [Next]_vars PROVE Table!Next \/ UNCHANGED Table!vars
  OBVIOUS
<1>0. TypeOK /\ FormInv
  BY DEF IInv
<1>1. ASSUME NEW r \in Request, NEW l, l \notin {"idle", "open"}, pc[r] \in {"idle", "open"},
             pc' = [pc EXCEPT ![r] = l], UNCHANGED <<rows, Names, forAdmins, stale>>
      PROVE Table!Next
  <2>1. InFlight' = InFlight \union {r} /\ r \notin InFlight
    BY <1>0, <1>1 DEF TypeOK, InFlight
  <2>2. Table!Arrive(r)
    BY <1>1, <2>1 DEF Table!Arrive, Names
  <2> QED
    BY <2>2 DEF Table!Next
<1>2. ASSUME NEW r \in Request, NEW s \in Scheme, NEW n \in Name, NEW box \in BOOLEAN,
             ValidateCreate(r, s, n, box)
      PROVE Table!Next
  <2>1. UNCHANGED <<rows, Names, forAdmins, stale>>
    BY <1>0, <1>2 DEF TypeOK, ValidateCreate, Names
  <2> QED
    BY <1>1, <1>2, <2>1 DEF ValidateCreate, Begin
<1>3. ASSUME NEW r \in Request, NEW s, NEW k, NEW box, ReadRow(r, k, s, box)
      PROVE Table!Next
  BY <1>1, <1>3 DEF ReadRow, Begin, tableVars, Names
<1>4. ASSUME NEW r \in Request, Count(r) \/ HandleRow(r) PROVE UNCHANGED Table!vars
  <2>1. UNCHANGED <<rows, Names, forAdmins, InFlight, stale>>
    BY <1>0, <1>4 DEF TypeOK, Count, HandleRow, GoOn, tableVars, history, Names, InFlight
  <2> QED
    BY <2>1 DEF Table!vars, Names
<1>5. ASSUME NEW r \in Request, Fail(r), r \in InFlight PROVE Table!Next
  <2>1. UNCHANGED <<rows, Names, forAdmins>>
    BY <1>5 DEF Fail, tableVars, Names
  <2>2. Table!Done(r)
    BY <1>0, <1>5, <2>1, DoneStep DEF Fail
  <2>3. Table!Leave(r)
    BY <2>1, <2>2 DEF Table!Leave, Names
  <2> QED
    BY <2>3 DEF Table!Next
<1>6. ASSUME NEW r \in Request, ShowAgain(r), r \in InFlight PROVE Table!Next
  <2>1. UNCHANGED <<rows, Names, forAdmins>> /\ stale' = stale \ {r}
    BY <1>6 DEF ShowAgain, tableVars, Names
  <2>2. InFlight' = InFlight \ {r}
    BY <1>0, <1>6 DEF TypeOK, ShowAgain, InFlight
  <2>3. Table!Leave(r)
    BY <1>6, <2>1, <2>2 DEF Table!Leave, Table!Done, Names
  <2> QED
    BY <2>3 DEF Table!Next
<1>7. ASSUME NEW r \in Request, CountRefuses(r) \/ QueryThrows(r) \/ SaveThrows(r)
      PROVE Table!Next
  BY <1>5, <1>6, <1>7 DEF CountRefuses, QueryThrows, SaveThrows, InFlight
<1>8. ASSUME NEW r \in Request, NEW s \in Scheme, OpenPage(r, s) PROVE UNCHANGED Table!vars
  <2>1. UNCHANGED <<rows, Names, forAdmins, InFlight, stale>>
    BY <1>0, <1>8 DEF TypeOK, OpenPage, tableVars, Names, InFlight
  <2> QED
    BY <2>1 DEF Table!vars, Names
<1>9. CASE UNCHANGED vars
  BY <1>9 DEF vars, tableVars, requestVars, history, Table!vars, InFlight
<1> QED
  BY <1>2, <1>3, <1>4, <1>7, <1>8, <1>9, SaveCreateStep, SaveEditStep, SaveDeleteStep
     DEF Next, ReadForEdit, ReadForDelete

\* The commands implement the table: checked and done in one step, unless another
\* request overtakes them.
THEOREM SchemesImplementTable == Spec => ImplementsTable
<1>1. Init => Table!Init /\ NewRowInv
  BY SchemeAssumption DEF Init, Table!Init, InFlight, NewRowInv
<1>2. Spec => []NewRowInv
  BY <1>1, NewRowStep, SchemeInvariant, PTL DEF Spec
<1> QED
  BY <1>1, <1>2, TableStep, SchemeInvariant, PTL DEF Spec, ImplementsTable, Table!Spec
=============================================================================
