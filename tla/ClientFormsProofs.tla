------------------------- MODULE ClientFormsProofs -------------------------
(***************************************************************************)
(* Proofs about ClientForms, for any fields, values, pages and server.     *)
(*                                                                         *)
(* The operators of ClientForms change one record, the form.  The lemmas   *)
(* say what each leaves in the record and which parts of the invariant it  *)
(* keeps; the steps of Next are then combinations of them.                 *)
(***************************************************************************)
EXTENDS ClientForms, FiniteSetTheorems, TLAPS

FormNames ==
  {"rules", "sentAlong", "errors", "invalid", "submitted", "previous", "flight",
   "orphans", "lost", "pending", "pendingRequest", "formSubmitted", "linked",
   "inError", "messages", "summary"}

\* What the parts of a form are that have nothing to do with requests.
Shape(s) ==
  /\ DOMAIN s = FormNames
  /\ s.errors \subseteq Field /\ s.invalid \subseteq Field /\ s.submitted \subseteq Field
  /\ s.linked \subseteq Field /\ s.inError \subseteq Field /\ s.messages \subseteq Field
  /\ s.formSubmitted \in BOOLEAN
  /\ s.summary \in SummaryType

\* Rules come from the attributes, parsed when some of the elements were in the
\* form, or there are none.
RulesInv(s) ==
  \A f \in Field :
    /\ \/ s.rules[f] = NoRule
       \/ \E there \in SUBSET Field : s.rules[f] = LocalRules(Parsed(f), there)
    /\ s.sentAlong[f] = {} \/ s.sentAlong[f] = SentAlong(Parsed(f))

\* What is pending, in flight, lost and remembered of one field.
FieldInv(s, f) ==
  /\ DOMAIN s.previous[f] = {"old", "valid"} /\ s.previous[f].valid \in BOOLEAN
  /\ s.flight[f] = {} \/ \E q : s.flight[f] = {q}
  /\ s.previous[f].old = {} \/ \E q : s.previous[f].old = {q}
  /\ f \in s.lost => s.flight[f] = {}
  /\ s.flight[f] # {} /\ f \notin s.orphans => s.previous[f].old = s.flight[f]
  /\ f \in s.orphans => s.previous[f].old = {}
  /\ f \in s.pending => s.sentAlong[f] # {}

Remembered(s) ==
  \A f \in Field \ s.pending :
    s.previous[f].old # {} => (s.previous[f].valid <=> s.previous[f].old \subseteq Accepted)

AskingInv(s) ==
  /\ DOMAIN s.flight = Field /\ DOMAIN s.previous = Field
  /\ s.orphans \subseteq Field /\ s.lost \subseteq Field
  /\ \A f \in Field : FieldInv(s, f)
  /\ s.pending = {f \in Field : s.flight[f] # {}} \union s.lost
  /\ s.pendingRequest = Cardinality(s.pending)
  /\ Remembered(s)

ShownInv(s) ==
  /\ s.errors \subseteq s.inError
  /\ s.errors \intersect Page.replace \subseteq s.messages

FormInv(s) == Shape(s) /\ RulesInv(s) /\ AskingInv(s) /\ ShownInv(s)

\* The inductive invariant.
IInv ==
  /\ TypeOK
  /\ FormInv(form)
  /\ attached \/ form.pending = {}
  /\ SentIsChecked

\* Two forms with the same rules that know the same of their requests.
SameRequests(t, s) ==
  /\ t.rules = s.rules /\ t.sentAlong = s.sentAlong
  /\ t.previous = s.previous /\ t.flight = s.flight
  /\ t.orphans = s.orphans /\ t.lost = s.lost
  /\ t.pending = s.pending /\ t.pendingRequest = s.pendingRequest

\* What the operators on requests leave in the form.
LEMMA AskKeeps ==
  ASSUME NEW s, DOMAIN s = FormNames, NEW F
  PROVE  /\ DOMAIN Ask(s, F) = FormNames
         /\ Ask(s, F).rules = s.rules /\ Ask(s, F).sentAlong = s.sentAlong
         /\ Ask(s, F).errors = s.errors /\ Ask(s, F).invalid = s.invalid
         /\ Ask(s, F).submitted = s.submitted /\ Ask(s, F).linked = s.linked
         /\ Ask(s, F).formSubmitted = s.formSubmitted /\ Ask(s, F).summary = s.summary
         /\ Ask(s, F).inError = s.inError /\ Ask(s, F).messages = s.messages
  BY DEF Ask, FormNames

LEMMA AskFields ==
  ASSUME NEW s, DOMAIN s = FormNames, NEW F
  PROVE  /\ DOMAIN Ask(s, F).previous = Field /\ DOMAIN Ask(s, F).flight = Field
         /\ \A f \in Field :
              /\ f \in F => /\ Ask(s, F).previous[f] =
                                  [old |-> {Question(s, f)}, valid |-> s.previous[f].valid]
                           /\ Ask(s, F).flight[f] = {Question(s, f)}
              /\ f \notin F => /\ Ask(s, F).previous[f] = s.previous[f]
                              /\ Ask(s, F).flight[f] = s.flight[f]
         /\ Ask(s, F).orphans = s.orphans \ F
         /\ Ask(s, F).lost = s.lost \ F
         /\ Ask(s, F).pending = s.pending \union F
         /\ Ask(s, F).pendingRequest = s.pendingRequest + Cardinality(F \ s.pending)
  BY DEF Ask, FormNames

\* The fields a check asks about.
Waiting(s, F) == {f \in F : Waits(s, f)}

LEMMA CheckFields ==
  ASSUME NEW s, DOMAIN s = FormNames, NEW F
  PROVE  /\ DOMAIN Check(s, F) = FormNames
         /\ SameRequests(Check(s, F), Ask(s, Waiting(s, F)))
         /\ Check(s, F).invalid = s.invalid
         /\ Check(s, F).formSubmitted = s.formSubmitted
         /\ Check(s, F).summary = s.summary
         /\ Check(s, F).inError = s.inError /\ Check(s, F).messages = s.messages
         /\ Check(s, F).errors = Failing(s, F)
         /\ Check(s, F).submitted = s.submitted \union Failing(s, F)
         /\ Check(s, F).linked = s.linked \union {f \in F : Compares(s, f)}
<1> DEFINE a == Ask(s, Waiting(s, F))
           linked == {f \in F : Compares(s, f)}
<1>1. /\ DOMAIN a = FormNames /\ a.invalid = s.invalid /\ a.submitted = s.submitted
      /\ a.formSubmitted = s.formSubmitted /\ a.summary = s.summary
      /\ a.inError = s.inError /\ a.messages = s.messages /\ a.linked = s.linked
  BY AskKeeps
<1>2. Check(s, F) = [a EXCEPT !.errors = Failing(s, F),
                              !.submitted = @ \union Failing(s, F),
                              !.linked = @ \union linked]
  BY DEF Check, Waiting
<1> HIDE DEF a, linked
<1>3. /\ DOMAIN Check(s, F) = FormNames
      /\ SameRequests(Check(s, F), a)
      /\ Check(s, F).invalid = s.invalid
      /\ Check(s, F).formSubmitted = s.formSubmitted
      /\ Check(s, F).summary = s.summary
      /\ Check(s, F).inError = s.inError /\ Check(s, F).messages = s.messages
      /\ Check(s, F).errors = Failing(s, F)
      /\ Check(s, F).submitted = s.submitted \union Failing(s, F)
      /\ Check(s, F).linked = s.linked \union linked
  BY <1>1, <1>2 DEF SameRequests, FormNames
<1> QED
  BY <1>3 DEF a, linked

\* What the operators on the display leave in the form.
LEMMA ShowFields ==
  ASSUME NEW s, DOMAIN s = FormNames, NEW E, NEW P
  PROVE  /\ DOMAIN ShowErrors(s, E, P) = FormNames
         /\ SameRequests(ShowErrors(s, E, P), s)
         /\ ShowErrors(s, E, P).errors = s.errors
         /\ ShowErrors(s, E, P).invalid = s.invalid
         /\ ShowErrors(s, E, P).submitted = s.submitted
         /\ ShowErrors(s, E, P).linked = s.linked
         /\ ShowErrors(s, E, P).formSubmitted = s.formSubmitted
         /\ ShowErrors(s, E, P).summary = s.summary
         /\ ShowErrors(s, E, P).inError = (s.inError \union E) \ P
         /\ ShowErrors(s, E, P).messages =
               (s.messages \union (E \intersect Page.replace)) \ (P \intersect Page.replace)
  BY DEF ShowErrors, OnError, OnSuccess, SameRequests, FormNames

LEMMA OnErrorsFields ==
  ASSUME NEW s, DOMAIN s = FormNames, NEW E
  PROVE  /\ DOMAIN OnErrors(s, E) = FormNames
         /\ SameRequests(OnErrors(s, E), s)
         /\ OnErrors(s, E).errors = s.errors /\ OnErrors(s, E).invalid = s.invalid
         /\ OnErrors(s, E).submitted = s.submitted /\ OnErrors(s, E).linked = s.linked
         /\ OnErrors(s, E).formSubmitted = s.formSubmitted
         /\ OnErrors(s, E).inError = s.inError /\ OnErrors(s, E).messages = s.messages
         /\ OnErrors(s, E).summary =
               IF E = {} THEN s.summary ELSE [shown |-> TRUE, list |-> E]
  BY DEF OnErrors, SameRequests, FormNames

\* A check of the whole form.
LEMMA CheckFormFields ==
  ASSUME NEW s, DOMAIN s = FormNames
  PROVE  LET E == Failing(s, Elements(s))
             P == Passing(s, Elements(s)) IN
         /\ DOMAIN CheckForm(s) = FormNames
         /\ SameRequests(CheckForm(s), Ask(s, Waiting(s, Elements(s))))
         /\ CheckForm(s).errors = E /\ CheckForm(s).invalid = E
         /\ CheckForm(s).submitted = s.submitted \union E
         /\ CheckForm(s).linked = s.linked \union {f \in Elements(s) : Compares(s, f)}
         /\ CheckForm(s).formSubmitted = s.formSubmitted
         /\ CheckForm(s).inError = (s.inError \union E) \ P
         /\ CheckForm(s).messages =
               (s.messages \union (E \intersect Page.replace)) \ (P \intersect Page.replace)
         /\ CheckForm(s).summary =
               IF E = {} THEN s.summary ELSE [shown |-> TRUE, list |-> E]
<1> DEFINE E == Failing(s, Elements(s))
           P == Passing(s, Elements(s))
           c == Check(s, Elements(s))
           d == [c EXCEPT !.invalid = E]
<1>1. /\ DOMAIN d = FormNames /\ SameRequests(d, c) /\ d.invalid = E
      /\ d.errors = c.errors /\ d.submitted = c.submitted /\ d.linked = c.linked
      /\ d.formSubmitted = c.formSubmitted /\ d.summary = c.summary
      /\ d.inError = c.inError /\ d.messages = c.messages
  BY CheckFields DEF SameRequests, FormNames
<1>2. CheckForm(s) = ShowErrors(OnErrors(d, E), E, P)
  BY DEF CheckForm
<1> HIDE DEF d
<1>3. SameRequests(d, Ask(s, Waiting(s, Elements(s))))
  BY <1>1, CheckFields DEF SameRequests
<1> DEFINE o == OnErrors(d, E)
<1>4. /\ DOMAIN o = FormNames /\ SameRequests(o, d)
      /\ o.errors = E /\ o.invalid = E /\ o.submitted = s.submitted \union E
      /\ o.linked = s.linked \union {f \in Elements(s) : Compares(s, f)}
      /\ o.formSubmitted = s.formSubmitted
      /\ o.inError = s.inError /\ o.messages = s.messages
      /\ o.summary = IF E = {} THEN s.summary ELSE [shown |-> TRUE, list |-> E]
  BY <1>1, OnErrorsFields, CheckFields
<1> HIDE DEF o
<1> QED
  BY <1>2, <1>3, <1>4, ShowFields DEF SameRequests, o

\* A check of one field, if it does not throw.
LEMMA CheckElementFields ==
  ASSUME NEW s, DOMAIN s = FormNames, NEW f, ~Throws(s, f)
  PROVE  LET E == Failing(s, {f})
             P == Passing(s, {f} \intersect Elements(s)) IN
         /\ DOMAIN CheckElement(s, f) = FormNames
         /\ SameRequests(CheckElement(s, f), Ask(s, Waiting(s, {f})))
         /\ CheckElement(s, f).errors = E
         /\ CheckElement(s, f).invalid = s.invalid \union {f}
         /\ CheckElement(s, f).submitted = s.submitted \union E
         /\ CheckElement(s, f).linked = s.linked \union {g \in {f} : Compares(s, g)}
         /\ CheckElement(s, f).formSubmitted = s.formSubmitted
         /\ CheckElement(s, f).inError = (s.inError \union E) \ P
         /\ CheckElement(s, f).messages =
               (s.messages \union (E \intersect Page.replace)) \ (P \intersect Page.replace)
         /\ CheckElement(s, f).summary = s.summary
<1> DEFINE E == Failing(s, {f})
           P == Passing(s, {f} \intersect Elements(s))
           c == Check(s, {f})
           d == [c EXCEPT !.invalid = @ \union {f}]
<1>1. /\ DOMAIN d = FormNames /\ SameRequests(d, c) /\ d.invalid = s.invalid \union {f}
      /\ d.errors = c.errors /\ d.submitted = c.submitted /\ d.linked = c.linked
      /\ d.formSubmitted = c.formSubmitted /\ d.summary = c.summary
      /\ d.inError = c.inError /\ d.messages = c.messages
  BY CheckFields DEF SameRequests, FormNames
<1>2. CheckElement(s, f) = ShowErrors(d, E, P)
  BY DEF CheckElement
<1> DEFINE linked == {g \in {f} : Compares(s, g)}
<1>3. /\ SameRequests(d, Ask(s, Waiting(s, {f}))) /\ DOMAIN d = FormNames
      /\ d.errors = E /\ d.invalid = s.invalid \union {f}
      /\ d.submitted = s.submitted \union E
      /\ d.linked = s.linked \union linked
      /\ d.formSubmitted = s.formSubmitted /\ d.summary = s.summary
      /\ d.inError = s.inError /\ d.messages = s.messages
  <2>. HIDE DEF d
  <2>. QED
    BY <1>1, CheckFields DEF SameRequests
<1> HIDE DEF d, linked
<1> DEFINE o == ShowErrors(d, E, P)
<1>4. /\ DOMAIN o = FormNames /\ SameRequests(o, d)
      /\ o.errors = d.errors /\ o.invalid = d.invalid
      /\ o.submitted = d.submitted /\ o.linked = d.linked
      /\ o.formSubmitted = d.formSubmitted /\ o.summary = d.summary
      /\ o.inError = (d.inError \union E) \ P
      /\ o.messages =
            (d.messages \union (E \intersect Page.replace)) \ (P \intersect Page.replace)
  <2>1. DOMAIN d = FormNames
    BY <1>3
  <2>. QED
    BY <2>1, ShowFields
<1> HIDE DEF o
<1> QED
  BY <1>2, <1>3, <1>4 DEF SameRequests, linked, o

-----------------------------------------------------------------------------
(* What the operators keep of the invariant.                               *)

\* The parts about rules and requests depend on nothing else.
LEMMA SameInv ==
  ASSUME NEW s, NEW t, SameRequests(t, s)
  PROVE  /\ AskingInv(s) => AskingInv(t)
         /\ RulesInv(s) => RulesInv(t)
<1>1. ASSUME NEW f \in Field, FieldInv(s, f) PROVE FieldInv(t, f)
  BY <1>1 DEF SameRequests, FieldInv
<1>2. Remembered(s) => Remembered(t)
  BY DEF SameRequests, Remembered
<1>3. RulesInv(s) => RulesInv(t)
  BY DEF SameRequests, RulesInv
<1>4. AskingInv(s) => AskingInv(t)
  BY <1>1, <1>2 DEF SameRequests, AskingInv
<1> QED
  BY <1>3, <1>4

LEMMA FieldIsFinite ==
  ASSUME NEW S, S \subseteq Field
  PROVE  IsFiniteSet(S) /\ Cardinality(S) \in Nat
  BY PagesAssumption, FS_Subset, FS_CardinalityType

\* Asking keeps the books of the requests.
LEMMA AskKeepsBooks ==
  ASSUME NEW s, DOMAIN s = FormNames, AskingInv(s), RulesInv(s),
         NEW F, \A f \in F : f \in Field /\ s.sentAlong[f] # {}
  PROVE  AskingInv(Ask(s, F)) /\ RulesInv(Ask(s, F))
<1> DEFINE t == Ask(s, F)
<1>1. /\ t.rules = s.rules /\ t.sentAlong = s.sentAlong
  BY AskKeeps
<1>2. /\ DOMAIN t.previous = Field /\ DOMAIN t.flight = Field
      /\ \A f \in Field :
           /\ f \in F => /\ t.previous[f] = [old |-> {Question(s, f)}, valid |-> s.previous[f].valid]
                        /\ t.flight[f] = {Question(s, f)}
           /\ f \notin F => t.previous[f] = s.previous[f] /\ t.flight[f] = s.flight[f]
      /\ t.orphans = s.orphans \ F /\ t.lost = s.lost \ F
      /\ t.pending = s.pending \union F
      /\ t.pendingRequest = s.pendingRequest + Cardinality(F \ s.pending)
  BY AskFields
<1> HIDE DEF t
<1>3. ASSUME NEW f \in Field PROVE FieldInv(t, f)
  <2>1. FieldInv(s, f)
    BY DEF AskingInv
  <2>2. CASE f \in F
    <3>1. /\ t.previous[f] = [old |-> {Question(s, f)}, valid |-> s.previous[f].valid]
          /\ t.flight[f] = {Question(s, f)}
          /\ f \notin t.lost /\ f \notin t.orphans /\ t.sentAlong[f] # {}
      BY <1>1, <1>2, <2>2
    <3>2. s.previous[f].valid \in BOOLEAN
      BY <2>1 DEF FieldInv
    <3>3. DOMAIN t.previous[f] = {"old", "valid"} /\ t.previous[f].old = {Question(s, f)}
      BY <3>1
    <3>4. t.previous[f].valid \in BOOLEAN
      BY <3>1, <3>2
    <3> QED
      BY <3>1, <3>3, <3>4 DEF FieldInv
  <2>3. CASE f \notin F
    BY <1>1, <1>2, <2>1, <2>3 DEF FieldInv
  <2> QED
    BY <2>2, <2>3
<1>4. t.pending = {f \in Field : t.flight[f] # {}} \union t.lost
  BY <1>2 DEF AskingInv
<1>5. t.pendingRequest = Cardinality(t.pending)
  <2>1. s.pending \subseteq Field /\ F \ s.pending \subseteq Field
    BY DEF AskingInv
  <2> DEFINE A == s.pending
             B == F \ s.pending
  <2>2. Cardinality(A \union B) = Cardinality(A) + Cardinality(B) - Cardinality(A \intersect B)
    <3> HIDE DEF A, B
    <3> QED
      BY <2>1, FieldIsFinite, FS_Union DEF A, B
  <2>3. A \intersect B = {} /\ A \union B = t.pending
    BY <1>2
  <2>4. /\ Cardinality(s.pending) \in Nat /\ Cardinality(F \ s.pending) \in Nat
        /\ Cardinality({}) = 0
    BY <2>1, FieldIsFinite, FS_EmptySet
  <2>5. s.pendingRequest = Cardinality(s.pending)
    BY DEF AskingInv
  <2> QED
    <3>1. t.pendingRequest = Cardinality(A) + Cardinality(B)
      BY <1>2, <2>5
    <3> HIDE DEF A, B
    <3>2. Cardinality(t.pending) = Cardinality(A) + Cardinality(B)
      <4>1. Cardinality(A) \in Nat /\ Cardinality(B) \in Nat
        BY <2>4 DEF A, B
      <4>2. Cardinality(A \intersect B) = Cardinality({}) /\ Cardinality(A \union B) = Cardinality(t.pending)
        BY <2>3, Zenon
      <4> QED
        BY <2>2, <2>4, <4>1, <4>2
    <3> QED
      BY <3>1, <3>2
<1>6. Remembered(t)
  BY <1>2 DEF AskingInv, Remembered
<1>7. t.orphans \subseteq Field /\ t.lost \subseteq Field
  BY <1>2 DEF AskingInv
<1>8. RulesInv(t)
  BY <1>1 DEF RulesInv
<1> QED
  BY <1>2, <1>3, <1>4, <1>5, <1>6, <1>7, <1>8 DEF AskingInv, t

LEMMA WaitingAsks ==
  ASSUME NEW s, NEW F, F \subseteq Field
  PROVE  \A f \in Waiting(s, F) : f \in Field /\ s.sentAlong[f] # {}
  BY DEF Waiting, Waits, Asks

\* A check leaves every error visible.
LEMMA CheckFormInv ==
  ASSUME NEW s, Shape(s), AskingInv(s), RulesInv(s), present \subseteq Field
  PROVE  LET t == CheckForm(s)
         IN  Shape(t) /\ AskingInv(t) /\ RulesInv(t) /\ ShownInv(t)
<1> DEFINE t == CheckForm(s)
           E == Failing(s, Elements(s))
           P == Passing(s, Elements(s))
<1>1. DOMAIN s = FormNames /\ Elements(s) \subseteq Field
  BY DEF Shape, Elements
<1>2. AskingInv(t) /\ RulesInv(t)
  <2> DEFINE W == Waiting(s, Elements(s))
  <2>1. \A f \in W : f \in Field /\ s.sentAlong[f] # {}
    BY <1>1, WaitingAsks
  <2> HIDE DEF W
  <2>2. AskingInv(Ask(s, W)) /\ RulesInv(Ask(s, W))
    BY <1>1, <2>1, AskKeepsBooks
  <2>3. SameRequests(t, Ask(s, W))
    BY <1>1, CheckFormFields DEF W
  <2> QED
    BY <2>2, <2>3, SameInv
<1>3. E \subseteq Field /\ P \subseteq Field /\ E \intersect P = {}
  BY <1>1 DEF Failing, Passing, Fails, Succeeds
<1>4. {f \in Elements(s) : Compares(s, f)} \subseteq Field
  BY <1>1
<1>5. /\ DOMAIN t = FormNames
      /\ t.errors = E /\ t.invalid = E /\ t.submitted = s.submitted \union E
      /\ t.linked \subseteq Field
      /\ t.formSubmitted = s.formSubmitted
      /\ t.inError = (s.inError \union E) \ P
      /\ t.messages = (s.messages \union (E \intersect Page.replace)) \ (P \intersect Page.replace)
      /\ t.summary = IF E = {} THEN s.summary ELSE [shown |-> TRUE, list |-> E]
  BY <1>1, <1>4, CheckFormFields DEF Shape
<1> HIDE DEF t, E, P
<1>6. Shape(t)
  BY <1>3, <1>5 DEF Shape, SummaryType
<1>7. ShownInv(t)
  BY <1>3, <1>5 DEF ShownInv
<1> QED
  BY <1>2, <1>6, <1>7 DEF t

LEMMA CheckElementInv ==
  ASSUME NEW s, Shape(s), AskingInv(s), RulesInv(s), NEW f \in Field
  PROVE  LET t == CheckElement(s, f)
         IN  /\ Shape(t) /\ AskingInv(t) /\ RulesInv(t) /\ ShownInv(t)
             /\ t.formSubmitted = s.formSubmitted
<1>1. CASE Throws(s, f)
  <2> DEFINE linked == {g \in {f} : Compares(s, g)}
             t == [s EXCEPT !.errors = {}, !.linked = @ \union linked]
  <2>1. CheckElement(s, f) = t
    BY <1>1 DEF CheckElement
  <2>2. /\ DOMAIN t = FormNames /\ SameRequests(t, s) /\ t.errors = {}
        /\ t.invalid = s.invalid /\ t.submitted = s.submitted
        /\ t.linked = s.linked \union linked /\ linked \subseteq Field
        /\ t.inError = s.inError /\ t.messages = s.messages
        /\ t.formSubmitted = s.formSubmitted /\ t.summary = s.summary
    BY DEF Shape, FormNames, SameRequests
  <2> HIDE DEF t, linked
  <2>3. Shape(t) /\ ShownInv(t)
    BY <2>2 DEF Shape, ShownInv
  <2> QED
    BY <2>1, <2>2, <2>3, SameInv
<1>2. CASE ~Throws(s, f)
  <2> DEFINE t == CheckElement(s, f)
             E == Failing(s, {f})
             P == Passing(s, {f} \intersect Elements(s))
             linked == {g \in {f} : Compares(s, g)}
  <2>1. DOMAIN s = FormNames /\ {f} \subseteq Field
    BY DEF Shape
  <2>2. AskingInv(t) /\ RulesInv(t)
    <3> DEFINE W == Waiting(s, {f})
    <3>1. \A g \in W : g \in Field /\ s.sentAlong[g] # {}
      BY <2>1, WaitingAsks
    <3> HIDE DEF W
    <3>2. AskingInv(Ask(s, W)) /\ RulesInv(Ask(s, W))
      BY <2>1, <3>1, AskKeepsBooks
    <3>3. SameRequests(t, Ask(s, W))
      BY <1>2, <2>1, CheckElementFields DEF W
    <3> QED
      BY <3>2, <3>3, SameInv
  <2>3. E \subseteq Field /\ P \subseteq Field /\ E \intersect P = {} /\ linked \subseteq Field
    BY <2>1 DEF Failing, Passing, Fails, Succeeds
  <2>4. /\ DOMAIN t = FormNames
        /\ t.errors = E /\ t.invalid = s.invalid \union {f} /\ t.submitted = s.submitted \union E
        /\ t.linked = s.linked \union linked
        /\ t.formSubmitted = s.formSubmitted
        /\ t.inError = (s.inError \union E) \ P
        /\ t.messages = (s.messages \union (E \intersect Page.replace)) \ (P \intersect Page.replace)
        /\ t.summary = s.summary
    BY <1>2, <2>1, CheckElementFields
  <2> HIDE DEF t, E, P, linked
  <2>5. Shape(t) /\ ShownInv(t)
    BY <2>3, <2>4 DEF Shape, ShownInv
  <2> QED
    BY <2>2, <2>4, <2>5 DEF t
<1> QED
  BY <1>1, <1>2

-----------------------------------------------------------------------------
(* Answers.                                                                *)

LEMMA StoppedFields ==
  ASSUME NEW s, DOMAIN s = FormNames, NEW f
  PROVE  LET t == Stopped(s, f) IN
         /\ DOMAIN t = FormNames
         /\ t.rules = s.rules /\ t.sentAlong = s.sentAlong
         /\ t.previous = s.previous /\ t.flight = s.flight
         /\ t.orphans = s.orphans /\ t.lost = s.lost
         /\ t.errors = s.errors /\ t.invalid = s.invalid
         /\ t.submitted = s.submitted /\ t.linked = s.linked
         /\ t.formSubmitted = s.formSubmitted /\ t.summary = s.summary
         /\ t.inError = s.inError /\ t.messages = s.messages
         /\ t.pending = s.pending \ {f}
         /\ t.pendingRequest = IF s.pendingRequest > 0 THEN s.pendingRequest - 1 ELSE 0
  BY DEF Stopped, FormNames

\* An answer that is true to the question keeps the books of the requests.
LEMMA AnswerKeeps ==
  ASSUME NEW s, Shape(s), AskingInv(s), RulesInv(s), ShownInv(s),
         NEW f \in Field, s.flight[f] # {},
         NEW valid \in BOOLEAN, valid <=> s.flight[f] \subseteq Accepted
  PROVE  LET t == Stopped(Answered(s, f, valid), f) IN
         /\ Shape(t) /\ AskingInv(t) /\ RulesInv(t) /\ ShownInv(t)
         /\ t.formSubmitted = s.formSubmitted
         /\ t.rules = s.rules /\ t.sentAlong = s.sentAlong
         /\ ~valid => f \in t.errors
<1> DEFINE a == Answered(s, f, valid)
           t == Stopped(a, f)
           E == IF valid THEN {} ELSE s.errors \union {f}
           P == IF valid THEN {f} ELSE {}
<1>1. /\ FieldInv(s, f) /\ DOMAIN s = FormNames
      /\ DOMAIN s.flight = Field /\ DOMAIN s.previous = Field
      /\ DOMAIN s.previous[f] = {"old", "valid"}
  BY DEF Shape, AskingInv, FieldInv
<1>2. /\ DOMAIN a = FormNames
      /\ a.rules = s.rules /\ a.sentAlong = s.sentAlong
      /\ a.lost = s.lost /\ a.pending = s.pending /\ a.pendingRequest = s.pendingRequest
      /\ a.submitted = s.submitted /\ a.linked = s.linked
      /\ a.formSubmitted = s.formSubmitted /\ a.summary = s.summary
      /\ a.invalid = s.invalid \union {f}
      /\ a.errors = E
      /\ a.inError = (s.inError \union E) \ P
      /\ a.messages = (s.messages \union (E \intersect Page.replace)) \ (P \intersect Page.replace)
      /\ DOMAIN a.flight = Field /\ a.flight[f] = {}
      /\ \A g \in Field \ {f} : a.flight[g] = s.flight[g] /\ a.previous[g] = s.previous[g]
      /\ a.orphans = s.orphans \ {f}
      /\ DOMAIN a.previous = Field /\ DOMAIN a.previous[f] = {"old", "valid"}
      /\ a.previous[f].old = s.previous[f].old
      /\ f \in s.orphans => a.previous[f].valid = s.previous[f].valid
      /\ f \notin s.orphans => a.previous[f].valid = valid
  <2> DEFINE d == [s EXCEPT !.flight[f] = {}, !.orphans = @ \ {f},
                            !.previous[f].valid = IF f \in s.orphans THEN @ ELSE valid,
                            !.invalid = @ \union {f}, !.errors = E]
  <2>1. /\ DOMAIN d = FormNames
        /\ d.rules = s.rules /\ d.sentAlong = s.sentAlong
        /\ d.lost = s.lost /\ d.pending = s.pending /\ d.pendingRequest = s.pendingRequest
        /\ d.submitted = s.submitted /\ d.linked = s.linked
        /\ d.formSubmitted = s.formSubmitted /\ d.summary = s.summary
        /\ d.invalid = s.invalid \union {f}
        /\ d.errors = E
        /\ d.inError = s.inError /\ d.messages = s.messages
        /\ d.orphans = s.orphans \ {f}
    BY <1>1 DEF FormNames
  <2>2. d.flight = [s.flight EXCEPT ![f] = {}]
    BY <1>1 DEF FormNames
  <2>3. d.previous =
          [s.previous EXCEPT ![f] =
             [s.previous[f] EXCEPT !.valid = IF f \in s.orphans THEN @ ELSE valid]]
    BY <1>1 DEF FormNames
  <2>4. a = ShowErrors(d, E, P)
    BY DEF Answered
  <2> HIDE DEF d
  <2>5. /\ DOMAIN d.flight = Field /\ d.flight[f] = {}
        /\ \A g \in Field \ {f} : d.flight[g] = s.flight[g]
    BY <1>1, <2>2
  <2>6. /\ DOMAIN d.previous = Field /\ DOMAIN d.previous[f] = {"old", "valid"}
        /\ d.previous[f].old = s.previous[f].old
        /\ f \in s.orphans => d.previous[f].valid = s.previous[f].valid
        /\ f \notin s.orphans => d.previous[f].valid = valid
        /\ \A g \in Field \ {f} : d.previous[g] = s.previous[g]
    BY <1>1, <2>3
  <2> DEFINE o == ShowErrors(d, E, P)
  <2> HIDE DEF E, P
  <2>7. /\ DOMAIN o = FormNames /\ SameRequests(o, d)
        /\ o.errors = d.errors /\ o.invalid = d.invalid
        /\ o.submitted = d.submitted /\ o.linked = d.linked
        /\ o.formSubmitted = d.formSubmitted /\ o.summary = d.summary
        /\ o.inError = (d.inError \union E) \ P
        /\ o.messages =
              (d.messages \union (E \intersect Page.replace)) \ (P \intersect Page.replace)
    BY <2>1, ShowFields
  <2> HIDE DEF o
  <2> QED
    BY <2>1, <2>4, <2>5, <2>6, <2>7 DEF SameRequests, o, a
<1> HIDE DEF a, E, P
<1>3. /\ DOMAIN t = FormNames
      /\ t.rules = s.rules /\ t.sentAlong = s.sentAlong
      /\ t.previous = a.previous /\ t.flight = a.flight
      /\ t.orphans = s.orphans \ {f} /\ t.lost = s.lost
      /\ t.errors = E /\ t.invalid = s.invalid \union {f}
      /\ t.submitted = s.submitted /\ t.linked = s.linked
      /\ t.formSubmitted = s.formSubmitted /\ t.summary = s.summary
      /\ t.inError = (s.inError \union E) \ P
      /\ t.messages = (s.messages \union (E \intersect Page.replace)) \ (P \intersect Page.replace)
      /\ t.pending = s.pending \ {f}
      /\ t.pendingRequest = IF s.pendingRequest > 0 THEN s.pendingRequest - 1 ELSE 0
  BY <1>2, StoppedFields
<1> HIDE DEF t
<1>4. /\ t.flight[f] = {} /\ t.previous[f].old = s.previous[f].old
      /\ DOMAIN t.previous[f] = {"old", "valid"}
      /\ f \in s.orphans => t.previous[f].valid = s.previous[f].valid
      /\ f \notin s.orphans => t.previous[f].valid = valid
      /\ \A g \in Field \ {f} : t.flight[g] = s.flight[g] /\ t.previous[g] = s.previous[g]
      /\ DOMAIN t.flight = Field /\ DOMAIN t.previous = Field
  BY <1>2, <1>3
<1>5. ASSUME NEW g \in Field PROVE FieldInv(t, g)
  <2>1. FieldInv(s, g)
    BY DEF AskingInv
  <2>2. CASE g = f
    BY <1>3, <1>4, <2>1, <2>2 DEF FieldInv
  <2>3. CASE g # f
    BY <1>3, <1>4, <2>1, <2>3 DEF FieldInv
  <2> QED
    BY <2>2, <2>3
<1>6. f \in s.pending /\ f \notin s.lost
  BY <1>1 DEF AskingInv, FieldInv
<1>7. t.pending = {g \in Field : t.flight[g] # {}} \union t.lost
  BY <1>3, <1>4, <1>6 DEF AskingInv
<1>8. t.pendingRequest = Cardinality(t.pending)
  <2>1. IsFiniteSet(s.pending) /\ Cardinality(s.pending) \in Nat
    BY FieldIsFinite DEF AskingInv
  <2>2. Cardinality(s.pending \ {f}) = Cardinality(s.pending) - 1
    BY <1>6, <2>1, FS_RemoveElement
  <2>3. IsFiniteSet(s.pending \ {f}) /\ Cardinality(s.pending \ {f}) \in Nat
    BY <2>1, FS_RemoveElement, FS_CardinalityType
  <2>4. s.pendingRequest = Cardinality(s.pending)
    BY DEF AskingInv
  <2> QED
    BY <1>3, <2>1, <2>2, <2>3, <2>4
<1>9. Remembered(t)
  <2> SUFFICES ASSUME NEW g \in Field \ t.pending, t.previous[g].old # {}
               PROVE  t.previous[g].valid <=> t.previous[g].old \subseteq Accepted
    BY DEF Remembered
  <2>1. CASE g = f
    <3>1. f \notin s.orphans
      BY <1>1, <1>4, <2>1 DEF FieldInv
    <3>2. s.previous[f].old = s.flight[f]
      BY <1>1, <3>1 DEF FieldInv
    <3> QED
      BY <1>4, <2>1, <3>1, <3>2
  <2>2. CASE g # f
    BY <1>3, <1>4, <2>2 DEF AskingInv, Remembered
  <2> QED
    BY <2>1, <2>2
<1>10. AskingInv(t)
  BY <1>3, <1>4, <1>5, <1>7, <1>8, <1>9 DEF AskingInv
<1>11. RulesInv(t)
  BY <1>3 DEF RulesInv
<1>12. Shape(t)
  BY <1>3 DEF Shape, E, P
<1>13. ShownInv(t)
  <2>1. CASE valid
    BY <1>3, <2>1 DEF ShownInv, E, P
  <2>2. CASE ~valid
    BY <1>3, <2>2 DEF ShownInv, E, P
  <2> QED
    BY <2>1, <2>2
<1> QED
  BY <1>3, <1>10, <1>11, <1>12, <1>13 DEF t, a, E

-----------------------------------------------------------------------------
(* What a check without errors means.                                      *)

\* A page with a remote rule has no rule without a method.
LEMMA NothingThrows ==
  ASSUME NEW s, RulesInv(s), page \in DOMAIN Pages,
         NEW g \in Field, s.sentAlong[g] # {}
  PROVE  \A f \in Field : ~Throws(s, f)
<1>1. SentAlong(Parsed(g)) # {}
  BY DEF RulesInv
<1>2. ASSUME NEW f \in Field, NEW there \in SUBSET Field
      PROVE  DOMAIN LocalRules(Parsed(f), there) \subseteq Methods
  <2>1. DOMAIN LocalRules(Parsed(f), Field) \subseteq Methods
    BY <1>1, PagesAssumption DEF Parsed, Page
  <2>2. DOMAIN LocalRules(Parsed(f), there) \subseteq DOMAIN LocalRules(Parsed(f), Field)
    BY DEF LocalRules
  <2> QED
    BY <2>1, <2>2
<1>3. ASSUME NEW f \in Field, NEW n \in DOMAIN s.rules[f] PROVE ~Missing(n)
  <2>1. ASSUME NEW there \in SUBSET Field, s.rules[f] = LocalRules(Parsed(f), there)
        PROVE  ~Missing(n)
    BY <1>2, <1>3, <2>1 DEF Missing
  <2>2. CASE s.rules[f] = NoRule
    BY <1>3, <2>2 DEF NoRule
  <2> QED
    BY <1>3, <2>1, <2>2 DEF RulesInv
<1> QED
  BY <1>3 DEF Throws, Problems

\* Questions of fields depend on the rules only.
LEMMA SameQuestions ==
  ASSUME NEW s, NEW t, t.rules = s.rules, t.sentAlong = s.sentAlong
  PROVE  /\ Elements(t) = Elements(s)
         /\ \A f \in Field : /\ Problems(t, f) = Problems(s, f) /\ Throws(t, f) <=> Throws(s, f)
                             /\ Asks(t, f) <=> Asks(s, f)
                             /\ Question(t, f) = Question(s, f)
<1>1. Elements(t) = Elements(s)
  BY DEF Elements
<1>2. ASSUME NEW f \in Field
      PROVE  /\ Problems(t, f) = Problems(s, f)
             /\ Asks(t, f) <=> Asks(s, f)
             /\ Question(t, f) = Question(s, f)
  BY DEF Problems, Asks, Question
<1>3. ASSUME NEW f \in Field PROVE Throws(t, f) <=> Throws(s, f)
  BY <1>2 DEF Throws, First
<1> QED
  BY <1>1, <1>2, <1>3

\* All fields are right, and the server has said so of those it is asked about.
AllRight(s) ==
  \A f \in Elements(s) :
    Problems(s, f) = {} /\ (Asks(s, f) => Question(s, f) \in Accepted)

LEMMA CleanCheckIsRight ==
  ASSUME NEW s, Shape(s), AskingInv(s), RulesInv(s), present \subseteq Field,
         \A f \in Elements(s) : ~Throws(s, f),
         CheckForm(s).errors = {}, CheckForm(s).pendingRequest = 0
  PROVE  AllRight(CheckForm(s))
<1> DEFINE t == CheckForm(s)
           W == Waiting(s, Elements(s))
<1>1. DOMAIN s = FormNames /\ Elements(s) \subseteq Field
  BY DEF Shape, Elements
<1>2. /\ t.rules = s.rules /\ t.sentAlong = s.sentAlong
      /\ t.pending = s.pending \union W
  <2>1. SameRequests(t, Ask(s, W))
    BY <1>1, CheckFormFields
  <2> HIDE DEF t, W
  <2>2. Ask(s, W).rules = s.rules /\ Ask(s, W).sentAlong = s.sentAlong
    BY <1>1, AskKeeps
  <2>3. Ask(s, W).pending = s.pending \union W
    BY <1>1, AskFields
  <2> QED
    BY <2>1, <2>2, <2>3 DEF SameRequests
<1>3. t.errors = Failing(s, Elements(s))
  BY <1>1, CheckFormFields
<1>4. AskingInv(t)
  BY CheckFormInv
<1> HIDE DEF t
<1>5. t.pending = {}
  <2>1. Cardinality(t.pending) = 0 /\ t.pending \subseteq Field
    BY <1>4 DEF AskingInv, t
  <2> QED
    BY <2>1, FieldIsFinite, FS_EmptySet
<1>6. s.pending = {} /\ W = {}
  BY <1>2, <1>5
<1>7. ASSUME NEW f \in Elements(s)
      PROVE  Problems(s, f) = {} /\ (Asks(s, f) => Question(s, f) \in Accepted)
  <2>1. ~Fails(s, f)
    BY <1>3 DEF Failing, t
  <2>2. Problems(s, f) = {}
    BY <2>1 DEF Fails
  <2>3. ASSUME Asks(s, f) PROVE Question(s, f) \in Accepted
    <3>1. ~Waits(s, f)
      BY <1>6 DEF Waiting
    <3>2. Remembers(s, f)
      BY <2>2, <2>3, <3>1 DEF Waits
    <3>3. s.previous[f].valid
      BY <2>1, <2>2, <2>3, <3>2 DEF Fails
    <3>4. s.previous[f].old = {Question(s, f)}
      BY <3>2 DEF Remembers
    <3>5. s.previous[f].old \subseteq Accepted
      <4>1. f \in Field \ s.pending
        BY <1>1, <1>6
      <4>2. s.previous[f].old # {}
        BY <3>4
      <4> QED
        BY <3>3, <4>1, <4>2 DEF AskingInv, Remembered
    <3> QED
      BY <3>4, <3>5
  <2> QED
    BY <2>2, <2>3
<1>8. /\ Elements(t) = Elements(s)
      /\ \A f \in Field : /\ Problems(t, f) = Problems(s, f)
                          /\ Asks(t, f) <=> Asks(s, f)
                          /\ Question(t, f) = Question(s, f)
  <2>1. t.rules = s.rules /\ t.sentAlong = s.sentAlong
    BY <1>2
  <2>2. Elements(t) = Elements(s)
    BY <2>1, SameQuestions
  <2>3. \A f \in Field : Problems(t, f) = Problems(s, f)
    BY <2>1 DEF Problems
  <2>4. \A f \in Field : Asks(t, f) <=> Asks(s, f)
    BY <2>1, SameQuestions
  <2>5. \A f \in Field : Question(t, f) = Question(s, f)
    BY <2>1, SameQuestions
  <2> QED
    BY <2>2, <2>3, <2>4, <2>5
<1>9. AllRight(t)
  BY <1>1, <1>7, <1>8 DEF AllRight
<1> QED
  BY <1>9 DEF t

-----------------------------------------------------------------------------
(* The other changes of the form.                                          *)

LEMMA FreshInv ==
  ASSUME NEW shown, shown \subseteq Field
  PROVE  FormInv(Fresh(shown)) /\ Fresh(shown).pending = {}
<1> DEFINE s == Fresh(shown)
<1>1. /\ DOMAIN s = FormNames
      /\ s.rules = NoRules /\ s.sentAlong = [f \in Field |-> {}]
      /\ s.errors = {} /\ s.invalid = {} /\ s.submitted = {} /\ s.linked = {}
      /\ s.previous = [f \in Field |-> [old |-> {}, valid |-> TRUE]]
      /\ s.flight = [f \in Field |-> {}]
      /\ s.orphans = {} /\ s.lost = {} /\ s.pending = {} /\ s.pendingRequest = 0
      /\ s.formSubmitted = FALSE /\ s.inError = shown /\ s.messages = shown
      /\ s.summary = [shown |-> FALSE, list |-> {}]
  BY DEF Fresh, FormNames
<1> HIDE DEF s
<1>2. Shape(s)
  <2>1. s.formSubmitted \in BOOLEAN
    BY <1>1
  <2>2. s.summary \in SummaryType
    BY <1>1 DEF SummaryType
  <2> QED
    BY <1>1, <2>1, <2>2 DEF Shape
<1>3. RulesInv(s)
  BY <1>1 DEF RulesInv, NoRules
<1>4. ASSUME NEW f \in Field
      PROVE  FieldInv(s, f) /\ s.flight[f] = {} /\ s.previous[f].old = {}
  <2>1. s.previous[f] = [old |-> {}, valid |-> TRUE] /\ s.flight[f] = {}
    BY <1>1
  <2>2. /\ DOMAIN s.previous[f] = {"old", "valid"} /\ s.previous[f].old = {}
        /\ s.previous[f].valid \in BOOLEAN
    BY <2>1
  <2> QED
    BY <1>1, <2>1, <2>2 DEF FieldInv
<1>5. AskingInv(s)
  BY <1>1, <1>4, FS_EmptySet DEF AskingInv, Remembered
<1>6. ShownInv(s)
  BY <1>1 DEF ShownInv
<1> QED
  BY <1>1, <1>2, <1>3, <1>5, <1>6 DEF FormInv, s

\* The first parsing gives the form its rules.
LEMMA AttachKeeps ==
  ASSUME NEW s, FormInv(s), attached \/ s.pending = {}, NEW there \in SUBSET Field
  PROVE  LET t == Attach(s, there)
         IN  FormInv(t) /\ t.pending = s.pending /\ t.formSubmitted = s.formSubmitted
<1>1. CASE attached
  BY <1>1 DEF Attach
<1>2. CASE ~attached
  <2> DEFINE t == Attach(s, there)
             Parses(f) == f \in there /\ Annotated(f)
  <2>1. /\ DOMAIN t = FormNames
        /\ t.rules = [f \in Field |-> IF Parses(f) THEN LocalRules(Parsed(f), there)
                                    ELSE NoRule]
        /\ t.sentAlong = [f \in Field |-> IF Parses(f) THEN SentAlong(Parsed(f)) ELSE {}]
        /\ t.previous = s.previous /\ t.flight = s.flight
        /\ t.orphans = s.orphans /\ t.lost = s.lost
        /\ t.pending = s.pending /\ t.pendingRequest = s.pendingRequest
        /\ t.errors = s.errors /\ t.invalid = s.invalid
        /\ t.submitted = s.submitted /\ t.linked = s.linked
        /\ t.formSubmitted = s.formSubmitted /\ t.summary = s.summary
        /\ t.inError = s.inError /\ t.messages = s.messages
    BY <1>2 DEF Attach, FormInv, Shape, FormNames
  <2> HIDE DEF t
  <2>2. Shape(t) /\ ShownInv(t)
    BY <2>1 DEF FormInv, Shape, ShownInv
  <2>3. RulesInv(t)
    BY <2>1 DEF RulesInv
  <2>4. ASSUME NEW f \in Field PROVE FieldInv(t, f)
    <3>1. FieldInv(s, f) /\ t.pending = {}
      BY <1>2, <2>1 DEF FormInv, AskingInv
    <3> QED
      BY <2>1, <3>1 DEF FieldInv
  <2>5. AskingInv(t)
    BY <2>1, <2>4 DEF FormInv, AskingInv, Remembered
  <2> QED
    BY <2>1, <2>2, <2>3, <2>5 DEF FormInv, t
<1> QED
  BY <1>1, <1>2

LEMMA HoldKeeps ==
  ASSUME NEW s, FormInv(s), NEW held, held \in BOOLEAN
  PROVE  LET t == [s EXCEPT !.formSubmitted = held] IN
         /\ FormInv(t)
         /\ t.formSubmitted = held
         /\ t.rules = s.rules /\ t.sentAlong = s.sentAlong
         /\ t.errors = s.errors /\ t.inError = s.inError /\ t.summary = s.summary
<1> DEFINE t == [s EXCEPT !.formSubmitted = held]
<1>1. /\ DOMAIN t = FormNames /\ SameRequests(t, s) /\ t.formSubmitted = held
      /\ t.errors = s.errors /\ t.invalid = s.invalid
      /\ t.submitted = s.submitted /\ t.linked = s.linked
      /\ t.summary = s.summary /\ t.inError = s.inError /\ t.messages = s.messages
  BY DEF FormInv, Shape, FormNames, SameRequests
<1> HIDE DEF t
<1>2. Shape(t) /\ ShownInv(t)
  BY <1>1 DEF FormInv, Shape, ShownInv
<1>3. AskingInv(t) /\ RulesInv(t)
  BY <1>1, SameInv DEF FormInv
<1> QED
  BY <1>1, <1>2, <1>3 DEF FormInv, SameRequests, t

LEMMA OnErrorsKeeps ==
  ASSUME NEW s, FormInv(s)
  PROVE  FormInv(OnErrors(s, s.errors))
<1> DEFINE t == OnErrors(s, s.errors)
<1>1. /\ DOMAIN t = FormNames /\ SameRequests(t, s)
      /\ t.errors = s.errors /\ t.invalid = s.invalid
      /\ t.submitted = s.submitted /\ t.linked = s.linked
      /\ t.formSubmitted = s.formSubmitted
      /\ t.inError = s.inError /\ t.messages = s.messages
      /\ t.summary = IF s.errors = {} THEN s.summary ELSE [shown |-> TRUE, list |-> s.errors]
  BY OnErrorsFields DEF FormInv, Shape
<1> HIDE DEF t
<1>2. Shape(t) /\ ShownInv(t)
  BY <1>1 DEF FormInv, Shape, ShownInv, SummaryType
<1>3. AskingInv(t) /\ RulesInv(t)
  BY <1>1, SameInv DEF FormInv
<1> QED
  BY <1>2, <1>3 DEF FormInv, t

\* A lost request stays counted.
LEMMA LoseKeeps ==
  ASSUME NEW s, FormInv(s), NEW f \in Field, s.flight[f] # {}
  PROVE  LET t == [s EXCEPT !.flight[f] = {}, !.orphans = @ \ {f}, !.lost = @ \union {f}]
         IN  FormInv(t) /\ t.pending = s.pending /\ t.formSubmitted = s.formSubmitted
<1> DEFINE t == [s EXCEPT !.flight[f] = {}, !.orphans = @ \ {f}, !.lost = @ \union {f}]
<1>1. /\ DOMAIN t = FormNames
      /\ t.rules = s.rules /\ t.sentAlong = s.sentAlong
      /\ t.previous = s.previous /\ t.flight = [s.flight EXCEPT ![f] = {}]
      /\ t.orphans = s.orphans \ {f} /\ t.lost = s.lost \union {f}
      /\ t.pending = s.pending /\ t.pendingRequest = s.pendingRequest
      /\ t.errors = s.errors /\ t.invalid = s.invalid
      /\ t.submitted = s.submitted /\ t.linked = s.linked
      /\ t.formSubmitted = s.formSubmitted /\ t.summary = s.summary
      /\ t.inError = s.inError /\ t.messages = s.messages
  BY DEF FormInv, Shape, FormNames
<1> HIDE DEF t
<1>2. /\ DOMAIN s.flight = Field /\ FieldInv(s, f)
      /\ s.pending = {g \in Field : s.flight[g] # {}} \union s.lost
  BY DEF FormInv, AskingInv
<1>3. /\ DOMAIN t.flight = Field /\ t.flight[f] = {}
      /\ \A g \in Field \ {f} : t.flight[g] = s.flight[g]
  BY <1>1, <1>2
<1>4. Shape(t) /\ ShownInv(t) /\ RulesInv(t)
  BY <1>1 DEF FormInv, Shape, ShownInv, RulesInv
<1>5. ASSUME NEW g \in Field PROVE FieldInv(t, g)
  <2>1. FieldInv(s, g)
    BY DEF FormInv, AskingInv
  <2>2. CASE g = f
    BY <1>1, <1>3, <2>1, <2>2 DEF FieldInv
  <2>3. CASE g # f
    BY <1>1, <1>3, <2>1, <2>3 DEF FieldInv
  <2> QED
    BY <2>2, <2>3
<1>6. t.pending = {g \in Field : t.flight[g] # {}} \union t.lost
  BY <1>1, <1>2, <1>3
<1>7. AskingInv(t)
  BY <1>1, <1>3, <1>5, <1>6 DEF FormInv, AskingInv, Remembered
<1> QED
  BY <1>1, <1>4, <1>7 DEF FormInv, t

\* After a reset every request in flight is an orphan.
LEMMA ResetKeeps ==
  ASSUME NEW s, FormInv(s)
  PROVE  LET t == [s EXCEPT
                     !.errors = {}, !.invalid = {}, !.submitted = {},
                     !.previous = [f \in Field |-> [old |-> {}, valid |-> TRUE]],
                     !.orphans = {f \in Field : s.flight[f] # {}},
                     !.inError = {},
                     !.summary = [@ EXCEPT !.shown = FALSE]]
         IN  FormInv(t) /\ t.pending = s.pending /\ t.formSubmitted = s.formSubmitted
<1> DEFINE asking == {f \in Field : s.flight[f] # {}}
           hidden == [s.summary EXCEPT !.shown = FALSE]
           nothing == [f \in Field |-> [old |-> {}, valid |-> TRUE]]
           t == [s EXCEPT !.errors = {}, !.invalid = {}, !.submitted = {},
                          !.previous = nothing, !.orphans = asking, !.inError = {},
                          !.summary = [@ EXCEPT !.shown = FALSE]]
<1>1. hidden \in SummaryType
  BY DEF FormInv, Shape, SummaryType
<1>2. t.summary = hidden
  BY DEF FormInv, Shape, FormNames
<1>3. /\ DOMAIN t = FormNames
      /\ t.rules = s.rules /\ t.sentAlong = s.sentAlong
      /\ t.previous = nothing /\ t.flight = s.flight
      /\ t.orphans = asking /\ t.lost = s.lost
      /\ t.pending = s.pending /\ t.pendingRequest = s.pendingRequest
      /\ t.errors = {} /\ t.invalid = {} /\ t.submitted = {} /\ t.linked = s.linked
      /\ t.formSubmitted = s.formSubmitted
      /\ t.inError = {} /\ t.messages = s.messages
  <2> HIDE DEF asking, nothing, hidden
  <2> QED
    BY DEF FormInv, Shape, FormNames
<1>4. \A f \in Field : nothing[f].old = {} /\ nothing[f].valid \in BOOLEAN
                       /\ DOMAIN nothing[f] = {"old", "valid"}
  OBVIOUS
<1>5. DOMAIN nothing = Field
  OBVIOUS
<1> HIDE DEF t, hidden, nothing
<1>6. Shape(t) /\ ShownInv(t) /\ RulesInv(t)
  BY <1>1, <1>2, <1>3 DEF FormInv, Shape, ShownInv, RulesInv
<1>7. ASSUME NEW f \in Field PROVE FieldInv(t, f)
  <2>1. FieldInv(s, f)
    BY DEF FormInv, AskingInv
  <2> QED
    BY <1>3, <1>4, <2>1 DEF FieldInv
<1>8. Remembered(t)
  BY <1>3, <1>4 DEF Remembered
<1>9. AskingInv(t)
  BY <1>3, <1>5, <1>7, <1>8 DEF FormInv, AskingInv
<1> QED
  BY <1>3, <1>6, <1>9 DEF FormInv, t, nothing

-----------------------------------------------------------------------------
(* Steps.                                                                  *)

\* The typed parts of a form that keeps the books.
LEMMA FormIsTyped ==
  ASSUME NEW s, FormInv(s)
  PROVE  /\ s.errors \subseteq Field /\ s.invalid \subseteq Field
         /\ s.submitted \subseteq Field /\ s.orphans \subseteq Field
         /\ s.lost \subseteq Field /\ s.pending \subseteq Field
         /\ s.linked \subseteq Field /\ s.inError \subseteq Field
         /\ s.messages \subseteq Field
         /\ s.pendingRequest \in Nat
         /\ s.formSubmitted \in BOOLEAN
         /\ s.summary \in SummaryType
<1>1. s.pending \subseteq Field /\ s.pendingRequest = Cardinality(s.pending)
  BY DEF FormInv, AskingInv
<1>2. s.pendingRequest \in Nat
  BY <1>1, FieldIsFinite
<1> QED
  BY <1>1, <1>2 DEF FormInv, AskingInv, Shape

\* A step that leaves the page alone and the form in order.
LEMMA StepKeeps ==
  ASSUME TypeOK, page' = page, FormInv(form'),
         present' \subseteq Field, value' \in [Field -> Value], attached' \in BOOLEAN,
         sent' \in {"no", "unattached", "cancel", "thrown", "click", "held"}
  PROVE  TypeOK' /\ FormInv(form)'
<1>1. FormInv(form)'
  <2>1. Shape(form)'
    BY DEF FormInv, Shape
  <2>2. RulesInv(form)'
    BY DEF FormInv, RulesInv, Parsed, Page
  <2>3. AskingInv(form)'
    BY DEF FormInv, AskingInv, Remembered, FieldInv
  <2>4. ShownInv(form)'
    BY DEF FormInv, ShownInv, Page
  <2> QED
    BY <2>1, <2>2, <2>3, <2>4 DEF FormInv
<1>2. TypeOK'
  BY FormIsTyped DEF TypeOK
<1> QED
  BY <1>1, <1>2

\* A check of one field keeps a form with a validator in order.
LEMMA CheckedKeeps ==
  ASSUME IInv, NEW f \in Field, Checked(f)
  PROVE  FormInv(form') /\ form'.formSubmitted = form.formSubmitted
  BY CheckElementInv DEF IInv, Checked, FormInv

LEMMA SubmitKeeps ==
  ASSUME IInv, Submit
  PROVE  /\ FormInv(form')
         /\ sent' = "click" => AllRight(form')
         /\ sent' \in {"no", "click"}
         /\ sent' = "no" /\ (\/ ~form'.formSubmitted
                             \/ form'.errors # {} \/ form'.pendingRequest = 0) =>
              /\ form'.errors # {}
              /\ form'.summary = [shown |-> TRUE, list |-> form'.errors]
<1> DEFINE c == CheckForm(form)
           held == c.errors = {} /\ c.pendingRequest > 0
           keeps == c.formSubmitted \/ held
<1>1. /\ Shape(form) /\ AskingInv(form) /\ RulesInv(form) /\ present \subseteq Field
      /\ DOMAIN form = FormNames
  BY DEF IInv, TypeOK, FormInv, Shape
<1>2. FormInv(c)
  BY <1>1, CheckFormInv DEF FormInv
<1>3. c.pendingRequest \in Nat /\ c.formSubmitted \in BOOLEAN
  BY <1>2, FormIsTyped
<1>4. c.errors = {} /\ c.pendingRequest = 0 => AllRight(c)
  BY <1>1, CleanCheckIsRight DEF Submit
<1>5. c.errors # {} => c.summary = [shown |-> TRUE, list |-> c.errors]
  BY <1>1, CheckFormFields
<1>6. /\ form' = [c EXCEPT !.formSubmitted = keeps]
      /\ sent' = IF c.errors = {} /\ ~held THEN "click" ELSE "no"
  <2>1. [c EXCEPT !.formSubmitted = @ \/ held] = [c EXCEPT !.formSubmitted = keeps]
    OBVIOUS
  <2> QED
    BY <2>1 DEF Submit
<1>7. keeps \in BOOLEAN
  OBVIOUS
<1> HIDE DEF c, keeps
<1>8. /\ FormInv(form') /\ form'.formSubmitted = keeps
      /\ form'.rules = c.rules /\ form'.sentAlong = c.sentAlong
      /\ form'.errors = c.errors /\ form'.summary = c.summary
      /\ form'.pendingRequest = c.pendingRequest
  BY <1>2, <1>6, <1>7, HoldKeeps
<1>9. AllRight(c) => AllRight(form')
  BY <1>1, <1>8 DEF AllRight, Elements, Problems, Asks, Question
<1>10. sent' = "click" => AllRight(form')
  BY <1>3, <1>4, <1>6, <1>9
<1>11. held => keeps
  BY DEF keeps
<1>12. ASSUME sent' = "no", ~form'.formSubmitted \/ form'.errors # {} \/ form'.pendingRequest = 0
       PROVE  c.errors # {}
  <2>1. CASE ~form'.formSubmitted
    <3>1. ~keeps
      BY <1>8, <2>1
    <3> QED
      BY <1>6, <1>11, <1>12, <3>1
  <2>2. CASE form'.errors # {}
    BY <1>8, <2>2
  <2>3. CASE form'.pendingRequest = 0
    <3>1. ~held
      BY <1>8, <2>3
    <3> QED
      BY <1>6, <1>12, <3>1
  <2> QED
    BY <1>12, <2>1, <2>2, <2>3
<1> QED
  BY <1>5, <1>6, <1>8, <1>10, <1>12

LEMMA AnswerFalseKeeps ==
  ASSUME IInv, NEW f \in Field, AnswerFalse(f)
  PROVE  /\ FormInv(form')
         /\ \/ form'.formSubmitted = form.formSubmitted
            \/ /\ form'.errors # {}
               /\ form'.summary = [shown |-> TRUE, list |-> form'.errors]
<1> DEFINE t == Stopped(Answered(form, f, FALSE), f)
<1>1. FormInv(t) /\ t.formSubmitted = form.formSubmitted /\ f \in t.errors
  <2>1. form.flight[f] # {} /\ ~(form.flight[f] \subseteq Accepted)
    BY DEF AnswerFalse
  <2>2. Shape(form) /\ AskingInv(form) /\ RulesInv(form) /\ ShownInv(form)
    BY DEF IInv, FormInv
  <2>3. FALSE \in BOOLEAN /\ (FALSE <=> form.flight[f] \subseteq Accepted)
    BY <2>1
  <2> HIDE DEF t
  <2>4. /\ Shape(t) /\ AskingInv(t) /\ RulesInv(t) /\ ShownInv(t)
        /\ t.formSubmitted = form.formSubmitted
        /\ ~FALSE => f \in t.errors
    BY <2>1, <2>2, <2>3, AnswerKeeps DEF t
  <2> QED
    BY <2>4 DEF FormInv
<1>2. CASE Decides(t)
  <2> DEFINE o == OnErrors(t, t.errors)
  <2>1. form' = [o EXCEPT !.formSubmitted = FALSE]
    BY <1>2 DEF AnswerFalse
  <2>2. /\ FormInv(o) /\ o.errors = t.errors
        /\ o.summary = [shown |-> TRUE, list |-> t.errors]
    <3> HIDE DEF t
    <3> QED
      BY <1>1, OnErrorsKeeps, OnErrorsFields DEF FormInv, Shape
  <2> HIDE DEF o, t
  <2> QED
    BY <1>1, <2>1, <2>2, HoldKeeps
<1>3. CASE ~Decides(t)
  BY <1>1, <1>3 DEF AnswerFalse
<1> QED
  BY <1>2, <1>3

\* The form when the server has said yes to f.
LEMMA AcceptedKeeps ==
  ASSUME IInv, NEW f \in Field, form.flight[f] \intersect Accepted # {}
  PROVE  LET t == Stopped(Answered(form, f, TRUE), f)
         IN  /\ FormInv(t) /\ t.formSubmitted = form.formSubmitted
             /\ \A g \in Field : ~Throws(t, g)
<1> DEFINE t == Stopped(Answered(form, f, TRUE), f)
<1>1. /\ Shape(form) /\ AskingInv(form) /\ RulesInv(form) /\ ShownInv(form)
      /\ FieldInv(form, f) /\ page \in DOMAIN Pages
  BY DEF IInv, FormInv, AskingInv, TypeOK
<1>2. form.flight[f] # {} /\ form.flight[f] \subseteq Accepted
  BY <1>1 DEF FieldInv
<1>3. TRUE \in BOOLEAN /\ (TRUE <=> form.flight[f] \subseteq Accepted)
  BY <1>2
<1> HIDE DEF t
<1>4. /\ Shape(t) /\ AskingInv(t) /\ RulesInv(t) /\ ShownInv(t)
      /\ t.formSubmitted = form.formSubmitted
      /\ t.rules = form.rules /\ t.sentAlong = form.sentAlong
  BY <1>1, <1>2, <1>3, AnswerKeeps DEF t
<1>5. f \in form.pending
  BY <1>1, <1>2 DEF AskingInv
<1>6. t.sentAlong[f] # {}
  BY <1>1, <1>4, <1>5 DEF FieldInv
<1>7. \A g \in Field : ~Throws(t, g)
  BY <1>1, <1>4, <1>6, NothingThrows
<1> QED
  BY <1>4, <1>7 DEF FormInv, t

LEMMA AnswerReleasesKeeps ==
  ASSUME IInv, NEW f \in Field, AnswerReleases(f)
  PROVE  /\ FormInv(form')
         /\ sent' = "held" => AllRight(form')
         /\ sent' \in {"no", "held"}
         /\ sent' = "no" => form'.formSubmitted
         /\ form'.errors # {} => form'.summary = [shown |-> TRUE, list |-> form'.errors]
<1> DEFINE t == Stopped(Answered(form, f, TRUE), f)
           c == CheckForm(t)
           goes == c.errors = {} /\ c.pendingRequest = 0
<1>1. FormInv(t) /\ \A g \in Field : ~Throws(t, g)
  <2> HIDE DEF t
  <2> QED
    BY AcceptedKeeps DEF AnswerReleases, t
<1>2. /\ form' = [c EXCEPT !.formSubmitted = ~goes]
      /\ sent' = IF goes THEN "held" ELSE "no"
  BY DEF AnswerReleases
<1> HIDE DEF t
<1>3. /\ Shape(t) /\ AskingInv(t) /\ RulesInv(t) /\ present \subseteq Field
      /\ \A g \in Elements(t) : ~Throws(t, g)
  BY <1>1 DEF IInv, TypeOK, FormInv, Elements
<1>4. FormInv(c) /\ (goes => AllRight(c))
  BY <1>3, CheckFormInv, CleanCheckIsRight DEF FormInv
<1>5. c.errors # {} => c.summary = [shown |-> TRUE, list |-> c.errors]
  BY <1>3, CheckFormFields DEF Shape
<1> HIDE DEF c
<1>6. (~goes) \in BOOLEAN
  OBVIOUS
<1> HIDE DEF goes
<1>7. /\ FormInv(form') /\ form'.formSubmitted = ~goes
      /\ form'.rules = c.rules /\ form'.sentAlong = c.sentAlong
      /\ form'.errors = c.errors /\ form'.summary = c.summary
  BY <1>2, <1>4, <1>6, HoldKeeps
<1>8. AllRight(c) => AllRight(form')
  BY <1>3, <1>7 DEF AllRight, Elements, Problems, Asks, Question
<1> QED
  BY <1>2, <1>4, <1>7, <1>8, <1>5

-----------------------------------------------------------------------------
(* The invariant.                                                          *)

LEMMA InitIInv == Init => IInv
<1> SUFFICES ASSUME Init PROVE IInv
  OBVIOUS
<1>1. page \in DOMAIN Pages /\ value \in [Field -> Value] /\ Page.redisplayed \subseteq Field
  BY PagesAssumption DEF Init, Page
<1>2. FormInv(form) /\ form.pending = {}
  BY <1>1, FreshInv DEF Init
<1>3. TypeOK
  <2>1. present \subseteq Field /\ attached \in BOOLEAN /\ sent = "no"
    BY DEF Init
  <2> QED
    BY <1>1, <1>2, <2>1, FormIsTyped DEF TypeOK
<1>4. SentIsChecked
  BY DEF Init, SentIsChecked
<1> QED
  BY <1>2, <1>3, <1>4 DEF IInv

\* No step disturbs the invariant.
LEMMA NextIInv == IInv /\ [Next]_vars => IInv'
<1> SUFFICES ASSUME IInv, [Next]_vars PROVE IInv'
  OBVIOUS
<1>0. /\ TypeOK /\ FormInv(form) /\ (attached \/ form.pending = {})
      /\ page \in DOMAIN Pages /\ present \subseteq Field
      /\ value \in [Field -> Value] /\ attached \in BOOLEAN
      /\ sent \in {"no", "unattached", "cancel", "thrown", "click", "held"}
      /\ Page.initial \in [Field -> Value] /\ Page.redisplayed \subseteq Field
  BY PagesAssumption DEF IInv, TypeOK, Page
<1> DEFINE Unsent == sent' \in {"no", "unattached", "cancel", "thrown"}
           Good == page' = page /\ FormInv(form') /\ present' \subseteq Field
                   /\ value' \in [Field -> Value] /\ attached' \in BOOLEAN
                   /\ (attached' \/ form'.pending = {})
<1>1. ASSUME Good, Unsent PROVE IInv'
  <2>1. TypeOK' /\ FormInv(form)'
    BY <1>0, <1>1, StepKeeps
  <2>2. SentIsChecked'
    BY <1>1 DEF SentIsChecked
  <2> QED
    BY <1>1, <2>1, <2>2 DEF IInv
<1>2. ASSUME Good, sent' \in {"no", "click", "held"}, UNCHANGED <<value, present>>,
             sent' # "no" => AllRight(form')
      PROVE  IInv'
  <2>1. TypeOK' /\ FormInv(form)'
    BY <1>0, <1>2, StepKeeps
  <2>2. SentIsChecked'
    BY <1>2 DEF SentIsChecked, AllRight, Elements, Problems, Asks, Question
  <2> QED
    BY <1>2, <2>1, <2>2 DEF IInv
<1> HIDE DEF Good
<1>3. ASSUME NEW f \in Field, form.flight[f] # {} PROVE attached
  BY <1>0, <1>3 DEF FormInv, AskingInv
<1>4. CASE Ready
  BY <1>0, <1>1, <1>4, AttachKeeps DEF Ready, Parse, Good
<1>5. CASE InsertAndParse
  BY <1>0, <1>1, <1>5, AttachKeeps DEF InsertAndParse, Parse, Good
<1>6. ASSUME NEW f \in Field, NEW v \in Value, Edit(f, v) PROVE IInv'
  BY <1>0, <1>1, <1>6 DEF Edit, Good
<1>7. ASSUME NEW f \in Field, Checked(f) PROVE IInv'
  <2>1. FormInv(form')
    BY <1>7, CheckedKeeps
  <2> QED
    BY <1>0, <1>1, <1>7, <2>1 DEF Checked, Good
<1>8. CASE SubmitUnattached
  BY <1>0, <1>1, <1>8 DEF SubmitUnattached, Good
<1>9. CASE SubmitCancel
  BY <1>0, <1>1, <1>9 DEF SubmitCancel, Good
<1>10. CASE SubmitThrows
  BY <1>0, <1>1, <1>10 DEF SubmitThrows, Good
<1>11. CASE Submit
  <2>1. Good /\ UNCHANGED <<value, present>>
    BY <1>0, <1>11, SubmitKeeps DEF Submit, Good
  <2> QED
    BY <1>2, <1>11, <2>1, SubmitKeeps
<1>12. CASE Reset
  <2>1. FormInv(form')
    BY <1>0, <1>12, ResetKeeps DEF Reset
  <2> QED
    BY <1>0, <1>1, <1>12, <2>1 DEF Reset, Good
<1>13. ASSUME NEW f \in Field, AnswerFalse(f) PROVE IInv'
  <2>1. FormInv(form')
    BY <1>13, AnswerFalseKeeps
  <2>2. attached
    BY <1>3, <1>13 DEF AnswerFalse
  <2> QED
    BY <1>0, <1>1, <1>13, <2>1, <2>2 DEF AnswerFalse, Good
<1>14. ASSUME NEW f \in Field, AnswerTrue(f) PROVE IInv'
  <2>1. FormInv(form')
    BY <1>14, AcceptedKeeps DEF AnswerTrue
  <2>2. attached
    BY <1>3, <1>14 DEF AnswerTrue
  <2> QED
    BY <1>0, <1>1, <1>14, <2>1, <2>2 DEF AnswerTrue, Good
<1>15. ASSUME NEW f \in Field, AnswerReleases(f) PROVE IInv'
  <2>1. attached
    BY <1>3, <1>15 DEF AnswerReleases
  <2>2. Good /\ UNCHANGED <<value, present>>
    BY <1>0, <1>15, <2>1, AnswerReleasesKeeps DEF AnswerReleases, Good
  <2> QED
    BY <1>2, <1>15, <2>2, AnswerReleasesKeeps
<1>16. ASSUME NEW f \in Field, Lose(f) PROVE IInv'
  <2>1. FormInv(form')
    BY <1>0, <1>16, LoseKeeps DEF Lose
  <2>2. attached
    BY <1>3, <1>16 DEF Lose
  <2> QED
    BY <1>0, <1>1, <1>16, <2>1, <2>2 DEF Lose, Good
<1>17. CASE Load
  <2>1. FormInv(form') /\ form'.pending = {}
    BY <1>0, <1>17, FreshInv DEF Load
  <2> QED
    BY <1>0, <1>1, <1>17, <2>1 DEF Load, Good
<1>18. CASE UNCHANGED vars
  <2>1. Good
    BY <1>0, <1>18 DEF vars, Good
  <2>2. CASE sent \in {"click", "held"}
    <3>1. AllRight(form')
      BY <1>18, <2>2 DEF IInv, SentIsChecked, AllRight, vars
    <3> QED
      BY <1>2, <1>18, <2>1, <2>2, <3>1 DEF vars
  <2>3. CASE sent \notin {"click", "held"}
    BY <1>0, <1>1, <1>18, <2>1, <2>3 DEF vars
  <2> QED
    BY <2>2, <2>3
<1> QED
  BY <1>4, <1>5, <1>6, <1>7, <1>8, <1>9, <1>10, <1>11, <1>12, <1>13, <1>14, <1>15,
     <1>16, <1>17, <1>18
     DEF Next, ByUser, KeyUp, FocusOut, Click, BlurOfTarget, Answer

-----------------------------------------------------------------------------
(* Theorems.                                                               *)

\* The books of the requests, the display and what was sent are in order in
\* every state: the inductive invariant behind the other theorems.
THEOREM FormInvariant == Spec => []IInv
  BY InitIInv, NextIInv, PTL DEF Spec

\* Every variable has its type.
THEOREM FormTypes == Spec => []TypeOK
<1>1. IInv => TypeOK
  BY DEF IInv
<1> QED
  BY <1>1, FormInvariant, PTL

\* However the user, the script and the answers interleave, what the script
\* sends breaks no rule and has been accepted by the server with these values.
THEOREM WhatIsSentIsChecked == Spec => []SentIsChecked
<1>1. IInv => SentIsChecked
  BY DEF IInv
<1> QED
  BY <1>1, FormInvariant, PTL

\* Every error the validator holds is on the page.
THEOREM ErrorsAreVisible == Spec => []ErrorsAreShown
<1>1. IInv => ErrorsAreShown
  BY DEF IInv, FormInv, ShownInv, ErrorsAreShown
<1> QED
  BY <1>1, FormInvariant, PTL

\* What the remote method remembers of a field that is not pending is what the
\* server said to the question it remembers.
THEOREM RememberedAnswers == Spec => []RememberedIsAnswered
<1>1. IInv => RememberedIsAnswered
  BY DEF IInv, FormInv, AskingInv, Remembered, RememberedIsAnswered
<1> QED
  BY <1>1, FormInvariant, PTL

\* pendingRequest is the number of fields in flight or lost.
THEOREM RequestsCounted == Spec => []RequestsAreCounted
<1>1. IInv => RequestsAreCounted
  BY DEF IInv, FormInv, AskingInv, RequestsAreCounted
<1> QED
  BY <1>1, FormInvariant, PTL

\* A step that is no submit and refuses a held one is the last request's answer.
LEMMA RefusalHasReason ==
  ASSUME IInv, [Next]_vars, Refuses
  PROVE  form'.errors # {} /\ form'.summary = [shown |-> TRUE, list |-> form'.errors]
<1>1. /\ sent = "no" /\ sent' = "no"
      /\ \/ Submit /\ (form'.errors # {} \/ form'.pendingRequest = 0)
         \/ form.formSubmitted /\ ~form'.formSubmitted
         \/ \E f \in Field : AnswerReleases(f) /\ form'.errors # {}
  BY DEF Refuses
<1>2. CASE Submit /\ (~form'.formSubmitted \/ form'.errors # {} \/ form'.pendingRequest = 0)
  BY <1>1, <1>2, SubmitKeeps
<1>3. CASE form.formSubmitted /\ ~form'.formSubmitted /\ ~Submit
  <2>0. form'.formSubmitted # form.formSubmitted
    BY <1>1, <1>3
  <2>1. FormInv(form) /\ (attached \/ form.pending = {}) /\ present \in SUBSET Field
    BY DEF IInv, TypeOK
  <2>2. ~Ready /\ ~InsertAndParse
    BY <2>0, <2>1, AttachKeeps DEF Ready, InsertAndParse, Parse
  <2>3. \A f \in Field : ~Checked(f) /\ \A v \in Value : ~Edit(f, v)
    BY <2>0, CheckedKeeps DEF Edit
  <2>4. ~SubmitUnattached /\ ~SubmitCancel /\ ~SubmitThrows /\ ~Load
    BY <1>1 DEF SubmitUnattached, SubmitCancel, SubmitThrows, Load
  <2>5. ~Reset
    BY <2>0, <2>1, ResetKeeps DEF Reset
  <2>6. ASSUME NEW f \in Field, AnswerTrue(f) PROVE FALSE
    <3>1. form' = Stopped(Answered(form, f, TRUE), f)
      BY <2>6 DEF AnswerTrue
    <3>2. Stopped(Answered(form, f, TRUE), f).formSubmitted = form.formSubmitted
      BY <2>6, AcceptedKeeps DEF AnswerTrue
    <3> QED
      BY <2>0, <3>1, <3>2
  <2>7. \A f \in Field : ~AnswerReleases(f)
    BY <1>1, <1>3, AnswerReleasesKeeps
  <2>8. \A f \in Field : ~Lose(f)
    BY <2>0, <2>1, LoseKeeps DEF Lose
  <2>9. ~UNCHANGED vars
    BY <2>0 DEF vars
  <2>10. \E f \in Field : AnswerFalse(f)
    BY <1>3, <2>2, <2>3, <2>4, <2>5, <2>6, <2>7, <2>8, <2>9
       DEF Next, ByUser, KeyUp, FocusOut, Click, BlurOfTarget, Answer
  <2> QED
    BY <2>0, <2>10, AnswerFalseKeeps
<1>4. CASE \E f \in Field : AnswerReleases(f) /\ form'.errors # {}
  BY <1>4, AnswerReleasesKeeps
<1> QED
  BY <1>1, <1>2, <1>3, <1>4

\* A submit is never refused without a word: the summary lists the errors and
\* each is shown at its field.
THEOREM RefusalsAreExplained == Spec => RefusedWithReason
<1>1. IInv /\ IInv' /\ [Next]_vars
      => [Refuses => /\ form'.errors # {}
                     /\ form'.summary = [shown |-> TRUE, list |-> form'.errors]
                     /\ form'.errors \subseteq form'.inError]_vars
  <2> SUFFICES ASSUME IInv, IInv', [Next]_vars, Refuses
               PROVE  /\ form'.errors # {}
                      /\ form'.summary = [shown |-> TRUE, list |-> form'.errors]
                      /\ form'.errors \subseteq form'.inError
    OBVIOUS
  <2>1. form'.errors \subseteq form'.inError
    BY DEF IInv, FormInv, ShownInv
  <2> QED
    BY <2>1, RefusalHasReason
<1> QED
  BY <1>1, FormInvariant, PTL DEF Spec, RefusedWithReason

=============================================================================
