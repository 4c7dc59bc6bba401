---------------------------- MODULE ClientForms ----------------------------
(***************************************************************************)
(* A form under jquery.validate.unobtrusive.js and the jQuery Validate it  *)
(* drives, as shipped in wwwroot: parsing, checks on typing, leaving and   *)
(* submitting, remote rules, resets, and the messages the user sees.       *)
(*                                                                         *)
(* The user, the network and the page's scripts interleave; a handler runs *)
(* to its end.  form is the validator with the DOM it writes to.  Rules    *)
(* come from data-val-* attributes only, every element is visible, enabled *)
(* and has its own data-valmsg-for container.  data-valmsg-replace="false" *)
(* and a missing attribute do the same: the label is made, never inserted. *)
(* A field whose rules name a method no script defines makes every check   *)
(* of it throw; such a field does not share a page with a remote rule      *)
(* (PagesAssumption).  An element is compared with by one other at most.   *)
(* The server gives the same answer to a question while the page is open.  *)
(* Once a form is sent the page is as good as gone.                        *)
(***************************************************************************)
EXTENDS UnobtrusiveAdapters, FiniteSets

CONSTANTS
  Field,        \* names of the elements
  Value,        \* what an element may hold
  Pages,        \* pages as the server renders them, by name
  Accepted      \* questions <<field, values>> the server answers with true

\* A page is a record: its elements, those whose message container has
\* data-valmsg-replace="true", those a script inserts and parses later, those
\* redisplayed with a message of the server, what each holds at first and what
\* may be typed into it.
ASSUME PagesAssumption ==
  /\ IsFiniteSet(Field)
  /\ \A p \in DOMAIN Pages :
       LET rules(f) == ParseElement(Pages[p].elements[f])
       IN  /\ Pages[p].initial \in [Field -> Value]
           /\ Pages[p].typed \in [Field -> SUBSET Value]
           /\ Pages[p].redisplayed \subseteq Field
           /\ (\E f \in Field : ~(DOMAIN LocalRules(rules(f), Field) \subseteq Methods))
              => \A f \in Field : SentAlong(rules(f)) = {}

\* Attributes as ASP.NET writes them: a range has a bound, equalto names another
\* element of the form, and nonalphamin asks for one character at least.
ASSUME AttributesAssumption ==
  /\ \A v \in Value : v.nonWord \in Nat
  /\ \A p \in DOMAIN Pages, f \in Field :
       LET element == Pages[p].elements[f]
           Has(adapter, param) ==
             adapter \in DOMAIN element.val /\ param \in DOMAIN element.val[adapter]
       IN  /\ element.name = f
           /\ "range" \in DOMAIN element.val => Has("range", "min") \/ Has("range", "max")
           /\ "equalto" \in DOMAIN element.val =>
                AppendModelPrefix(element.val["equalto"]["other"], GetModelPrefix(f)) \in Field
           /\ Has("password", "nonalphamin") =>
                element.val["password"]["nonalphamin"] \in Nat \ {0}

VARIABLES
  page,         \* the page, fixed until the next one is loaded
  present,      \* elements that are in the form by now
  value,        \* what each element holds
  attached,     \* whether the form has a validator
  form,         \* the validator and what it shows
  sent          \* "no", or how the form came to be sent

vars == <<page, present, value, attached, form, sent>>
-----------------------------------------------------------------------------
(* Questions of a field to itself.                                         *)

Page == Pages[page]

Problems(s, f) ==
  {n \in DOMAIN s.rules[f] :
     Missing(n) \/ ~Passes(n, s.rules[f][n].value, value[f], value)}

\* No rule of a problem comes before the rule n.
First(s, f, n) == \A m \in Problems(s, f) : s.rules[f][n].at <= s.rules[f][m].at

\* The rules of one password attribute share a place; none of them is missing.
Throws(s, f) == \E n \in Problems(s, f) : Missing(n) /\ First(s, f, n)

\* An empty field is not asked about.
Asks(s, f) == s.sentAlong[f] # {} /\ ~Optional(value[f])

\* The question, with the values of the additional fields as they are now.
Question(s, f) == <<f, [g \in {f} \union s.sentAlong[f] |-> value[g]]>>

\* The remote method answers from the last question's answer, or asks.
Remembers(s, f) == s.previous[f].old = {Question(s, f)}

Waits(s, f) == Problems(s, f) = {} /\ Asks(s, f) /\ ~Remembers(s, f)

Fails(s, f) ==
  \/ Problems(s, f) # {} /\ ~Throws(s, f)
  \/ Problems(s, f) = {} /\ Asks(s, f) /\ Remembers(s, f) /\ ~s.previous[f].valid

Succeeds(s, f) ==
  Problems(s, f) = {} /\ (Asks(s, f) => Remembers(s, f) /\ s.previous[f].valid)

\* Its equalTo method is reached, and binds the field to the blur of its target.
Compares(s, f) == "equalTo" \in DOMAIN s.rules[f] /\ First(s, f, "equalTo")

\* The fields a check of the whole form looks at.
Elements(s) == {f \in present : DOMAIN s.rules[f] # {}}
-----------------------------------------------------------------------------
(* What the validator does with a set of fields.                           *)

\* (mutant of Ask: a field asked about again is counted again)
AskCountedAgain(s, fields) ==
  [s EXCEPT
     !.previous = [f \in Field |->
        IF f \in fields THEN [old |-> {Question(s, f)}, valid |-> s.previous[f].valid]
        ELSE s.previous[f]],
     !.flight = [f \in Field |-> IF f \in fields THEN {Question(s, f)} ELSE s.flight[f]],
     !.orphans = @ \ fields,
     !.lost = @ \ fields,
     !.pending = @ \union fields,
     !.pendingRequest = @ + Cardinality(fields)]

\* (mutant of Ask: the older question is not aborted)
AskWithoutAbort(s, fields) ==
  [s EXCEPT
     !.previous = [f \in Field |->
        IF f \in fields THEN [old |-> {Question(s, f)}, valid |-> s.previous[f].valid]
        ELSE s.previous[f]],
     !.flight = [f \in Field |->
        IF f \in fields THEN s.flight[f] \union {Question(s, f)} ELSE s.flight[f]],
     !.orphans = @ \ fields,
     !.lost = @ \ fields,
     !.pending = @ \union fields,
     !.pendingRequest = @ + Cardinality(fields \ s.pending)]

\* A new question aborts the one in flight for that field.
Ask(s, fields) ==
  [s EXCEPT
     !.previous = [f \in Field |->
        IF f \in fields THEN [old |-> {Question(s, f)}, valid |-> s.previous[f].valid]
        ELSE s.previous[f]],
     !.flight = [f \in Field |-> IF f \in fields THEN {Question(s, f)} ELSE s.flight[f]],
     !.orphans = @ \ fields,
     !.lost = @ \ fields,
     !.pending = @ \union fields,
     !.pendingRequest = @ + Cardinality(fields \ s.pending)]

Failing(s, fields) == {f \in fields : Fails(s, f)}
Passing(s, fields) == {f \in fields : Succeeds(s, f)}

Check(s, fields) ==
  [Ask(s, {f \in fields : Waits(s, f)}) EXCEPT
     !.errors = Failing(s, fields),
     !.submitted = @ \union Failing(s, fields),
     !.linked = @ \union {f \in fields : Compares(s, f)}]

\* The containers of fields with errors, and of those that passed.
OnError(s, errors) ==
  [s EXCEPT !.inError = @ \union errors,
            !.messages = @ \union (errors \intersect Page.replace)]

OnSuccess(s, passed) ==
  [s EXCEPT !.inError = @ \ passed,
            !.messages = @ \ (passed \intersect Page.replace)]

ShowErrors(s, errors, passed) == OnSuccess(OnError(s, errors), passed)

\* (mutant of OnErrors: a summary that is shown is not written again)
OnErrorsOnce(s, errors) ==
  [s EXCEPT !.summary =
     IF errors = {} \/ @.shown THEN @ ELSE [shown |-> TRUE, list |-> errors]]

\* The handler of invalid-form writes the summary.
OnErrors(s, errors) ==
  [s EXCEPT !.summary = IF errors = {} THEN @ ELSE [shown |-> TRUE, list |-> errors]]

CheckForm(s) ==
  LET failing == Failing(s, Elements(s))
      checked == [Check(s, Elements(s)) EXCEPT !.invalid = failing]
  IN  ShowErrors(OnErrors(checked, failing), failing, Passing(s, Elements(s)))

CheckElement(s, f) ==
  IF Throws(s, f)
  THEN [s EXCEPT !.errors = {}, !.linked = @ \union {g \in {f} : Compares(s, g)}]
  ELSE ShowErrors([Check(s, {f}) EXCEPT !.invalid = @ \union {f}],
                  Failing(s, {f}), Passing(s, {f} \intersect Elements(s)))

\* The validator of a form just loaded, before anything was checked.
NoRules == [f \in Field |-> NoRule]

Fresh(shown) ==
  [rules |-> NoRules, sentAlong |-> [f \in Field |-> {}],
   errors |-> {}, invalid |-> {}, submitted |-> {},
   previous |-> [f \in Field |-> [old |-> {}, valid |-> TRUE]],
   flight |-> [f \in Field |-> {}], orphans |-> {}, lost |-> {},
   pending |-> {}, pendingRequest |-> 0, formSubmitted |-> FALSE, linked |-> {},
   inError |-> shown, messages |-> shown,
   summary |-> [shown |-> FALSE, list |-> {}]]

-----------------------------------------------------------------------------
Init ==
  /\ page \in DOMAIN Pages
  /\ present = Field \ Page.late
  /\ value = Page.initial
  /\ attached = FALSE
  /\ form = Fresh(Page.redisplayed)
  /\ sent = "no"

\* An element takes part if it has data-val="true".
Annotated(f) == DOMAIN Page.elements[f].val # {}

Parsed(f) == ParseElement(Page.elements[f])

\* A form gets a validator once, with a copy of the rules found so far.  Asked
\* again, validate() returns that validator and does not look at new options.
Attach(s, there) ==
  LET Parses(f) == f \in there /\ Annotated(f)
  IN  IF attached THEN s
      ELSE [s EXCEPT
              !.rules = [f \in Field |-> IF Parses(f) THEN LocalRules(Parsed(f), there)
                                                ELSE NoRule],
              !.sentAlong = [f \in Field |-> IF Parses(f) THEN SentAlong(Parsed(f)) ELSE {}]]

\* Forms with an annotated element are parsed, others are left alone.
Parse(there) ==
  /\ \E f \in there : Annotated(f)
  /\ attached' = TRUE
  /\ form' = Attach(form, there)

\* The document is ready.
Ready ==
  /\ sent = "no" /\ ~attached
  /\ Parse(present)
  /\ UNCHANGED <<page, present, value, sent>>

\* A script inserts the other elements, some time later, and calls parse.
InsertAndParse ==
  /\ sent = "no"
  /\ attached \/ ~\E f \in present : Annotated(f)
  /\ present # Field
  /\ present' = Field
  /\ Parse(Field)
  /\ UNCHANGED <<page, value, sent>>

\* The user changes what an element holds.
Edit(f, v) ==
  /\ sent = "no" /\ f \in present
  /\ v \in Page.typed[f] \ {value[f]}
  /\ value' = [value EXCEPT ![f] = v]
  /\ UNCHANGED <<page, present, attached, form, sent>>

Checked(f) ==
  /\ sent = "no" /\ attached /\ f \in present
  /\ form' = CheckElement(form, f)
  /\ UNCHANGED <<page, present, value, attached, sent>>

\* A key goes up: a field is checked again once it has been checked before.
KeyUp(f) ==
  /\ f \in form.submitted \union form.invalid
  /\ Checked(f)

FocusOut(f) ==
  /\ ~Page.elements[f].checkbox
  /\ f \in form.submitted \/ ~Optional(value[f])
  /\ Checked(f)

Click(f) ==
  /\ Page.elements[f].checkbox
  /\ f \in form.submitted
  /\ Checked(f)

\* The user leaves the element another is compared with.
BlurOfTarget(f) ==
  /\ f \in form.linked
  /\ Checked(f)
-----------------------------------------------------------------------------
(* Submitting.                                                             *)

\* Before there is a validator the browser sends what there is.
SubmitUnattached ==
  /\ sent = "no" /\ ~attached
  /\ sent' = "unattached"
  /\ UNCHANGED <<page, present, value, attached, form>>

\* A button with class cancel or formnovalidate.
SubmitCancel ==
  /\ sent = "no" /\ attached
  /\ sent' = "cancel"
  /\ UNCHANGED <<page, present, value, attached, form>>

\* A check that throws leaves the submit event alone: the browser sends.
SubmitThrows ==
  /\ sent = "no" /\ attached
  /\ \E f \in Elements(form) : Throws(form, f)
  /\ sent' = "thrown"
  /\ UNCHANGED <<page, present, value, attached, form>>

\* (mutant of Submit: pending requests are not waited for)
SubmitUnheld ==
  /\ sent = "no" /\ attached
  /\ \A f \in Elements(form) : ~Throws(form, f)
  /\ \E checked \in {CheckForm(form)} :
       /\ form' = checked
       /\ sent' = IF checked.errors = {} THEN "click" ELSE "no"
  /\ UNCHANGED <<page, present, value, attached>>

\* Refused, held until the pending requests are answered, or sent.
Submit ==
  /\ sent = "no" /\ attached
  /\ \A f \in Elements(form) : ~Throws(form, f)
  /\ \E checked \in {CheckForm(form)} :
       LET held == checked.errors = {} /\ checked.pendingRequest > 0
       IN  /\ form' = [checked EXCEPT !.formSubmitted = @ \/ held]
           /\ sent' = IF checked.errors = {} /\ ~held THEN "click" ELSE "no"
  /\ UNCHANGED <<page, present, value, attached>>
-----------------------------------------------------------------------------
(* Remote answers.                                                         *)

\* The form as the success callback leaves it before it calls stopRequest.
\* A request sent before a reset no longer reaches what the validator remembers.
Answered(s, f, valid) ==
  LET errors == IF valid THEN {} ELSE s.errors \union {f}
  IN  ShowErrors([s EXCEPT
                    !.flight[f] = {},
                    !.orphans = @ \ {f},
                    !.previous[f].valid = IF f \in s.orphans THEN @ ELSE valid,
                    !.invalid = @ \union {f},
                    !.errors = errors],
                 errors, IF valid THEN {f} ELSE {})

\* (mutant of Stopped: the counter is left alone)
StoppedUncounted(s, f) == [s EXCEPT !.pending = @ \ {f}]

Stopped(s, f) ==
  [s EXCEPT !.pending = @ \ {f},
            !.pendingRequest = IF @ > 0 THEN @ - 1 ELSE 0]

\* No request is left and a submit is held.
Decides(s) == s.pendingRequest = 0 /\ s.formSubmitted

\* The server says no.  A held submit is refused with the last request.
AnswerFalse(f) ==
  /\ sent = "no"
  /\ form.flight[f] # {} /\ form.flight[f] \intersect Accepted = {}
  /\ \E stopped \in {Stopped(Answered(form, f, FALSE), f)} :
       form' = IF Decides(stopped)
               THEN [OnErrors(stopped, stopped.errors) EXCEPT !.formSubmitted = FALSE]
               ELSE stopped
  /\ UNCHANGED <<page, present, value, attached, sent>>

\* The server says yes and nothing is held, or something else is pending.
AnswerTrue(f) ==
  /\ sent = "no"
  /\ form.flight[f] \intersect Accepted # {}
  /\ \E stopped \in {Stopped(Answered(form, f, TRUE), f)} :
       /\ ~Decides(stopped)
       /\ form' = stopped
  /\ UNCHANGED <<page, present, value, attached, sent>>

\* The server says yes and a submit is held: the form is checked again, as it
\* is by now, and sent if nothing is wrong or pending.
AnswerReleases(f) ==
  /\ sent = "no"
  /\ form.flight[f] \intersect Accepted # {}
  /\ \E stopped \in {Stopped(Answered(form, f, TRUE), f)} :
       /\ Decides(stopped)
       /\ \E checked \in {CheckForm(stopped)} :
            LET goes == checked.errors = {} /\ checked.pendingRequest = 0
            IN  /\ form' = [checked EXCEPT !.formSubmitted = ~goes]
                /\ sent' = IF goes THEN "held" ELSE "no"
  /\ UNCHANGED <<page, present, value, attached>>

Answer(f) == AnswerFalse(f) \/ AnswerTrue(f) \/ AnswerReleases(f)

\* (mutant of Lose: an error is counted as the end of a field that stays pending)
LoseCounted(f) ==
  /\ sent = "no"
  /\ form.flight[f] # {}
  /\ form' = [form EXCEPT !.flight[f] = {}, !.orphans = @ \ {f}, !.lost = @ \union {f},
                          !.pendingRequest = @ - 1]
  /\ UNCHANGED <<page, present, value, attached, sent>>

\* A request fails, or another form's request for a field of that name aborts
\* it.  Nothing handles that.
Lose(f) ==
  /\ sent = "no"
  /\ form.flight[f] # {}
  /\ form' = [form EXCEPT !.flight[f] = {}, !.orphans = @ \ {f}, !.lost = @ \union {f}]
  /\ UNCHANGED <<page, present, value, attached, sent>>
-----------------------------------------------------------------------------
\* (mutant of Reset: the errors are not forgotten)
ResetKeepsErrors ==
  /\ sent = "no" /\ attached
  /\ form' = [form EXCEPT
                !.invalid = {}, !.submitted = {},
                !.previous = [f \in Field |-> [old |-> {}, valid |-> TRUE]],
                !.orphans = {f \in Field : form.flight[f] # {}},
                !.inError = {},
                !.summary = [@ EXCEPT !.shown = FALSE]]
  /\ value' = Page.initial
  /\ UNCHANGED <<page, present, attached, sent>>

\* onReset, then the browser's own reset.  The message texts stay, their
\* containers are hidden by their class; requests and a held submit stay too.
Reset ==
  /\ sent = "no" /\ attached
  /\ form' = [form EXCEPT
                !.errors = {}, !.invalid = {}, !.submitted = {},
                !.previous = [f \in Field |-> [old |-> {}, valid |-> TRUE]],
                !.orphans = {f \in Field : form.flight[f] # {}},
                !.inError = {},
                !.summary = [@ EXCEPT !.shown = FALSE]]
  /\ value' = Page.initial
  /\ UNCHANGED <<page, present, attached, sent>>

\* The next page, or the same one again.
Load ==
  /\ sent # "no"
  /\ present' = Field \ Page.late
  /\ value' = Page.initial
  /\ attached' = FALSE
  /\ form' = Fresh(Page.redisplayed)
  /\ sent' = "no"
  /\ UNCHANGED page

ByUser ==
  \/ \E f \in Field : \/ \E v \in Value : Edit(f, v)
                      \/ KeyUp(f) \/ FocusOut(f) \/ Click(f) \/ BlurOfTarget(f)
  \/ SubmitUnattached \/ SubmitCancel \/ SubmitThrows \/ Submit \/ Reset

Next ==
  \/ ByUser
  \/ Ready \/ InsertAndParse \/ Load
  \/ \E f \in Field : Answer(f) \/ Lose(f)

Spec == Init /\ [][Next]_vars

\* A request that is not lost is answered.
FairSpec == Spec /\ \A f \in Field : WF_vars(Answer(f))
-----------------------------------------------------------------------------
(* What the data-val-* attributes say of a value, as ASP.NET's validation  *)
(* attributes of these names do: an empty field meets all but required and *)
(* equalto.                                                                *)

Meets(f, adapter) ==
  LET params == Page.elements[f].val[adapter]
      v == value[f]
      AtLeast(p, n) == p \in DOMAIN params => n >= params[p]
      AtMost(p, n) == p \in DOMAIN params => n <= params[p]
  IN  CASE adapter = "required" -> Page.elements[f].checkbox \/ ~Optional(v)
        [] adapter \in {"length", "minlength", "maxlength"} ->
             Optional(v) \/ (AtLeast("min", v.length) /\ AtMost("max", v.length))
        [] adapter = "range" ->
             \/ Optional(v)
             \/ /\ "numeral" \in v.is
                /\ "min" \in DOMAIN params => v.number >= params["min"].number
                /\ "max" \in DOMAIN params => v.number <= params["max"].number
        [] adapter = "regex" -> Optional(v) \/ params["pattern"] \in v.is
        [] adapter = "accept" -> Optional(v) \/ params["mimtype"] \in v.is
        [] adapter = "extension" -> Optional(v) \/ params["extension"] \in v.is
        [] adapter = "fileextensions" -> Optional(v) \/ params["extensions"] \in v.is
        [] adapter = "password" ->
             Optional(v) \/ (/\ AtLeast("min", v.length) /\ AtLeast("nonalphamin", v.nonWord)
                             /\ "regex" \in DOMAIN params => params["regex"] \in v.is)
        [] adapter = "equalto" ->
             \E g \in Field : g = AppendModelPrefix(params["other"], GetModelPrefix(f))
                              /\ v = value[g]
        [] adapter = "remote" -> TRUE
        [] OTHER -> Optional(v) \/ adapter \in v.is

\* A range of one bound is checked as texts are ordered: a value that stands on
\* the right side of the bound's text need not be a number, nor on the right side
\* of the bound's number, and the other way round.
TextsMislead(f) ==
  LET val == Page.elements[f].val
      v == value[f]
      bound(p) == val["range"][p]
  IN  /\ "range" \in DOMAIN val /\ ~Optional(v)
      /\ \/ /\ "max" \notin DOMAIN val["range"]
            /\ ~(v.order >= bound("min").order
                   <=> "numeral" \in v.is /\ v.number >= bound("min").number)
         \/ /\ "min" \notin DOMAIN val["range"]
            /\ ~(v.order <= bound("max").order
                   <=> "numeral" \in v.is /\ v.number <= bound("max").number)

\* The element f is compared with is inserted after the page was loaded.
TargetIsLate(f) ==
  LET val == Page.elements[f].val
  IN  /\ "equalto" \in DOMAIN val
      /\ AppendModelPrefix(val["equalto"]["other"], GetModelPrefix(f)) \in Page.late

\* The attributes of f whose rule is not what they say: the value is checked
\* otherwise, or not at all.
Astray(f, adapter) ==
  \/ adapter = "range" /\ TextsMislead(f)
  \/ adapter = "equalto" /\ TargetIsLate(f)

\* What the attributes an adapter looks at say of f.
Obeys(f) == \A i \in Given(Page.elements[f]) : Meets(f, Adapters[i])

\* What they say of f, as far as the rules made of them can tell.
ObeysRules(f) ==
  \A i \in Given(Page.elements[f]) : Meets(f, Adapters[i]) \/ Astray(f, Adapters[i])

\* Two attributes of one element that write the same rule.
Overridden(f) ==
  \E i, j \in Given(Page.elements[f]) :
    /\ i # j
    /\ DOMAIN Adapt(Adapters[i], Page.elements[f])
         \intersect DOMAIN Adapt(Adapters[j], Page.elements[f]) # {}
-----------------------------------------------------------------------------
(* Properties.                                                             *)

SummaryType == [shown : BOOLEAN, list : SUBSET Field]

TypeOK ==
  /\ page \in DOMAIN Pages
  /\ present \subseteq Field
  /\ value \in [Field -> Value]
  /\ attached \in BOOLEAN
  /\ \A s \in {form.errors, form.invalid, form.submitted, form.orphans, form.lost,
               form.pending, form.linked, form.inError, form.messages} : s \subseteq Field
  /\ form.pendingRequest \in Nat
  /\ form.formSubmitted \in BOOLEAN
  /\ form.summary \in SummaryType
  /\ sent \in {"no", "unattached", "cancel", "thrown", "click", "held"}

\* What the script lets through, at the click or when the last answer comes,
\* breaks no rule the validator has, and the server has said yes to the very
\* values that are sent: answers to older values, requests aborted, lost or
\* overtaken by a reset, and fields edited while a submit is held change nothing
\* about that.
SentIsChecked ==
  sent \in {"click", "held"} =>
    \A f \in Elements(form) :
      Problems(form, f) = {} /\ (Asks(form, f) => Question(form, f) \in Accepted)

\* The rules parsed at load accept what the attributes accept, whatever the
\* combination of attributes, but for two rules that are stricter: nonalphamin,
\* which an empty field does not meet, and a range of one bound, for values whose
\* text is on the wrong side of the bound's.  They accept no more, unless two
\* attributes of one element write the same rule, a value's text is on the right
\* side of a range's one bound and its number is not, or the element to compare
\* with was not there.
RulesMeanAnnotations ==
  attached =>
    \A f \in {g \in Field \ Page.late : Annotated(g)} :
      /\ Obeys(f) /\ DOMAIN form.rules[f] \subseteq Methods =>
           \/ Problems(form, f) = {}
           \/ Optional(value[f]) /\ "nonalphamin" \in DOMAIN form.rules[f]
           \/ TextsMislead(f)
      /\ Problems(form, f) = {} => ObeysRules(f) \/ Overridden(f)

\* Every error the validator holds is on the page: its container is in the error
\* class and, where messages are replaced, has a message.
ErrorsAreShown ==
  /\ form.errors \subseteq form.inError
  /\ form.errors \intersect Page.replace \subseteq form.messages

\* What the remote method remembers is the server's answer to the question it
\* remembers, for every field that is not pending: a late answer never passes
\* for the answer to a newer question.
RememberedIsAnswered ==
  \A f \in Field \ form.pending :
    form.previous[f].old # {} =>
      (form.previous[f].valid <=> form.previous[f].old \subseteq Accepted)

\* The counter that holds a submit back counts the fields whose last request is
\* still in flight or was lost, each once.
RequestsAreCounted ==
  /\ form.pending = {f \in Field : form.flight[f] # {}} \union form.lost
  /\ form.pendingRequest = Cardinality(form.pending)

\* The click finds errors, or the last answer does: it lets go of a held submit
\* itself, or has the form checked again.
Refuses ==
  /\ sent = "no" /\ sent' = "no"
  /\ \/ Submit /\ (form'.errors # {} \/ form'.pendingRequest = 0)
     \/ form.formSubmitted /\ ~form'.formSubmitted
     \/ \E f \in Field : AnswerReleases(f) /\ form'.errors # {}

\* A submit that is refused, at once or when the last answer comes, leaves a
\* visible reason, whether an earlier one is still held or not: the summary lists
\* the errors, and each is shown at its field.
RefusedWithReason ==
  [][Refuses => /\ form'.errors # {}
                /\ form'.summary = [shown |-> TRUE, list |-> form'.errors]
                /\ form'.errors \subseteq form'.inError]_vars

Undecided ==
  /\ sent = "no" /\ form.formSubmitted
  /\ form.pendingRequest > 0 /\ form.lost = {}

LeftAlone == value' = value /\ form'.orphans \subseteq form.orphans

\* Once the user no longer edits or resets the form, a submit that is held is
\* sent, refused or found wrong, as long as no request is lost.
HeldSubmitIsDecided == <>[][LeftAlone]_vars => (Undecided ~> ~Undecided)
=============================================================================
