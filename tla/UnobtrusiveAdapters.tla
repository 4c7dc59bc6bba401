------------------------ MODULE UnobtrusiveAdapters ------------------------
(***************************************************************************)
(* How jquery.validate.unobtrusive.js turns the data-val-* attributes of   *)
(* an element into rules of jQuery Validate, and what these rules accept.  *)
(*                                                                         *)
(* An element is a record: its name as the sequence of its segments        *)
(* ("Form.Email" is <<"Form", "Email">>), whether it is a checkbox, and    *)
(* val, which gives for every data-val-<adapter> attribute the parameters  *)
(* found in data-val-<adapter>-<parameter>.  A value is a record of what   *)
(* the rules look at: its length, its characters that are no word          *)
(* characters, its number, its place in JavaScript's order of texts, and   *)
(* the formats and patterns it matches (is); it is a "numeral" if          *)
(* JavaScript converts it to its number.  The bounds of a range are texts  *)
(* too: records of their number and order.  Messages are left out.         *)
(*                                                                         *)
(* An adapter writes its rules one after the other into the rules object   *)
(* of the element; Adapt gives them as a function from rule names to       *)
(* parameters.  The object they end in is a function from rule names to    *)
(* the parameter written last and the place (at) JavaScript lists the name *)
(* at, which is where it was written first.                                *)
(***************************************************************************)
EXTENDS Integers, SequencesExt

CONSTANT Methods     \* names of the validation methods the page's scripts define

\* This script and jQuery Validate define these; setValidationValues writes
\* "undefined" for a rule name it is not given.
ASSUME MethodsAssumption ==
  /\ {"__dummy__", "minlength", "nonalphamin", "regex"} \subseteq Methods
  /\ "undefined" \notin Methods

SetValidationValues(ruleName, value) == [n \in {ruleName} |-> value]

GetModelPrefix(fieldName) == Front(fieldName)

\* "*.Other" names a field next to the element, anything else is a full name.
AppendModelPrefix(value, prefix) ==
  IF Head(value) = "*" THEN prefix \o Tail(value) ELSE value

-----------------------------------------------------------------------------
(* The adapters, by the rules they write.                                  *)

NoRule == [n \in {} |-> TRUE]

AddBool(ruleName) == SetValidationValues(ruleName, TRUE)

\* An adapter made by addMinMax reads min and max, whatever attributes it was
\* given.  It hands on the texts of the attributes.
AddMinMax(params, minRuleName, maxRuleName, minMaxRuleName) ==
  CASE {"min", "max"} \subseteq DOMAIN params ->
         SetValidationValues(minMaxRuleName, <<params["min"], params["max"]>>)
    [] "min" \in DOMAIN params /\ "max" \notin DOMAIN params ->
         SetValidationValues(minRuleName, params["min"])
    [] "max" \in DOMAIN params /\ "min" \notin DOMAIN params ->
         SetValidationValues(maxRuleName, params["max"])
    [] OTHER -> NoRule

AddSingleVal(params, attribute, ruleName) == SetValidationValues(ruleName, params[attribute])

\* The adapter looks for the field of this name in the form; LocalRules says what
\* becomes of a rule whose field is not there.
EqualTo(params, element) ==
  SetValidationValues("equalTo", AppendModelPrefix(params["other"], GetModelPrefix(element.name)))

\* (mutant of Required: checkboxes become mandatory)
RequiredOfAll(element) == SetValidationValues("required", TRUE)

\* jQuery Validate would make a checkbox mandatory that is only not null.
Required(element) ==
  IF element.checkbox THEN NoRule ELSE SetValidationValues("required", TRUE)

\* The rule's parameter: the fields whose values are sent with the question.
Remote(params, element) ==
  LET names == IF "additionalfields" \in DOMAIN params
               THEN params["additionalfields"] ELSE {element.name}
  IN  SetValidationValues("remote",
                          {AppendModelPrefix(n, GetModelPrefix(element.name)) : n \in names})

\* Each parameter of the password adapter has a rule of its own.
Password(params) ==
  LET ruleOf == [minlength |-> "min", nonalphamin |-> "nonalphamin", regex |-> "regex"]
  IN  [n \in {m \in DOMAIN ruleOf : ruleOf[m] \in DOMAIN params} |-> params[ruleOf[n]]]

BoolAdapters == {"creditcard", "date", "digits", "email", "number", "url"}

Adapt(adapter, element) ==
  LET params == element.val[adapter]
  IN  CASE adapter \in BoolAdapters -> AddBool(adapter)
        [] adapter = "accept" -> AddSingleVal(params, "mimtype", "accept")
        [] adapter = "extension" ->
             AddSingleVal(params, "extension",
                          IF "extension" \in Methods THEN "extension" ELSE "accept")
        [] adapter = "regex" -> AddSingleVal(params, "pattern", "regex")
        [] adapter = "length" -> AddMinMax(params, "minlength", "maxlength", "rangelength")
        [] adapter = "range" -> AddMinMax(params, "min", "max", "range")
        [] adapter = "minlength" -> AddMinMax(params, "minlength", "undefined", "undefined")
        [] adapter = "maxlength" -> AddMinMax(params, "minlength", "maxlength", "undefined")
        [] adapter = "equalto" -> EqualTo(params, element)
        [] adapter = "required" -> Required(element)
        [] adapter = "remote" -> Remote(params, element)
        [] adapter = "password" -> Password(params)
        [] adapter = "fileextensions" -> AddSingleVal(params, "extensions", "extension")

\* The order of registration, which is the order in which they adapt.
Adapters ==
  <<"accept", "extension", "regex", "creditcard", "date", "digits", "email", "number", "url",
    "length", "range", "minlength", "maxlength",
    "equalto", "required", "remote", "password", "fileextensions">>

\* Without a method for extensions, types are not looked at.
Registered(adapter) == adapter = "accept" => "extension" \in Methods

\* The attributes of an element that are looked at, by their places in Adapters,
\* and those of them that write the rule n.
Given(element) ==
  {i \in DOMAIN Adapters : Adapters[i] \in DOMAIN element.val /\ Registered(Adapters[i])}

Writers(element, n) == {i \in Given(element) : n \in DOMAIN Adapt(Adapters[i], element)}

\* The rules of an element.  __dummy__ keeps a field with no other rule in the
\* form's checks.
ParseElement(element) ==
  LET names == UNION {DOMAIN Adapt(Adapters[i], element) : i \in Given(element)}
  IN  [n \in names \union {"__dummy__"} |->
         IF n \in names
         THEN [at |-> Min(Writers(element, n)),
               value |-> Adapt(Adapters[Max(Writers(element, n))], element)[n]]
         ELSE [at |-> Len(Adapters) + 1, value |-> TRUE]]

-----------------------------------------------------------------------------
(* What jQuery Validate makes of the rules.                                *)

\* The rules of an element that was parsed when the fields there were in the form.
\* equalTo without its field has no parameter, and a rule without one is dropped
\* as the rules are merged.  Required is asked first.  Remote, asked last, is not
\* decided here.
LocalRules(rules, there) ==
  [n \in {m \in DOMAIN rules \ {"remote"} : m = "equalTo" => rules[m].value \in there} |->
     IF n = "required" THEN [rules[n] EXCEPT !.at = 0] ELSE rules[n]]

SentAlong(rules) == IF "remote" \in DOMAIN rules THEN rules["remote"].value ELSE {}

Optional(v) == v.length = 0

\* The answer of method n with parameter x to the value v, all values of the form
\* being vals; __dummy__, regex and nonalphamin are methods of the unobtrusive script.
\* The bounds of a range are converted to numbers, and the value with them; min and
\* max stay texts, and the value is compared with them as a text.
Passes(n, x, v, vals) ==
  CASE n = "__dummy__" -> TRUE
    [] n = "required" -> ~Optional(v)
    [] n = "minlength" -> Optional(v) \/ v.length >= x
    [] n = "maxlength" -> Optional(v) \/ v.length <= x
    [] n = "rangelength" -> Optional(v) \/ (v.length >= x[1] /\ v.length <= x[2])
    [] n = "range" ->
         Optional(v) \/ ("numeral" \in v.is /\ v.number >= x[1].number
                                           /\ v.number <= x[2].number)
    [] n = "min" -> Optional(v) \/ v.order >= x.order
    [] n = "max" -> Optional(v) \/ v.order <= x.order
    [] n \in {"regex", "accept", "extension"} -> Optional(v) \/ x \in v.is
    [] n = "nonalphamin" -> v.nonWord > 0 /\ v.nonWord >= x
    [] n = "equalTo" -> v = vals[x]
    [] OTHER -> Optional(v) \/ n \in v.is

\* Where the method of a rule is missing the call itself throws.
Missing(n) == n \notin Methods
=============================================================================
