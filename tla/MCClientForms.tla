--------------------------- MODULE MCClientForms ---------------------------
(***************************************************************************)
(* Small instances of ClientForms: a form with two fields on pages that    *)
(* differ in their attributes.                                             *)
(***************************************************************************)
EXTENDS ClientForms

Email == <<"Form", "Email">>
Name == <<"Form", "Name">>
MCField == {Email, Name}

\* Nothing, "07" and "a@b.c".  The texts "1", "5" and "9" of bounds come between
\* the last two.
none == [length |-> 0, nonWord |-> 0, number |-> 0, order |-> 0, is |-> {}]
code == [length |-> 2, nonWord |-> 0, number |-> 7, order |-> 1,
         is |-> {"number", "numeral", "digits", "short"}]
mail == [length |-> 5, nonWord |-> 2, number |-> 0, order |-> 5, is |-> {"email"}]
MCValue == {none, code, mail}

\* The methods of jquery.validate.js, the only script linked beside this one,
\* with those the script adds.
MCMethods ==
  {"required", "email", "url", "date", "dateISO", "number", "digits", "minlength",
   "maxlength", "rangelength", "min", "max", "range", "step", "equalTo", "remote",
   "__dummy__", "regex", "nonalphamin"}

\* The server takes the address whenever it is an address.
MCAccepted == {q \in {<<Email, h>> : h \in UNION {[D -> MCValue] : D \in SUBSET MCField}} :
                 Email \in DOMAIN q[2] /\ q[2][Email] = mail}

Nothing == << >>
With(a, params) == [x \in {a} |-> params]
Both(v, w) == [x \in DOMAIN v \union DOMAIN w |-> IF x \in DOMAIN v THEN v[x] ELSE w[x]]
Param(p, x) == [y \in {p} |-> x]

one == [number |-> 1, order |-> 2]
five == [number |-> 5, order |-> 3]
nine == [number |-> 9, order |-> 4]

Elems(email, name) ==
  [f \in MCField |-> [name |-> f, checkbox |-> FALSE, val |-> IF f = Email THEN email ELSE name]]

\* A page where everything may be typed, loaded for the first time.
PageOf(elements) ==
  [elements |-> elements, replace |-> MCField, late |-> {}, redisplayed |-> {},
   initial |-> [f \in MCField |-> none], typed |-> [f \in MCField |-> MCValue]]

Required_ == With("required", Nothing)
RemoteWithName == With("remote", Param("additionalfields", {<<"*", "Email">>, <<"*", "Name">>}))

\* A remote rule that also sends the name, which is required.
Asking ==
  [PageOf(Elems(RemoteWithName, Required_)) EXCEPT
     !.typed = [f \in MCField |-> IF f = Email THEN {code, mail} ELSE {none, code}]]

\* Two remote rules.
AskingTwice ==
  [PageOf(Elems(Both(Required_, With("remote", Nothing)), With("remote", Nothing))) EXCEPT
     !.initial = [f \in MCField |-> code],
     !.typed = [f \in MCField |-> IF f = Email THEN {mail} ELSE {code}]]

\* A second address has to match; the first is redisplayed with an error.
Comparing ==
  [PageOf(Elems(Both(Required_, Both(With("email", Nothing),
                                     With("length", Both(Param("min", 3), Param("max", 9))))),
                With("equalto", Param("other", <<"*", "Email">>)))) EXCEPT
     !.redisplayed = {Email}, !.replace = {Name}]

Lengths == PageOf(Elems(Both(With("minlength", Param("min", 3)), With("maxlength", Param("max", 4))),
                        With("range", Both(Param("min", one), Param("max", nine)))))

\* A least and a greatest number: "07" is refused for the first although 7 is more
\* than 5, and "a@b.c" accepted.
HalfOpen == PageOf(Elems(With("range", Param("min", five)), With("range", Param("max", nine))))

\* Two attributes write the rule maxlength.
Overriding == PageOf(Elems(Both(With("length", Param("max", 4)), With("maxlength", Param("max", 5))),
                           With("regex", Param("pattern", "short"))))

\* A password, and a box that may not be ticked with the value it has.
Passwords ==
  [PageOf([Elems(With("password", Both(Param("min", 3), Both(Param("nonalphamin", 1),
                                                               Param("regex", "email")))),
                 Both(Required_, With("regex", Param("pattern", "long")))) EXCEPT
                   ![Name].checkbox = TRUE]) EXCEPT
     !.typed = [f \in MCField |-> IF f = Email THEN MCValue ELSE {none, code}]]

\* [FileExtensions] and data-val-extension make rules without a method here.
Files == PageOf(Elems(Both(Required_, With("fileextensions", Param("extensions", "png"))),
                      With("digits", Nothing)))

\* The name is inserted and parsed after the page was loaded; on the second page
\* it is the only annotated element.
Inserting == [PageOf(Elems(Required_, Required_)) EXCEPT !.late = {Name}]
InsertingAll == [PageOf(Elems(Nothing, Required_)) EXCEPT !.late = {Name}]

\* The element to compare with is not there when the comparison is parsed.
ComparingLate ==
  [PageOf(Elems(Required_, Both(Required_, With("equalto", Param("other", <<"*", "Email">>)))))
     EXCEPT !.late = {Email}]

MCPages ==
  [asking |-> Asking, askingTwice |-> AskingTwice, comparing |-> Comparing,
   lengths |-> Lengths, overriding |-> Overriding, passwords |-> Passwords,
   halfOpen |-> HalfOpen, comparingLate |-> ComparingLate,
   files |-> Files, inserting |-> Inserting, insertingAll |-> InsertingAll]
=============================================================================
