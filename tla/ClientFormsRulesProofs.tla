----------------------- MODULE ClientFormsRulesProofs -----------------------
(***************************************************************************)
(* The rules a form is checked by mean what the attributes of its elements *)
(* say, for any page whose attributes are as ASP.NET writes them.          *)
(***************************************************************************)
EXTENDS ClientFormsProofs, UnobtrusiveAdaptersProofs

\* A rule holds of f, or is the one an empty field does not meet.
Holds(f, n, x) ==
  \/ Passes(n, x, value[f], value)
  \/ n = "nonalphamin" /\ Optional(value[f])

\* An element has the attribute of this adapter.
Has(f, a) == a \in AdapterNames /\ a \in DOMAIN Page.elements[f].val

\* What the adapter writes for f.
Written(a, f) == Adapt(a, Page.elements[f])

LEMMA ElementsAreSound ==
  ASSUME NEW f \in Field, TypeOK
  PROVE  LET val == Page.elements[f].val IN
         /\ Page.elements[f].name = f
         /\ value[f] \in Value /\ value[f].nonWord \in Nat
         /\ "range" \in DOMAIN val =>
              "min" \in DOMAIN val["range"] \/ "max" \in DOMAIN val["range"]
         /\ "equalto" \in DOMAIN val =>
              AppendModelPrefix(val["equalto"]["other"], GetModelPrefix(f)) \in Field
         /\ "password" \in DOMAIN val /\ "nonalphamin" \in DOMAIN val["password"] =>
              val["password"]["nonalphamin"] \in Nat \ {0}
  BY AttributesAssumption DEF TypeOK, Page

\* What the rules an adapter writes accept, for each adapter: Means relates them
\* to the attribute.  A rule named "undefined" has no method.
Means(f, a) ==
  /\ Meets(f, a) => \A n \in DOMAIN Written(a, f) \ {"remote", "undefined"} :
                      Holds(f, n, Written(a, f)[n])
  /\ (\A n \in DOMAIN Written(a, f) \ {"remote"} :
         n # "undefined" /\ Passes(n, Written(a, f)[n], value[f], value))
     => Meets(f, a)

\* One rule means the attribute, or its name is "undefined".
LEMMA OneRuleMeans ==
  ASSUME NEW f, NEW a, NEW n, NEW x, Written(a, f) = SetValidationValues(n, x),
         n # "__dummy__", n # "remote",
         n # "undefined" => (Meets(f, a) <=> Passes(n, x, value[f], value))
  PROVE  Means(f, a) /\ "__dummy__" \notin DOMAIN Written(a, f)
<1>1. DOMAIN Written(a, f) = {n} /\ Written(a, f)[n] = x
  BY DEF SetValidationValues
<1> QED
  BY <1>1 DEF Means, Holds

LEMMA NoRuleMeans ==
  ASSUME NEW f, NEW a, Written(a, f) = NoRule, Meets(f, a)
  PROVE  Means(f, a) /\ "__dummy__" \notin DOMAIN Written(a, f)
<1>1. DOMAIN Written(a, f) = {}
  BY DEF NoRule
<1> QED
  BY <1>1 DEF Means

LEMMA BoolAdaptersMean ==
  ASSUME NEW f \in Field, NEW a \in BoolAdapters
  PROVE  Means(f, a) /\ "__dummy__" \notin DOMAIN Written(a, f)
<1>1. Written(a, f) = SetValidationValues(a, TRUE)
  BY DEF Written, Adapt, AddBool, BoolAdapters
<1>2. Meets(f, a) <=> Passes(a, TRUE, value[f], value)
  BY DEF Passes, Meets, BoolAdapters
<1> QED
  BY <1>1, <1>2, OneRuleMeans DEF BoolAdapters

LEMMA SingleValAdaptersMean ==
  ASSUME NEW f \in Field, NEW a \in {"accept", "extension", "regex", "fileextensions"}
  PROVE  Means(f, a) /\ "__dummy__" \notin DOMAIN Written(a, f)
<1> DEFINE params == Page.elements[f].val[a]
           param == CASE a = "accept" -> "mimtype" [] a = "extension" -> "extension"
                      [] a = "regex" -> "pattern" [] a = "fileextensions" -> "extensions"
           rule == CASE a = "accept" -> "accept" [] a = "regex" -> "regex"
                     [] a = "extension" -> IF "extension" \in Methods THEN "extension" ELSE "accept"
                     [] a = "fileextensions" -> "extension"
<1>1. Written(a, f) = SetValidationValues(rule, params[param])
  BY DEF Written, Adapt, AddSingleVal, BoolAdapters
<1>2. rule \in {"accept", "regex", "extension"}
  OBVIOUS
<1>3. Passes(rule, params[param], value[f], value)
      <=> Optional(value[f]) \/ params[param] \in value[f].is
  BY <1>2 DEF Passes
<1>4. Meets(f, a) <=> Optional(value[f]) \/ params[param] \in value[f].is
  BY DEF Meets
<1> HIDE DEF rule, param, params
<1> QED
  BY <1>1, <1>2, <1>3, <1>4, OneRuleMeans

LEMMA RequiredMeans ==
  ASSUME NEW f \in Field
  PROVE  Means(f, "required") /\ "__dummy__" \notin DOMAIN Written("required", f)
<1>1. Written("required", f) =
        IF Page.elements[f].checkbox THEN NoRule ELSE SetValidationValues("required", TRUE)
  BY DEF Written, Adapt, Required, BoolAdapters
<1>2. Passes("required", TRUE, value[f], value) <=> ~Optional(value[f])
  BY DEF Passes
<1>3. Meets(f, "required") <=> Page.elements[f].checkbox \/ ~Optional(value[f])
  BY DEF Meets
<1>4. CASE Page.elements[f].checkbox
  BY <1>1, <1>3, <1>4, NoRuleMeans
<1>5. CASE ~Page.elements[f].checkbox
  BY <1>1, <1>2, <1>3, <1>5, OneRuleMeans
<1> QED
  BY <1>4, <1>5

LEMMA RemoteMeans ==
  ASSUME NEW f \in Field
  PROVE  Means(f, "remote") /\ "__dummy__" \notin DOMAIN Written("remote", f)
<1>1. DOMAIN Written("remote", f) = {"remote"}
  BY DEF Written, Adapt, Remote, SetValidationValues, BoolAdapters
<1>2. Meets(f, "remote")
  BY DEF Meets
<1> QED
  BY <1>1, <1>2 DEF Means

LEMMA EqualToMeans ==
  ASSUME NEW f \in Field, TypeOK, Has(f, "equalto")
  PROVE  Means(f, "equalto") /\ "__dummy__" \notin DOMAIN Written("equalto", f)
<1> DEFINE other == AppendModelPrefix(Page.elements[f].val["equalto"]["other"],
                                      GetModelPrefix(f))
<1>1. other \in Field /\ Page.elements[f].name = f
  BY ElementsAreSound DEF Has
<1>2. Written("equalto", f) = SetValidationValues("equalTo", other)
  BY <1>1 DEF Written, Adapt, EqualTo, BoolAdapters
<1>3. Passes("equalTo", other, value[f], value) <=> value[f] = value[other]
  BY DEF Passes
<1>4. Meets(f, "equalto") <=> \E g \in Field : g = other /\ value[f] = value[g]
  BY DEF Meets
<1> HIDE DEF other
<1> QED
  BY <1>1, <1>2, <1>3, <1>4, OneRuleMeans

LEMMA LengthAdaptersMean ==
  ASSUME NEW f \in Field, NEW a \in {"length", "minlength", "maxlength"}
  PROVE  Means(f, a) /\ "__dummy__" \notin DOMAIN Written(a, f)
<1> DEFINE params == Page.elements[f].val[a]
           v == value[f]
           maxRule == IF a = "minlength" THEN "undefined" ELSE "maxlength"
           both == IF a = "length" THEN "rangelength" ELSE "undefined"
<1>1. Written(a, f) = AddMinMax(params, "minlength", maxRule, both)
  BY DEF Written, Adapt, BoolAdapters
<1>2. Meets(f, a) <=>
        \/ Optional(v)
        \/ /\ "min" \in DOMAIN params => v.length >= params["min"]
           /\ "max" \in DOMAIN params => v.length <= params["max"]
  BY DEF Meets
<1>3. \A x, y :
        /\ Passes("minlength", x, v, value) <=> Optional(v) \/ v.length >= x
        /\ Passes("maxlength", x, v, value) <=> Optional(v) \/ v.length <= x
        /\ Passes("rangelength", <<x, y>>, v, value)
             <=> Optional(v) \/ (v.length >= x /\ v.length <= y)
  BY DEF Passes
<1>4. maxRule \in {"maxlength", "undefined"} /\ both \in {"rangelength", "undefined"}
  OBVIOUS
<1> HIDE DEF params, maxRule, both
<1>5. CASE "min" \in DOMAIN params /\ "max" \in DOMAIN params
  <2>1. Written(a, f) = SetValidationValues(both, <<params["min"], params["max"]>>)
    BY <1>1, <1>5, MinMaxWrites
  <2>2. both = "rangelength" =>
          (Meets(f, a) <=> Passes(both, <<params["min"], params["max"]>>, v, value))
    BY <1>2, <1>3, <1>5
  <2> QED
    BY <1>4, <2>1, <2>2, OneRuleMeans
<1>6. CASE "min" \in DOMAIN params /\ "max" \notin DOMAIN params
  <2>1. Written(a, f) = SetValidationValues("minlength", params["min"])
    BY <1>1, <1>6, MinMaxWrites
  <2>2. Meets(f, a) <=> Passes("minlength", params["min"], v, value)
    BY <1>2, <1>3, <1>6
  <2> QED
    BY <2>1, <2>2, OneRuleMeans
<1>7. CASE "min" \notin DOMAIN params /\ "max" \in DOMAIN params
  <2>1. Written(a, f) = SetValidationValues(maxRule, params["max"])
    BY <1>1, <1>7, MinMaxWrites
  <2>2. maxRule = "maxlength" => (Meets(f, a) <=> Passes(maxRule, params["max"], v, value))
    BY <1>2, <1>3, <1>7
  <2> QED
    BY <1>4, <2>1, <2>2, OneRuleMeans
<1>8. CASE "min" \notin DOMAIN params /\ "max" \notin DOMAIN params
  BY <1>1, <1>2, <1>8, MinMaxWrites, NoRuleMeans
<1> QED
  BY <1>5, <1>6, <1>7, <1>8

\* A range of two bounds means its attribute; a range of one, which hands its
\* bound on as a text, does where the order of texts is that of the numbers.
LEMMA RangeMeans ==
  ASSUME NEW f \in Field, TypeOK, Has(f, "range")
  PROVE  /\ Means(f, "range") \/ TextsMislead(f)
         /\ "__dummy__" \notin DOMAIN Written("range", f)
<1> DEFINE params == Page.elements[f].val["range"]
           v == value[f]
           AtLeast == "numeral" \in v.is /\ v.number >= params["min"].number
           AtMost == "numeral" \in v.is /\ v.number <= params["max"].number
<1>1. Written("range", f) = AddMinMax(params, "min", "max", "range")
  BY DEF Written, Adapt, BoolAdapters
<1>2. Meets(f, "range") <=>
        \/ Optional(v)
        \/ /\ "numeral" \in v.is
           /\ "min" \in DOMAIN params => v.number >= params["min"].number
           /\ "max" \in DOMAIN params => v.number <= params["max"].number
  BY DEF Meets
<1>3. /\ \A x : Passes("min", x, v, value) <=> Optional(v) \/ v.order >= x.order
      /\ \A x : Passes("max", x, v, value) <=> Optional(v) \/ v.order <= x.order
      /\ \A x, y : Passes("range", <<x, y>>, v, value)
           <=> Optional(v) \/ ("numeral" \in v.is /\ v.number >= x.number
                                                 /\ v.number <= y.number)
  BY DEF Passes
<1>4. /\ "range" \in DOMAIN Page.elements[f].val
      /\ "min" \in DOMAIN params \/ "max" \in DOMAIN params
  BY ElementsAreSound DEF Has
<1>5. TextsMislead(f) <=>
        /\ ~Optional(v)
        /\ \/ "max" \notin DOMAIN params /\ ~(v.order >= params["min"].order <=> AtLeast)
           \/ "min" \notin DOMAIN params /\ ~(v.order <= params["max"].order <=> AtMost)
  BY <1>4 DEF TextsMislead
<1> HIDE DEF params, v
<1>6. CASE "min" \in DOMAIN params /\ "max" \in DOMAIN params
  <2>1. Written("range", f) = SetValidationValues("range", <<params["min"], params["max"]>>)
    BY <1>1, <1>6, MinMaxWrites
  <2>2. Meets(f, "range") <=> Passes("range", <<params["min"], params["max"]>>, v, value)
    BY <1>2, <1>3, <1>6
  <2> QED
    BY <2>1, <2>2, OneRuleMeans DEF v
<1>7. CASE "min" \in DOMAIN params /\ "max" \notin DOMAIN params
  <2>1. Written("range", f) = SetValidationValues("min", params["min"])
    BY <1>1, <1>7, MinMaxWrites
  <2>2. \/ TextsMislead(f)
        \/ Meets(f, "range") <=> Passes("min", params["min"], v, value)
    <3>1. Meets(f, "range") <=> Optional(v) \/ AtLeast
      BY <1>2, <1>7
    <3>2. TextsMislead(f) <=> ~Optional(v) /\ ~(v.order >= params["min"].order <=> AtLeast)
      BY <1>5, <1>7
    <3>3. Passes("min", params["min"], v, value) <=>
            Optional(v) \/ v.order >= params["min"].order
      BY <1>3
    <3> HIDE DEF AtLeast
    <3> QED
      BY <3>1, <3>2, <3>3
  <2>3. "__dummy__" \notin DOMAIN Written("range", f)
    BY <2>1 DEF SetValidationValues
  <2> QED
    BY <2>1, <2>2, <2>3, OneRuleMeans DEF v
<1>8. CASE "min" \notin DOMAIN params /\ "max" \in DOMAIN params
  <2>1. Written("range", f) = SetValidationValues("max", params["max"])
    BY <1>1, <1>8, MinMaxWrites
  <2>2. \/ TextsMislead(f)
        \/ Meets(f, "range") <=> Passes("max", params["max"], v, value)
    <3>1. Meets(f, "range") <=> Optional(v) \/ AtMost
      BY <1>2, <1>8
    <3>2. TextsMislead(f) <=> ~Optional(v) /\ ~(v.order <= params["max"].order <=> AtMost)
      BY <1>5, <1>8
    <3>3. Passes("max", params["max"], v, value) <=>
            Optional(v) \/ v.order <= params["max"].order
      BY <1>3
    <3> HIDE DEF AtMost
    <3> QED
      BY <3>1, <3>2, <3>3
  <2>3. "__dummy__" \notin DOMAIN Written("range", f)
    BY <2>1 DEF SetValidationValues
  <2> QED
    BY <2>1, <2>2, <2>3, OneRuleMeans DEF v
<1> QED
  BY <1>4, <1>6, <1>7, <1>8

LEMMA PasswordMeans ==
  ASSUME NEW f \in Field, TypeOK, Has(f, "password")
  PROVE  Means(f, "password") /\ "__dummy__" \notin DOMAIN Written("password", f)
<1> DEFINE params == Page.elements[f].val["password"]
           v == value[f]
           w == Written("password", f)
<1>1. w = Password(params)
  BY DEF Written, Adapt, BoolAdapters
<1>2. /\ DOMAIN w \subseteq {"minlength", "nonalphamin", "regex"}
      /\ "minlength" \in DOMAIN w <=> "min" \in DOMAIN params
      /\ "nonalphamin" \in DOMAIN w <=> "nonalphamin" \in DOMAIN params
      /\ "regex" \in DOMAIN w <=> "regex" \in DOMAIN params
      /\ "min" \in DOMAIN params => w["minlength"] = params["min"]
      /\ "nonalphamin" \in DOMAIN params => w["nonalphamin"] = params["nonalphamin"]
      /\ "regex" \in DOMAIN params => w["regex"] = params["regex"]
  <2> HIDE DEF params, w
  <2> QED
    BY <1>1 DEF Password
<1>3. Meets(f, "password") <=>
        \/ Optional(v)
        \/ /\ "min" \in DOMAIN params => v.length >= params["min"]
           /\ "nonalphamin" \in DOMAIN params => v.nonWord >= params["nonalphamin"]
           /\ "regex" \in DOMAIN params => params["regex"] \in v.is
  BY DEF Meets
<1>4. \A x :
        /\ Passes("minlength", x, v, value) <=> Optional(v) \/ v.length >= x
        /\ Passes("nonalphamin", x, v, value) <=> v.nonWord > 0 /\ v.nonWord >= x
        /\ Passes("regex", x, v, value) <=> Optional(v) \/ x \in v.is
  BY DEF Passes
<1>5. /\ v.nonWord \in Nat
      /\ "nonalphamin" \in DOMAIN params => params["nonalphamin"] \in Nat \ {0}
  BY ElementsAreSound DEF Has
<1> HIDE DEF params, v, w
<1>6. "__dummy__" \notin DOMAIN w
  BY <1>2
<1>7. ASSUME Meets(f, "password"), NEW n \in DOMAIN w
      PROVE  Passes(n, w[n], v, value) \/ (n = "nonalphamin" /\ Optional(v))
  <2>1. CASE n = "minlength"
    BY <1>2, <1>3, <1>4, <1>7, <2>1
  <2>2. CASE n = "nonalphamin"
    BY <1>2, <1>3, <1>4, <1>5, <1>7, <2>2
  <2>3. CASE n = "regex"
    BY <1>2, <1>3, <1>4, <1>7, <2>3
  <2> QED
    BY <1>2, <2>1, <2>2, <2>3
<1>8. ASSUME \A n \in DOMAIN w \ {"remote"} : Passes(n, w[n], v, value)
      PROVE  Meets(f, "password")
  <2>1. \A n \in DOMAIN w : n # "remote"
    BY <1>2
  <2>2. "min" \in DOMAIN params => Optional(v) \/ v.length >= params["min"]
    BY <1>2, <1>4, <1>8, <2>1
  <2>3. "nonalphamin" \in DOMAIN params => v.nonWord >= params["nonalphamin"]
    BY <1>2, <1>4, <1>8, <2>1
  <2>4. "regex" \in DOMAIN params => Optional(v) \/ params["regex"] \in v.is
    BY <1>2, <1>4, <1>8, <2>1
  <2> QED
    BY <1>3, <2>2, <2>3, <2>4
<1> QED
  BY <1>6, <1>7, <1>8 DEF Means, Holds, v, w

LEMMA AdaptersMean ==
  ASSUME NEW f \in Field, TypeOK, NEW a, Has(f, a)
  PROVE  /\ Means(f, a) \/ (a = "range" /\ TextsMislead(f))
         /\ "__dummy__" \notin DOMAIN Written(a, f)
<1>1. \/ a \in BoolAdapters
      \/ a \in {"accept", "extension", "regex", "fileextensions"}
      \/ a \in {"length", "minlength", "maxlength"}
      \/ a \in {"required", "remote", "equalto", "range", "password"}
  BY DEF Has, AdapterNames, BoolAdapters
<1>2. CASE a \in {"required", "remote", "equalto", "range", "password"}
  BY <1>2, RequiredMeans, RemoteMeans, EqualToMeans, RangeMeans, PasswordMeans
<1> QED
  BY <1>1, <1>2, BoolAdaptersMean, SingleValAdaptersMean, LengthAdaptersMean

\* One adapter alone compares fields.
LEMMA OneAdapterCompares ==
  ASSUME NEW f \in Field, NEW a \in AdapterNames, "equalTo" \in DOMAIN Written(a, f)
  PROVE  /\ a = "equalto"
         /\ Written(a, f)["equalTo"] =
              AppendModelPrefix(Page.elements[f].val["equalto"]["other"],
                                GetModelPrefix(Page.elements[f].name))
<1> DEFINE params == Page.elements[f].val[a]
<1>1. CASE a \in BoolAdapters
  <2>1. Written(a, f) = SetValidationValues(a, TRUE)
    BY <1>1 DEF Written, Adapt, AddBool, BoolAdapters
  <2>2. DOMAIN Written(a, f) = {a}
    BY <2>1 DEF SetValidationValues
  <2> QED
    BY <1>1, <2>2 DEF BoolAdapters
<1>2. CASE a \in {"accept", "extension", "regex", "fileextensions"}
  <2> DEFINE n == CASE a = "accept" -> "accept" [] a = "regex" -> "regex"
                    [] a = "extension" ->
                         IF "extension" \in Methods THEN "extension" ELSE "accept"
                    [] a = "fileextensions" -> "extension"
             param == CASE a = "accept" -> "mimtype" [] a = "extension" -> "extension"
                        [] a = "regex" -> "pattern" [] a = "fileextensions" -> "extensions"
  <2>1. Written(a, f) = SetValidationValues(n, params[param])
    BY <1>2 DEF Written, Adapt, AddSingleVal, BoolAdapters
  <2>2. n # "equalTo"
    BY <1>2
  <2> HIDE DEF n, param, params
  <2>3. DOMAIN Written(a, f) = {n}
    BY <2>1 DEF SetValidationValues
  <2> QED
    BY <2>2, <2>3
<1>3. CASE a \in {"length", "range", "minlength", "maxlength"}
  <2> DEFINE lo == IF a = "range" THEN "min" ELSE "minlength"
             hi == IF a = "range" THEN "max" ELSE IF a = "minlength" THEN "undefined"
                   ELSE "maxlength"
             both == IF a = "range" THEN "range" ELSE IF a = "length" THEN "rangelength"
                     ELSE "undefined"
  <2>1. Written(a, f) = AddMinMax(params, lo, hi, both)
    BY <1>3 DEF Written, Adapt, BoolAdapters
  <2>2. "equalTo" # lo /\ "equalTo" # hi /\ "equalTo" # both
    OBVIOUS
  <2> HIDE DEF params, lo, hi, both
  <2>3. CASE "min" \in DOMAIN params /\ "max" \in DOMAIN params
    <3>1. Written(a, f) = SetValidationValues(both, <<params["min"], params["max"]>>)
      BY <2>1, <2>3, MinMaxWrites
    <3>2. DOMAIN Written(a, f) = {both}
      BY <3>1 DEF SetValidationValues
    <3> QED
      BY <2>2, <3>2
  <2>4. CASE "min" \in DOMAIN params /\ "max" \notin DOMAIN params
    <3>1. Written(a, f) = SetValidationValues(lo, params["min"])
      BY <2>1, <2>4, MinMaxWrites
    <3>2. DOMAIN Written(a, f) = {lo}
      BY <3>1 DEF SetValidationValues
    <3> QED
      BY <2>2, <3>2
  <2>5. CASE "min" \notin DOMAIN params /\ "max" \in DOMAIN params
    <3>1. Written(a, f) = SetValidationValues(hi, params["max"])
      BY <2>1, <2>5, MinMaxWrites
    <3>2. DOMAIN Written(a, f) = {hi}
      BY <3>1 DEF SetValidationValues
    <3> QED
      BY <2>2, <3>2
  <2>6. CASE "min" \notin DOMAIN params /\ "max" \notin DOMAIN params
    <3>1. Written(a, f) = NoRule
      BY <2>1, <2>6, MinMaxWrites
    <3>2. DOMAIN NoRule = {}
      BY DEF NoRule
    <3> QED
      BY <3>1, <3>2
  <2> QED
    BY <2>3, <2>4, <2>5, <2>6
<1>4. CASE a = "required"
  <2>1. Written(a, f) =
          IF Page.elements[f].checkbox THEN NoRule ELSE SetValidationValues("required", TRUE)
    BY <1>4 DEF Written, Adapt, Required, BoolAdapters
  <2>2. DOMAIN Written(a, f) \subseteq {"required"}
    <3>1. DOMAIN NoRule = {}
      BY DEF NoRule
    <3>2. CASE Page.elements[f].checkbox
      BY <2>1, <3>1, <3>2
    <3>3. CASE ~Page.elements[f].checkbox
      BY <2>1, <3>3 DEF SetValidationValues
    <3> QED
      BY <3>2, <3>3
  <2> QED
    BY <2>2
<1>5. CASE a = "remote"
  BY <1>5 DEF Written, Adapt, Remote, SetValidationValues, BoolAdapters
<1>6. CASE a = "password"
  <2>1. Written(a, f) = Password(params)
    BY <1>6 DEF Written, Adapt, BoolAdapters
  <2> HIDE DEF params
  <2> QED
    BY <2>1 DEF Password
<1>7. CASE a = "equalto"
  <2>1. Written(a, f) = EqualTo(params, Page.elements[f])
    BY <1>7 DEF Written, Adapt, BoolAdapters
  <2> QED
    BY <1>7, <2>1 DEF EqualTo, SetValidationValues
<1> QED
  BY <1>1, <1>2, <1>3, <1>4, <1>5, <1>6, <1>7 DEF AdapterNames, BoolAdapters

-----------------------------------------------------------------------------
(* The rules of an element.                                                *)

\* The rules s has for f are those of its attributes, made when the elements of
\* the loaded page were in the form, and perhaps some of the late ones.
ParsedIn(s, f) ==
  \E there \in SUBSET Field :
    Field \ Page.late \subseteq there /\ s.rules[f] = LocalRules(Parsed(f), there)

\* What the form checks f by, when it was parsed.
LEMMA ParsedRules ==
  ASSUME NEW f \in Field, TypeOK, NEW s, ParsedIn(s, f)
  PROVE  LET element == Page.elements[f] IN
         /\ \A i \in Given(element) :
              /\ Has(f, Adapters[i])
              /\ \/ DOMAIN Written(Adapters[i], f) \ {"remote"} \subseteq DOMAIN s.rules[f]
                 \/ Adapters[i] = "equalto" /\ TargetIsLate(f)
         /\ \A n \in DOMAIN s.rules[f] \ {"__dummy__"} : \E i \in Given(element) :
              /\ n \in DOMAIN Written(Adapters[i], f) \ {"remote"}
              /\ s.rules[f][n].value = Written(Adapters[i], f)[n]
         /\ ~Overridden(f) =>
              \A i \in Given(element) :
                \A n \in DOMAIN Written(Adapters[i], f) \intersect DOMAIN s.rules[f] :
                  s.rules[f][n].value = Written(Adapters[i], f)[n]
<1> DEFINE element == Page.elements[f]
           all == ParseElement(element)
<1>1. PICK there \in SUBSET Field :
        Field \ Page.late \subseteq there /\ s.rules[f] = LocalRules(all, there)
  BY DEF ParsedIn, Parsed
<1>2. /\ DOMAIN s.rules[f] \subseteq DOMAIN all \ {"remote"}
      /\ \A n \in DOMAIN all \ {"remote"} :
           n \in DOMAIN s.rules[f] \/ (n = "equalTo" /\ all[n].value \notin there)
      /\ \A n \in DOMAIN s.rules[f] : s.rules[f][n].value = all[n].value
  <2>1. \A n \in DOMAIN all : DOMAIN all[n] = {"at", "value"}
    BY RulesAreWritten
  <2> HIDE DEF all
  <2> QED
    BY <1>1, <2>1, LocalRulesKeep
<1>3. \A i \in Given(element) : Has(f, Adapters[i])
  BY AdaptersAreNamed DEF Given, Has
<1>4. \A i \in Given(element) : DOMAIN Written(Adapters[i], f) \subseteq DOMAIN all
  BY RulesAreWritten DEF Written
<1>5. \A n \in DOMAIN all \ {"__dummy__"} : \E i \in Given(element) :
         /\ n \in DOMAIN Written(Adapters[i], f)
         /\ all[n].value = Written(Adapters[i], f)[n]
  BY RulesAreWritten DEF Written
<1>6. ASSUME ~Overridden(f), NEW i \in Given(element), NEW n \in DOMAIN Written(Adapters[i], f)
      PROVE  all[n].value = Written(Adapters[i], f)[n]
  <2>1. Apart(element)
    BY <1>6 DEF Overridden, Apart
  <2>2. n # "__dummy__"
    BY <1>3, <1>6, AdaptersMean
  <2> QED
    BY <1>6, <2>1, <2>2, ApartRulesAreKept DEF Written
<1>7. ASSUME NEW i \in Given(element), NEW n \in DOMAIN Written(Adapters[i], f) \ {"remote"},
             n \notin DOMAIN s.rules[f]
      PROVE  Adapters[i] = "equalto" /\ TargetIsLate(f)
  <2> DEFINE other == AppendModelPrefix(Page.elements[f].val["equalto"]["other"],
                                        GetModelPrefix(f))
  <2>1. n = "equalTo" /\ n \in DOMAIN all /\ all[n].value \notin there
    BY <1>2, <1>4, <1>7
  <2>2. Has(f, Adapters[i])
    BY <1>3, <1>7
  <2>3. Adapters[i] = "equalto"
    BY <1>7, <2>1, <2>2, OneAdapterCompares DEF Has
  <2>4. other \in Field /\ Page.elements[f].name = f
    BY <2>2, <2>3, ElementsAreSound DEF Has
  <2>5. PICK j \in Given(element) :
          "equalTo" \in DOMAIN Written(Adapters[j], f)
          /\ all["equalTo"].value = Written(Adapters[j], f)["equalTo"]
    BY <1>5, <2>1
  <2>6. Adapters[j] \in AdapterNames
    BY <1>3 DEF Has
  <2>7. all["equalTo"].value = other
    BY <2>4, <2>5, <2>6, OneAdapterCompares
  <2> HIDE DEF other, all
  <2>8. other \in Page.late
    BY <1>1, <2>1, <2>4, <2>7
  <2> QED
    BY <2>2, <2>3, <2>8 DEF TargetIsLate, Has, other
<1> HIDE DEF element, all
<1>8. \A n \in DOMAIN s.rules[f] \ {"__dummy__"} : \E i \in Given(element) :
         /\ n \in DOMAIN Written(Adapters[i], f) \ {"remote"}
         /\ s.rules[f][n].value = Written(Adapters[i], f)[n]
  BY <1>2, <1>5
<1>9. ~Overridden(f) =>
        \A i \in Given(element) :
          \A n \in DOMAIN Written(Adapters[i], f) \intersect DOMAIN s.rules[f] :
            s.rules[f][n].value = Written(Adapters[i], f)[n]
  BY <1>2, <1>6
<1> QED
  BY <1>3, <1>7, <1>8, <1>9 DEF element

\* What an element's attributes accept its rules accept, and the other way round,
\* but for the exceptions RulesMeanAnnotations names.
LEMMA ParsedRulesMean ==
  ASSUME NEW f \in Field, TypeOK, NEW s, ParsedIn(s, f)
  PROVE  /\ Obeys(f) /\ DOMAIN s.rules[f] \subseteq Methods =>
              \/ Problems(s, f) = {}
              \/ Optional(value[f]) /\ "nonalphamin" \in DOMAIN s.rules[f]
              \/ TextsMislead(f)
         /\ Problems(s, f) = {} => ObeysRules(f) \/ Overridden(f)
<1> DEFINE element == Page.elements[f]
<1>1. ASSUME Obeys(f), DOMAIN s.rules[f] \subseteq Methods, ~TextsMislead(f),
             NEW n \in Problems(s, f)
      PROVE  n = "nonalphamin" /\ Optional(value[f]) /\ n \in DOMAIN s.rules[f]
  <2>1. /\ n \in DOMAIN s.rules[f] /\ n \in Methods
        /\ ~Passes(n, s.rules[f][n].value, value[f], value)
    BY <1>1 DEF Problems, Missing
  <2>2. n # "__dummy__" /\ n # "undefined"
    BY <2>1, MethodsAssumption DEF Passes
  <2>3. PICK i \in Given(element) :
          /\ n \in DOMAIN Written(Adapters[i], f) \ {"remote"}
          /\ s.rules[f][n].value = Written(Adapters[i], f)[n]
    BY <2>1, <2>2, ParsedRules
  <2>4. Means(f, Adapters[i])
    BY <1>1, ParsedRules, AdaptersMean
  <2>5. Meets(f, Adapters[i])
    BY <1>1 DEF Obeys
  <2> QED
    BY <2>1, <2>2, <2>3, <2>4, <2>5 DEF Means, Holds
<1>2. ASSUME Problems(s, f) = {}, ~Overridden(f), NEW i \in Given(element),
             ~Astray(f, Adapters[i])
      PROVE  Meets(f, Adapters[i])
  <2>1. ASSUME NEW n \in DOMAIN Written(Adapters[i], f) \ {"remote"}
        PROVE  n # "undefined" /\ Passes(n, Written(Adapters[i], f)[n], value[f], value)
    <3>1. n \in DOMAIN s.rules[f]
      BY <1>2, <2>1, ParsedRules DEF Astray
    <3>2. s.rules[f][n].value = Written(Adapters[i], f)[n]
      BY <1>2, <2>1, <3>1, ParsedRules
    <3>3. n \in Methods /\ Passes(n, s.rules[f][n].value, value[f], value)
      BY <1>2, <3>1 DEF Problems, Missing
    <3> QED
      BY <3>2, <3>3, MethodsAssumption
  <2>2. Means(f, Adapters[i])
    BY <1>2, ParsedRules, AdaptersMean DEF Astray
  <2> QED
    BY <2>1, <2>2 DEF Means
<1>3. Problems(s, f) = {} => ObeysRules(f) \/ Overridden(f)
  BY <1>2 DEF ObeysRules
<1>4. Obeys(f) /\ DOMAIN s.rules[f] \subseteq Methods =>
        \/ Problems(s, f) = {}
        \/ Optional(value[f]) /\ "nonalphamin" \in DOMAIN s.rules[f]
        \/ TextsMislead(f)
  BY <1>1
<1> QED
  BY <1>3, <1>4

-----------------------------------------------------------------------------
(* The rules of the form.                                                  *)

\* The elements of the page at load are in the form from the start, so the one
\* parse that attaches a validator gives it the rules of them all; nothing
\* touches the rules after it.  The script sends no form it is not attached to.
ParsedInv ==
  /\ Field \ Page.late \subseteq present
  /\ attached => \A f \in Field \ Page.late : Annotated(f) => ParsedIn(form, f)
  /\ sent \in {"click", "held"} => attached

\* A check of the whole form leaves the rules alone, and so does holding it.
LEMMA CheckFormRules ==
  ASSUME NEW s, DOMAIN s = FormNames, NEW held
  PROVE  /\ CheckForm(s).rules = s.rules
         /\ [CheckForm(s) EXCEPT !.formSubmitted = held].rules = s.rules
<1> DEFINE a == Ask(s, Waiting(s, Elements(s)))
<1>1. DOMAIN CheckForm(s) = FormNames /\ SameRequests(CheckForm(s), a)
  BY CheckFormFields
<1>2. a.rules = s.rules
  BY AskKeeps
<1> HIDE DEF a
<1>3. CheckForm(s).rules = s.rules
  BY <1>1, <1>2 DEF SameRequests
<1> QED
  BY <1>1, <1>3 DEF FormNames

\* So does an answer, before the form is checked again.
LEMMA AnswerRules ==
  ASSUME IInv, NEW f \in Field, form.flight[f] # {}, NEW valid \in BOOLEAN,
         valid <=> form.flight[f] \subseteq Accepted
  PROVE  LET t == Stopped(Answered(form, f, valid), f)
         IN  t.rules = form.rules /\ DOMAIN t = FormNames
<1> DEFINE t == Stopped(Answered(form, f, valid), f)
<1>1. Shape(form) /\ AskingInv(form) /\ RulesInv(form) /\ ShownInv(form)
  BY DEF IInv, FormInv
<1> HIDE DEF t
<1>2. Shape(t) /\ t.rules = form.rules
  BY <1>1, AnswerKeeps DEF t
<1> QED
  BY <1>2 DEF Shape, t

LEMMA RulesStay ==
  ASSUME IInv, [Next]_vars, ~Ready, ~InsertAndParse, ~Load
  PROVE  form'.rules = form.rules /\ UNCHANGED <<page, present, attached>>
<1> DEFINE Stay == form'.rules = form.rules /\ UNCHANGED <<page, present, attached>>
<1>1. DOMAIN form = FormNames /\ AskingInv(form)
  BY DEF IInv, FormInv, Shape
<1>2. ASSUME NEW f \in Field, Checked(f) PROVE Stay
  <2>1. CASE Throws(form, f)
    BY <1>1, <1>2, <2>1 DEF Checked, CheckElement, FormNames
  <2>2. CASE ~Throws(form, f)
    <3> DEFINE a == Ask(form, Waiting(form, {f}))
    <3>1. SameRequests(CheckElement(form, f), a)
      BY <1>1, <2>2, CheckElementFields
    <3>2. a.rules = form.rules
      BY <1>1, AskKeeps
    <3> HIDE DEF a
    <3>3. CheckElement(form, f).rules = form.rules
      BY <3>1, <3>2 DEF SameRequests
    <3> QED
      BY <1>2, <3>3 DEF Checked
  <2> QED
    BY <2>1, <2>2
<1>3. CASE Submit
  <2> DEFINE c == CheckForm(form)
             keeps == c.formSubmitted \/ (c.errors = {} /\ c.pendingRequest > 0)
  <2>1. form' = [c EXCEPT !.formSubmitted = keeps]
    BY <1>3 DEF Submit
  <2> HIDE DEF keeps
  <2> QED
    BY <1>1, <1>3, <2>1, CheckFormRules DEF Submit
<1>4. ASSUME NEW f \in Field, AnswerFalse(f) PROVE Stay
  <2> DEFINE t == Stopped(Answered(form, f, FALSE), f)
  <2>1. form.flight[f] # {} /\ ~(form.flight[f] \subseteq Accepted)
    BY <1>4 DEF AnswerFalse
  <2>2. t.rules = form.rules /\ DOMAIN t = FormNames
    BY <2>1, AnswerRules
  <2>3. form' = t \/ form' = [OnErrors(t, t.errors) EXCEPT !.formSubmitted = FALSE]
    BY <1>4 DEF AnswerFalse
  <2>4. UNCHANGED <<page, present, attached>>
    BY <1>4 DEF AnswerFalse
  <2> HIDE DEF t
  <2>5. DOMAIN OnErrors(t, t.errors) = FormNames /\ OnErrors(t, t.errors).rules = t.rules
    <3>1. DOMAIN OnErrors(t, t.errors) = FormNames /\ SameRequests(OnErrors(t, t.errors), t)
      BY <2>2, OnErrorsFields
    <3> QED
      BY <3>1 DEF SameRequests
  <2> QED
    BY <2>2, <2>3, <2>4, <2>5 DEF FormNames
<1>5. ASSUME NEW f \in Field, form.flight[f] \intersect Accepted # {}
      PROVE  LET t == Stopped(Answered(form, f, TRUE), f)
             IN  t.rules = form.rules /\ DOMAIN t = FormNames
  <2>1. FieldInv(form, f)
    BY <1>1 DEF AskingInv
  <2>2. form.flight[f] # {} /\ form.flight[f] \subseteq Accepted
    BY <1>5, <2>1 DEF FieldInv
  <2> QED
    BY <2>2, AnswerRules
<1>6. ASSUME NEW f \in Field, AnswerTrue(f) PROVE Stay
  <2> DEFINE t == Stopped(Answered(form, f, TRUE), f)
  <2>1. t.rules = form.rules
    BY <1>5, <1>6 DEF AnswerTrue
  <2>2. form' = t /\ UNCHANGED <<page, present, attached>>
    BY <1>6 DEF AnswerTrue
  <2> HIDE DEF t
  <2> QED
    BY <2>1, <2>2
<1>7. ASSUME NEW f \in Field, AnswerReleases(f) PROVE Stay
  <2> DEFINE t == Stopped(Answered(form, f, TRUE), f)
             c == CheckForm(t)
             goes == c.errors = {} /\ c.pendingRequest = 0
  <2>1. t.rules = form.rules /\ DOMAIN t = FormNames
    BY <1>5, <1>7 DEF AnswerReleases
  <2>2. form' = [c EXCEPT !.formSubmitted = ~goes]
    BY <1>7 DEF AnswerReleases
  <2>3. UNCHANGED <<page, present, attached>>
    BY <1>7 DEF AnswerReleases
  <2> HIDE DEF t, goes
  <2> QED
    BY <2>1, <2>2, <2>3, CheckFormRules
<1>8. ASSUME NEW f \in Field, Lose(f) PROVE Stay
  BY <1>1, <1>8 DEF Lose, FormNames
<1>9. CASE Reset
  BY <1>1, <1>9 DEF Reset, FormNames
<1>10. ASSUME NEW f \in Field, NEW v \in Value, Edit(f, v) PROVE Stay
  BY <1>10 DEF Edit
<1>11. CASE SubmitUnattached \/ SubmitCancel \/ SubmitThrows
  BY <1>11 DEF SubmitUnattached, SubmitCancel, SubmitThrows
<1>12. CASE UNCHANGED vars
  BY <1>12 DEF vars
<1> HIDE DEF Stay
<1> QED
  BY <1>2, <1>3, <1>4, <1>6, <1>7, <1>8, <1>9, <1>10, <1>11, <1>12
     DEF Next, ByUser, KeyUp, FocusOut, Click, BlurOfTarget, Answer, Stay

LEMMA SentByTheScript ==
  ASSUME IInv, [Next]_vars, sent' \in {"click", "held"}, sent' # sent
  PROVE  attached
<1>1. CASE Submit
  BY <1>1 DEF Submit
<1>2. ASSUME NEW f \in Field, AnswerReleases(f) PROVE attached
  BY <1>2 DEF AnswerReleases, IInv, FormInv, AskingInv
<1> QED
  BY <1>1, <1>2
     DEF Next, ByUser, KeyUp, FocusOut, Click, BlurOfTarget, Checked, Edit, Answer, AnswerFalse,
         AnswerTrue, Lose, Ready, InsertAndParse, Load, Reset, SubmitUnattached, SubmitCancel,
         SubmitThrows, vars

LEMMA NextParsedInv == IInv /\ ParsedInv /\ [Next]_vars => ParsedInv'
<1> SUFFICES ASSUME IInv, ParsedInv, [Next]_vars PROVE ParsedInv'
  OBVIOUS
<1>1. DOMAIN form = FormNames
  BY DEF IInv, FormInv, Shape
<1>2. ASSUME NEW there \in SUBSET Field, Field \ Page.late \subseteq there, Parse(there),
             UNCHANGED page, there \subseteq present', Ready \/ InsertAndParse
      PROVE  ParsedInv'
  <2>1. CASE attached
    <3>1. form' = form
      BY <1>2, <2>1 DEF Parse, Attach
    <3> QED
      BY <1>2, <2>1, <3>1 DEF ParsedInv, ParsedIn, Page, Annotated, Parsed, Ready, InsertAndParse
  <2>2. CASE ~attached
    <3> DEFINE rules == [f \in Field |-> IF f \in there /\ Annotated(f)
                                        THEN LocalRules(Parsed(f), there) ELSE NoRule]
    <3>1. form'.rules = rules
      BY <1>1, <1>2, <2>2 DEF Parse, Attach, FormNames
    <3>2. ASSUME NEW f \in Field \ Page.late, Annotated(f)
          PROVE  form'.rules[f] = LocalRules(Parsed(f), there)
      BY <1>2, <3>1, <3>2
    <3> QED
      BY <1>2, <3>2 DEF ParsedInv, ParsedIn, Page, Annotated, Parsed, Ready, InsertAndParse
  <2> QED
    BY <2>1, <2>2
<1>3. CASE Ready
  <2>1. present \in SUBSET Field
    BY DEF IInv, TypeOK
  <2> QED
    BY <1>2, <1>3, <2>1 DEF Ready, ParsedInv
<1>4. CASE InsertAndParse
  BY <1>2, <1>4 DEF InsertAndParse
<1>5. CASE Load
  BY <1>5 DEF Load, ParsedInv, Page
<1>6. CASE ~Ready /\ ~InsertAndParse /\ ~Load
  BY <1>6, RulesStay, SentByTheScript DEF ParsedInv, ParsedIn, Page, Annotated, Parsed
<1> QED
  BY <1>3, <1>4, <1>5, <1>6

\* Once attached, the validator checks every element of the loaded page by the
\* rules its attributes parse to.
THEOREM RulesAreParsed == Spec => []ParsedInv
<1>1. Init => ParsedInv
  BY DEF Init, ParsedInv
<1> QED
  BY <1>1, NextParsedInv, FormInvariant, PTL DEF Spec

\* For every page and every set of values, the rules a form is checked by accept
\* what the attributes accept, but for nonalphamin and an empty field, and for a
\* range of one bound where the order of the texts is not that of the numbers.
\* They accept no more, unless two attributes of an element write the same rule,
\* the texts of such a range mislead, or the element to compare with came late.
THEOREM RulesAreMeant == Spec => []RulesMeanAnnotations
<1>1. IInv /\ ParsedInv => RulesMeanAnnotations
  BY ParsedRulesMean DEF IInv, ParsedInv, RulesMeanAnnotations
<1> QED
  BY <1>1, FormInvariant, RulesAreParsed, PTL

\* What the script sends, at the click or when the last answer comes, means what
\* the page's author asked for, as far as the rules made of it can tell.
SentIsMeant ==
  sent \in {"click", "held"} =>
    \A f \in Field \ Page.late : Annotated(f) => ObeysRules(f) \/ Overridden(f)

\* However users and answers interleave, every element of the loaded page holds a
\* value each of its attributes accepts when the script sends the form, but for a
\* range of one bound whose text misleads and a comparison with an element that
\* came late; or the element has two attributes for the same rule.
THEOREM WhatIsSentIsMeant == Spec => []SentIsMeant
<1>1. IInv /\ ParsedInv => SentIsMeant
  <2> SUFFICES ASSUME IInv, ParsedInv, sent \in {"click", "held"},
                      NEW f \in Field \ Page.late, Annotated(f)
               PROVE  ObeysRules(f) \/ Overridden(f)
    BY DEF SentIsMeant
  <2>1. /\ f \in present /\ ParsedIn(form, f)
        /\ TypeOK /\ SentIsChecked
    BY DEF ParsedInv, IInv
  <2>2. "__dummy__" \in DOMAIN form.rules[f]
    <3>1. "__dummy__" \in DOMAIN Parsed(f)
      BY RulesAreWritten DEF Parsed
    <3> QED
      BY <2>1, <3>1 DEF ParsedIn, LocalRules
  <2>3. Problems(form, f) = {}
    BY <2>1, <2>2 DEF SentIsChecked, Elements
  <2> QED
    BY <2>1, <2>3, ParsedRulesMean
<1> QED
  BY <1>1, FormInvariant, RulesAreParsed, PTL
=============================================================================
