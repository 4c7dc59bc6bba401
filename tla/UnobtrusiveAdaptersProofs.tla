--------------------- MODULE UnobtrusiveAdaptersProofs ---------------------
(***************************************************************************)
(* Lemmas about the operators of UnobtrusiveAdapters, for any element and  *)
(* any methods: what each adapter writes, and where the rules of an        *)
(* element come from.                                                      *)
(***************************************************************************)
EXTENDS UnobtrusiveAdapters, TLAPS

AdapterNames ==
  {"accept", "extension", "regex", "creditcard", "date", "digits", "email", "number", "url",
   "length", "range", "minlength", "maxlength",
   "equalto", "required", "remote", "password", "fileextensions"}

LEMMA AdaptersAreNamed ==
  /\ DOMAIN Adapters = 1..18
  /\ \A i \in DOMAIN Adapters : Adapters[i] \in AdapterNames
  BY DEF Adapters, AdapterNames

\* Of some places one is the last.
LEMMA LastPlace ==
  ASSUME NEW W, W \subseteq 1..18, W # {}
  PROVE  Max(W) \in W
<1>1. SUFFICES ASSUME \A x \in W : \E y \in W : ~(x >= y)
               PROVE  FALSE
  BY DEF Max
<1>2. 18 \notin W /\ 17 \notin W /\ 16 \notin W /\ 15 \notin W
  BY <1>1
<1>3. 14 \notin W /\ 13 \notin W /\ 12 \notin W /\ 11 \notin W
  BY <1>1, <1>2
<1>4. 10 \notin W /\ 9 \notin W /\ 8 \notin W /\ 7 \notin W
  BY <1>1, <1>2, <1>3
<1>5. 6 \notin W /\ 5 \notin W /\ 4 \notin W /\ 3 \notin W
  BY <1>1, <1>2, <1>3, <1>4
<1>6. 2 \notin W /\ 1 \notin W
  BY <1>1, <1>2, <1>3, <1>4, <1>5
<1>7. \A i \in 1..18 : i \notin W
  BY <1>2, <1>3, <1>4, <1>5, <1>6
<1> QED
  BY <1>7

\* Every rule an adapter writes is a rule of the element, and every other rule
\* than __dummy__ has the parameter one of the adapters wrote.
LEMMA RulesAreWritten ==
  ASSUME NEW element
  PROVE  LET rules == ParseElement(element) IN
         /\ \A i \in Given(element) :
              DOMAIN Adapt(Adapters[i], element) \subseteq DOMAIN rules
         /\ "__dummy__" \in DOMAIN rules
         /\ \A n \in DOMAIN rules \ {"__dummy__"} : \E i \in Given(element) :
              /\ n \in DOMAIN Adapt(Adapters[i], element)
              /\ rules[n].value = Adapt(Adapters[i], element)[n]
         /\ \A n \in DOMAIN rules : DOMAIN rules[n] = {"at", "value"}
<1> DEFINE rules == ParseElement(element)
           names == UNION {DOMAIN Adapt(Adapters[i], element) : i \in Given(element)}
<1>1. /\ DOMAIN rules = names \union {"__dummy__"}
      /\ \A n \in DOMAIN rules : DOMAIN rules[n] = {"at", "value"}
      /\ \A n \in names :
           rules[n].value = Adapt(Adapters[Max(Writers(element, n))], element)[n]
  BY DEF ParseElement
<1>2. ASSUME NEW n \in names PROVE Max(Writers(element, n)) \in Writers(element, n)
  <2>1. Writers(element, n) \subseteq 1..18 /\ Writers(element, n) # {}
    BY AdaptersAreNamed DEF Writers, Given
  <2> QED
    BY <2>1, LastPlace
<1> HIDE DEF rules
<1>3. ASSUME NEW n \in names
      PROVE  \E i \in Given(element) :
               /\ n \in DOMAIN Adapt(Adapters[i], element)
               /\ rules[n].value = Adapt(Adapters[i], element)[n]
  BY <1>1, <1>2 DEF Writers
<1> QED
  BY <1>1, <1>3 DEF rules

\* Putting required first and remote aside changes no parameter, and the only
\* other rule that may be dropped is equalTo.
LEMMA LocalRulesKeep ==
  ASSUME NEW rules, \A n \in DOMAIN rules : DOMAIN rules[n] = {"at", "value"}, NEW there
  PROVE  LET local == LocalRules(rules, there) IN
         /\ DOMAIN local \subseteq DOMAIN rules \ {"remote"}
         /\ \A n \in DOMAIN rules \ {"remote"} :
              n \in DOMAIN local <=> (n = "equalTo" => rules[n].value \in there)
         /\ \A n \in DOMAIN local : local[n].value = rules[n].value
  BY DEF LocalRules

\* No two adapters of the element write the same rule.
Apart(element) ==
  \A i, j \in Given(element) :
    i # j => DOMAIN Adapt(Adapters[i], element) \intersect DOMAIN Adapt(Adapters[j], element) = {}

\* Then each rule has the parameter its one adapter wrote.
LEMMA ApartRulesAreKept ==
  ASSUME NEW element, Apart(element), NEW i \in Given(element),
         NEW n \in DOMAIN Adapt(Adapters[i], element), n # "__dummy__"
  PROVE  ParseElement(element)[n].value = Adapt(Adapters[i], element)[n]
<1>1. n \in DOMAIN ParseElement(element)
  BY RulesAreWritten
<1>2. PICK j \in Given(element) :
        /\ n \in DOMAIN Adapt(Adapters[j], element)
        /\ ParseElement(element)[n].value = Adapt(Adapters[j], element)[n]
  BY <1>1, RulesAreWritten
<1>3. i = j
  BY <1>2 DEF Apart
<1> QED
  BY <1>2, <1>3

\* An adapter of two bounds writes one rule, named for the bounds there are.
LEMMA MinMaxWrites ==
  ASSUME NEW params, NEW lo, NEW hi, NEW both
  PROVE  /\ "min" \in DOMAIN params /\ "max" \in DOMAIN params =>
              AddMinMax(params, lo, hi, both) = SetValidationValues(both, <<params["min"], params["max"]>>)
         /\ "min" \in DOMAIN params /\ "max" \notin DOMAIN params =>
              AddMinMax(params, lo, hi, both) = SetValidationValues(lo, params["min"])
         /\ "min" \notin DOMAIN params /\ "max" \in DOMAIN params =>
              AddMinMax(params, lo, hi, both) = SetValidationValues(hi, params["max"])
         /\ "min" \notin DOMAIN params /\ "max" \notin DOMAIN params =>
              AddMinMax(params, lo, hi, both) = NoRule
  BY DEF AddMinMax
=============================================================================
