--------------------------- MODULE ParameterRules ---------------------------
(***************************************************************************)
(* How the values of an item are judged by its template: the dependency    *)
(* rules (domain/catalog.py), their validation (catalog_service.py and     *)
(* validate_order), the variables that are exported or handed to a         *)
(* pipeline, and the form in which the requester enters them               *)
(* (ParameterForm.tsx).                                                    *)
(*                                                                         *)
(* A template is the sequence of its parameter definitions.  The values of *)
(* an item are a function from the keys it fills in to numbers, Text or    *)
(* Null; enum options are numbers, too.  Comparing anything but a number   *)
(* raises an exception, which is an outcome of its own: "error".           *)
(***************************************************************************)
EXTENDS Integers, Sequences, SequencesExt

CONSTANTS
  Null,  \* the JSON null
  Text   \* any value that cannot be compared with a number

Comparisons == {"gt", "lt", "gte", "lte"}
IsNumber(value) == value \notin {Null, Text}

ValueOf(values, key) == IF key \in DOMAIN values THEN values[key] ELSE Null

-----------------------------------------------------------------------------
(* Dependency rules *)

Holds(rule, actual) ==
  \/ rule.operator = "eq" /\ actual = rule.value
  \/ rule.operator = "neq" /\ actual # rule.value
  \/ rule.operator = "in" /\ actual \in rule.value
  \/ rule.operator = "not_in" /\ actual \notin rule.value
  \/ rule.operator = "gt" /\ actual > rule.value
  \/ rule.operator = "lt" /\ actual < rule.value
  \/ rule.operator = "gte" /\ actual >= rule.value
  \/ rule.operator = "lte" /\ actual <= rule.value

\* A rule about a parameter that is not filled in does not hold.
Evaluate(rule, values) ==
  IF rule.parameter_key \notin DOMAIN values THEN "no"
  ELSE IF rule.operator \in Comparisons /\ ~IsNumber(values[rule.parameter_key])
    THEN "error"
  ELSE IF Holds(rule, values[rule.parameter_key]) THEN "yes" ELSE "no"

\* all() and any() stop at the first outcome that settles the answer, so a
\* rule behind it cannot raise any more.
FirstOther(rules, effect, values, usual) ==
  LET others == {i \in DOMAIN rules : /\ rules[i].effect = effect
                                     /\ Evaluate(rules[i], values) # usual}
  IN IF others = {} THEN usual ELSE Evaluate(rules[Min(others)], values)

IsVisible(param, values) ==
  FirstOther(param.depends_on, "visible", values, "yes")

\* Mutant of IsRequired: rules do not count.
RequiredByFlag(param, values) == IF param.required THEN "yes" ELSE "no"

IsRequired(param, values) ==
  IF param.required THEN "yes"
  ELSE FirstOther(param.depends_on, "required", values, "no")

\* Unlike the two above, this evaluates every rule, also the "disabled" ones.
ResolveDependencyState(rules, values) ==
  LET Some(effect, outcome) ==
        \E i \in DOMAIN rules : /\ rules[i].effect = effect
                                /\ Evaluate(rules[i], values) = outcome
  IN [raises      |-> \E i \in DOMAIN rules : Evaluate(rules[i], values) = "error",
      is_visible  |-> ~Some("visible", "no"),
      is_required |-> Some("required", "yes"),
      is_disabled |-> Some("disabled", "yes")]

-----------------------------------------------------------------------------
(* Validation *)

Numeric(param) == param.type = "integer"

Fits(param, value) ==
  \/ Numeric(param) /\ value >= param.min /\ value <= param.max
  \/ param.type = "enum" /\ value \in param.options
  \/ param.type = "string"

\* The exceptions of one round of the loop in validate_parameters ...
Raises(param, values) ==
  LET value == ValueOf(values, param.key)
  IN \/ IsVisible(param, values) = "error"
     \/ /\ IsVisible(param, values) = "yes"
        /\ \/ IsRequired(param, values) = "error"
           \/ Numeric(param) /\ value = Text

\* ... and the violations it reports.
Violates(param, values) ==
  LET value == ValueOf(values, param.key)
  IN /\ IsVisible(param, values) = "yes"
     /\ IF value = Null THEN IsRequired(param, values) = "yes"
                        ELSE ~Fits(param, value)

\* Whatever the order of the parameters, an exception outdoes violations.
ValidateParameters(params, values) ==
  IF \E p \in params : Raises(p, values) THEN "error"
  ELSE IF \E p \in params : Violates(p, values) THEN "invalid"
  ELSE "valid"

\* Parameters shared by all instances, and those filled in for each one;
\* "auto" parameters are neither.
Shared(template)      == {p \in Range(template) : p.per_instance = "false"}
PerInstance(template) == {p \in Range(template) : p.per_instance = "true"}

\* What validate_order concludes about one item.  The values of the instances
\* count from the second one on, as many as happen to be there.
ValidateItem(template, item) ==
  LET outcomes ==
        {ValidateParameters(Shared(template), item.parameters)}
          \cup IF item.quantity > 1
                 THEN {ValidateParameters(PerInstance(template), item.instances[n])
                         : n \in DOMAIN item.instances}
                 ELSE {}
  IN IF "error" \in outcomes THEN "error"
     ELSE IF "invalid" \in outcomes THEN "invalid" ELSE "valid"

-----------------------------------------------------------------------------
(* Variables: sets of pairs, names are unique within a template *)

Variables(params, values) ==
  {<<p.tofu_variable_name, values[p.key]>> :
     p \in {q \in params : q.key \in DOMAIN values}}

\* Mutant of ExportedParams: hidden parameters are exported as well.
ExportedEvenHidden(template, values) == Shared(template)

ExportedParams(template, values) ==
  {p \in Shared(template) : ResolveDependencyState(p.depends_on, values).is_visible}

ExportRaises(template, item) ==
  \E p \in Shared(template) :
    ResolveDependencyState(p.depends_on, item.parameters).raises

\* The blocks of export_tofu, one for each instance with values of its own.
ExportTofu(template, item) ==
  LET shared == Variables(ExportedParams(template, item.parameters),
                          item.parameters)
      own    == Range(template) \ Shared(template)
  IN IF item.quantity > 1 /\ item.instances # <<>>
       THEN [n \in DOMAIN item.instances |->
               shared \cup Variables(own, item.instances[n])]
       ELSE <<shared>>

\* The TF_VAR_ variables that _dispatch_single_item passes to GitLab.
PipelineVariables(item) ==
  {<<key, item.parameters[key]>> : key \in DOMAIN item.parameters}

-----------------------------------------------------------------------------
(* The form *)

\* Mutant of FormHolds: operators the form does not know hide the field.
FormHoldsKnown(rule, actual) ==
  \/ rule.operator = "eq" /\ actual = rule.value
  \/ rule.operator = "neq" /\ actual # rule.value
  \/ rule.operator = "in" /\ actual \in rule.value
  \/ rule.operator = "gt" /\ IsNumber(actual) /\ actual > rule.value

\* A field not filled in is undefined, here Null; operators the form does not
\* know never hide a field.
FormHolds(rule, actual) ==
  \/ rule.operator = "eq" /\ actual = rule.value
  \/ rule.operator = "neq" /\ actual # rule.value
  \/ rule.operator = "in" /\ actual \in rule.value
  \/ rule.operator = "gt" /\ IsNumber(actual) /\ actual > rule.value
  \/ rule.operator \in {"not_in", "lt", "gte", "lte"}

FormShows(param, values) ==
  \A i \in DOMAIN param.depends_on :
    param.depends_on[i].effect = "visible" =>
      FormHolds(param.depends_on[i],
                ValueOf(values, param.depends_on[i].parameter_key))
=============================================================================
