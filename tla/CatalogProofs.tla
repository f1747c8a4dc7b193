--------------------------- MODULE CatalogProofs ---------------------------
(***************************************************************************)
(* Theorems about the catalog, for any versions, definitions and values:   *)
(* the phasing out of versions, whatever is ordered meanwhile, and what is *)
(* exported, whatever the order's item is filled in with.                  *)
(***************************************************************************)
EXTENDS Catalog, WellFoundedInduction, TLAPS

\* The tables fit, and a version that is not in use, or is still active, has
\* not been replaced: what a version may be replaced by leads nowhere yet.
Phases ==
  /\ registered \in Seq(Versions)
  /\ \A v \in Versions : v \in Range(registered) <=> template[v] # "absent"
  /\ template \in [Versions -> TemplateStatus \cup {"absent"}]
  /\ deprecated_by \in [Versions -> Versions \cup {NoVersion}]
  /\ \A v \in Versions :
       template[v] \in {"absent", "active"} => deprecated_by[v] = NoVersion

Inv == Phases /\ ReplacementsLeadOn

\* Appending an element adds it to the range of a sequence.
LEMMA RangeOfAppend ==
  ASSUME NEW S, NEW s \in Seq(S), NEW e \in S
  PROVE  Range(Append(s, e)) = Range(s) \cup {e}
<1>1. DOMAIN s = 1 .. Len(s) /\ Len(s) \in Nat
  OBVIOUS
<1>2. DOMAIN Append(s, e) = 1 .. (Len(s) + 1)
  OBVIOUS
<1>3. /\ Append(s, e)[Len(s) + 1] = e
      /\ \A i \in 1 .. Len(s) : Append(s, e)[i] = s[i]
  OBVIOUS
<1>4. 1 .. (Len(s) + 1) = (1 .. Len(s)) \cup {Len(s) + 1}
  BY <1>1
<1> QED BY <1>1, <1>2, <1>3, <1>4, Zenon DEF Range

\* What a requester does to the order.
OrderStep ==
  \/ \E v \in Versions, parameters \in ItemValues, quantity \in Quantities,
       instances \in InstanceValues : AddItem(v, parameters, quantity, instances)
  \/ \E parameters \in ItemValues : UpdateItem(parameters)
  \/ RemoveItem
  \/ ValidateOrder

\* Only admins touch the catalog.
LEMMA OrderKeepsCatalog == OrderStep => UNCHANGED catalogVars
BY DEF OrderStep, AddItem, UpdateItem, RemoveItem, ValidateOrder, catalogVars

\* A step that leaves the catalog alone keeps Inv.
LEMMA CatalogKept == ASSUME Inv, UNCHANGED catalogVars PROVE Inv'
BY DEF Inv, Phases, ReplacementsLeadOn, catalogVars

\* A new version is active and replaced by nothing.
LEMMA RegisterStep ==
  ASSUME Inv, NEW v \in Versions, RegisterTemplate(v)
  PROVE  Inv'
<1>1. Phases'
  <2>1. template[v] = "absent"
    BY DEF Inv, Phases, RegisterTemplate
  <2>2. \A u \in Versions : u \in Range(registered') <=> template'[u] # "absent"
    <3>1. Range(registered') = Range(registered) \cup {v}
      BY RangeOfAppend DEF Inv, Phases, RegisterTemplate
    <3> QED BY <3>1 DEF Inv, Phases, RegisterTemplate
  <2>3. registered' \in Seq(Versions)
    BY DEF Inv, Phases, RegisterTemplate
  <2>4. template' \in [Versions -> TemplateStatus \cup {"absent"}]
    BY DEF Inv, Phases, RegisterTemplate, TemplateStatus
  <2>5. deprecated_by' = deprecated_by
    BY DEF RegisterTemplate
  <2>6. ASSUME NEW u \in Versions, template'[u] \in {"absent", "active"}
        PROVE  deprecated_by'[u] = NoVersion
    BY <2>1, <2>5, <2>6 DEF Inv, Phases, RegisterTemplate
  <2>7. deprecated_by' \in [Versions -> Versions \cup {NoVersion}]
    BY <2>5 DEF Inv, Phases
  <2> QED BY <2>2, <2>3, <2>4, <2>6, <2>7 DEF Phases
<1>2. ReplacementsLeadOn'
  BY DEF Inv, ReplacementsLeadOn, RegisterTemplate
<1> QED BY <1>1, <1>2 DEF Inv

\* The replacement is active: it is itself not replaced, so no cycle runs
\* through it, nor through the version that now names it.
LEMMA UpdateStatusStep ==
  ASSUME Inv, NEW v \in Versions, NEW new \in TemplateStatus,
         NEW by \in Versions \cup {NoVersion}, UpdateStatus(v, new, by)
  PROVE  Inv'
<1>1. Phases'
  <2>1. new \in {"deprecated", "disabled"}
    BY DEF UpdateStatus, CanTransition
  <2> QED BY <2>1 DEF Inv, Phases, UpdateStatus, TemplateStatus
<1>2. ReplacementsLeadOn'
  <2> DEFINE replaced == {u \in Versions : deprecated_by[u] \notin {NoVersion, u}}
  <2> SUFFICES ASSUME NEW cycle \in SUBSET replaced', cycle # {}
               PROVE  \E u \in cycle : deprecated_by'[u] \notin cycle
    BY DEF ReplacementsLeadOn
  <2>1. \A u \in Versions \ {v} : deprecated_by'[u] = deprecated_by[u]
    BY DEF Inv, Phases, UpdateStatus
  <2>2. CASE v \in cycle /\ new = "deprecated"
    <3>1. deprecated_by'[v] = by
      BY <2>2 DEF Inv, Phases, UpdateStatus
    <3>2. by \in Versions \ {v}
      BY <2>2, <3>1
    <3>3. template[by] = "active"
      BY <2>2, <3>2, ConstantsAssumption DEF UpdateStatus
    <3>4. by \notin replaced'
      BY <2>1, <3>2, <3>3 DEF Inv, Phases
    <3> QED BY <2>2, <3>1, <3>4
  <2>3. CASE ~(v \in cycle /\ new = "deprecated")
    <3>1. \A u \in cycle : deprecated_by'[u] = deprecated_by[u]
      BY <2>1, <2>3 DEF Inv, Phases, UpdateStatus
    <3>2. cycle \in SUBSET replaced
      BY <3>1
    <3> QED BY <3>1, <3>2 DEF Inv, ReplacementsLeadOn
  <2> QED BY <2>2, <2>3
<1> QED BY <1>1, <1>2 DEF Inv

\* The catalog begins empty.
LEMMA InitInv == Init => Inv
<1> SUFFICES ASSUME Init PROVE Inv
  OBVIOUS
<1>1. Phases
  BY DEF Init, Phases, TemplateStatus, Range
<1>2. ReplacementsLeadOn
  BY DEF Init, ReplacementsLeadOn
<1> QED BY <1>1, <1>2 DEF Inv

\* Every step keeps Inv.
LEMMA StepInv == ASSUME Inv, [Next]_vars PROVE Inv'
<1>1. CASE \E v \in Versions : RegisterTemplate(v)
  BY <1>1, RegisterStep
<1>2. CASE \E v \in Versions, new \in TemplateStatus, by \in Versions \cup {NoVersion} :
             UpdateStatus(v, new, by)
  BY <1>2, UpdateStatusStep
<1>3. CASE OrderStep \/ UNCHANGED vars
  BY <1>3, OrderKeepsCatalog, CatalogKept DEF vars, catalogVars
<1> QED BY <1>1, <1>2, <1>3 DEF Next, OrderStep

\* No chain of replacements, as an admin builds it call by call, runs in a
\* circle of several versions.
THEOREM ReplacementsNeverCircle == Spec => []ReplacementsLeadOn
<1>1. Init => Inv
  BY InitInv
<1>2. Inv /\ [Next]_vars => Inv'
  BY StepInv
<1>3. Inv => ReplacementsLeadOn
  BY DEF Inv
<1> QED BY <1>1, <1>2, <1>3, PTL DEF Spec

\* A version never returns to an earlier status, and its replacement is not
\* exchanged later.
THEOREM StatusNeverRises == Spec => StatusOnlyFalls
<1> DEFINE Falls ==
      \A v \in Versions :
        \/ template'[v] = template[v] /\ deprecated_by'[v] = deprecated_by[v]
        \/ template[v] = "absent" /\ template'[v] = "active"
        \/ CanTransition(template[v], template'[v])
<1>1. ASSUME Inv, [Next]_vars PROVE [Falls]_vars
  <2>1. CASE OrderStep
    BY <2>1, OrderKeepsCatalog DEF catalogVars
  <2>2. ASSUME NEW v \in Versions, RegisterTemplate(v) PROVE Falls
    <3>1. template[v] = "absent"
      BY <2>2, <1>1 DEF Inv, Phases, RegisterTemplate
    <3> QED BY <2>2, <3>1, <1>1 DEF Inv, Phases, RegisterTemplate
  <2>3. ASSUME NEW v \in Versions, NEW new \in TemplateStatus,
               NEW by \in Versions \cup {NoVersion}, UpdateStatus(v, new, by)
        PROVE  Falls
    BY <2>3, <1>1 DEF Inv, Phases, UpdateStatus
  <2> QED BY <1>1, <2>1, <2>2, <2>3 DEF Next, OrderStep
<1>2. Spec => []Inv
  <2>1. Init => Inv
    BY InitInv
  <2>2. Inv /\ [Next]_vars => Inv'
    BY StepInv
  <2> QED BY <2>1, <2>2, PTL DEF Spec
<1>3. Spec => [][Falls]_vars
  BY <1>1, <1>2, PTL DEF Spec
<1> QED BY <1>3 DEF StatusOnlyFalls

-----------------------------------------------------------------------------
(* The order *)

\* Numbers have a least one among them.
LEMMA LeastNumber ==
  ASSUME NEW S \in SUBSET Nat, S # {}
  PROVE  \E i \in S : \A j \in S : i <= j
<1> DEFINE pairs == {ss \in Nat \X Nat : ss[1] < ss[2]}
<1>1. PICK i \in S : \A j \in S : <<j, i>> \notin pairs
  <2> DEFINE less == OpToRel(<, Nat)
  <2>1. IsWellFoundedOn(less, Nat)
    BY NatLessThanWellFounded
  <2>2. less = pairs
    BY DEF OpToRel
  <2> HIDE DEF less, pairs
  <2> QED BY <2>1, <2>2, WFMin
<1>2. ASSUME NEW j \in S PROVE i <= j
  <2>1. ~(<<j, i>>[1] < <<j, i>>[2])
    BY <1>1
  <2> QED BY <2>1
<1> QED BY <1>2

\* The outcome that settles all() or any() is that of a rule.
LEMMA FirstOtherIsOne ==
  ASSUME NEW rules, DOMAIN rules \subseteq Nat, NEW effect, NEW values, NEW usual,
         FirstOther(rules, effect, values, usual) # usual
  PROVE  \E i \in DOMAIN rules :
           /\ rules[i].effect = effect
           /\ FirstOther(rules, effect, values, usual) = Evaluate(rules[i], values)
<1> DEFINE others == {i \in DOMAIN rules : /\ rules[i].effect = effect
                                           /\ Evaluate(rules[i], values) # usual}
<1>1. others # {}
  BY DEF FirstOther
<1>2. \E i \in others : \A j \in others : i <= j
  <2>1. others \in SUBSET Nat
    OBVIOUS
  <2> HIDE DEF others
  <2> QED BY <1>1, <2>1, LeastNumber
<1>3. Min(others) \in others
  <2> HIDE DEF others
  <2> QED BY <1>2, Zenon DEF Min
<1>4. FirstOther(rules, effect, values, usual) = Evaluate(rules[Min(others)], values)
  <2>1. FirstOther(rules, effect, values, usual)
          = IF others = {} THEN usual ELSE Evaluate(rules[Min(others)], values)
    BY DEF FirstOther
  <2> HIDE DEF others
  <2> QED BY <1>1, <2>1
<1> QED BY <1>3, <1>4

\* If no rule settles the answer, it is the usual one.
LEMMA FirstOtherIsUsual ==
  ASSUME NEW rules, DOMAIN rules \subseteq Nat, NEW effect, NEW values, NEW usual,
         FirstOther(rules, effect, values, usual) = usual
  PROVE  \A i \in DOMAIN rules :
           rules[i].effect = effect => Evaluate(rules[i], values) = usual
<1> DEFINE others == {i \in DOMAIN rules : /\ rules[i].effect = effect
                                           /\ Evaluate(rules[i], values) # usual}
<1> SUFFICES ASSUME others # {} PROVE FALSE
  OBVIOUS
<1>2. \E i \in others : \A j \in others : i <= j
  <2>1. others \in SUBSET Nat
    OBVIOUS
  <2> HIDE DEF others
  <2> QED BY <2>1, LeastNumber
<1>3. Min(others) \in others
  <2> HIDE DEF others
  <2> QED BY <1>2, Zenon DEF Min
<1>4. FirstOther(rules, effect, values, usual) = Evaluate(rules[Min(others)], values)
  <2>1. FirstOther(rules, effect, values, usual)
          = IF others = {} THEN usual ELSE Evaluate(rules[Min(others)], values)
    BY DEF FirstOther
  <2> HIDE DEF others
  <2> QED BY <2>1
<1> QED BY <1>3, <1>4

\* Unless a rule raises, validation hides a parameter when a rule does not
\* hold, and only then.
LEMMA VisibleMeans ==
  ASSUME NEW p, DOMAIN p.depends_on \subseteq Nat, NEW values,
         \A i \in DOMAIN p.depends_on : Evaluate(p.depends_on[i], values) # "error"
  PROVE  /\ IsVisible(p, values) \in {"yes", "no"}
         /\ IsVisible(p, values) = "yes" <=>
              \A i \in DOMAIN p.depends_on :
                p.depends_on[i].effect = "visible"
                  => Evaluate(p.depends_on[i], values) = "yes"
<1>1. \A i \in DOMAIN p.depends_on : Evaluate(p.depends_on[i], values) \in {"yes", "no"}
  BY DEF Evaluate
<1>2. CASE FirstOther(p.depends_on, "visible", values, "yes") = "yes"
  BY <1>2, FirstOtherIsUsual DEF IsVisible
<1>3. CASE FirstOther(p.depends_on, "visible", values, "yes") # "yes"
  BY <1>1, <1>3, FirstOtherIsOne DEF IsVisible
<1> QED BY <1>2, <1>3

\* Unless a rule raises, validation demands a parameter by its flag or by a
\* rule that holds, and only then.
LEMMA RequiredMeans ==
  ASSUME NEW p, DOMAIN p.depends_on \subseteq Nat, NEW values,
         \A i \in DOMAIN p.depends_on : Evaluate(p.depends_on[i], values) # "error"
  PROVE  IsRequired(p, values) = "yes" <=>
           \/ p.required
           \/ \E i \in DOMAIN p.depends_on :
                /\ p.depends_on[i].effect = "required"
                /\ Evaluate(p.depends_on[i], values) = "yes"
<1>1. \A i \in DOMAIN p.depends_on : Evaluate(p.depends_on[i], values) \in {"yes", "no"}
  BY DEF Evaluate
<1>2. CASE FirstOther(p.depends_on, "required", values, "no") = "no"
  BY <1>2, FirstOtherIsUsual DEF IsRequired
<1>3. CASE FirstOther(p.depends_on, "required", values, "no") # "no"
  BY <1>1, <1>3, FirstOtherIsOne DEF IsRequired
<1> QED BY <1>2, <1>3

\* Validation ends in one of three ways.
LEMMA ThreeOutcomes ==
  ASSUME NEW t, NEW it
  PROVE  ValidateItem(t, it) \in {"error", "invalid", "valid"}
BY DEF ValidateItem

\* A valid item is valid in its shared parameters.
LEMMA ValidInShared ==
  ASSUME NEW t, NEW it, ValidateItem(t, it) = "valid"
  PROVE  \A p \in Shared(t) : ~Raises(p, it.parameters) /\ ~Violates(p, it.parameters)
<1>1. ValidateParameters(Shared(t), it.parameters) \notin {"error", "invalid"}
  BY DEF ValidateItem
<1> QED BY <1>1 DEF ValidateParameters

-----------------------------------------------------------------------------
\* The order is of a version that is registered and well-formed, and while it
\* is validated, its item passes validation.
OrderInv ==
  /\ order \in {"draft", "validated"}
  /\ item \in Item \cup {NoItem}
  /\ item \in Item => template[item.version] # "absent"
  /\ \A v \in Versions : template[v] # "absent" => Wellformed(Definition[v])
  /\ order = "validated" =>
       item \in Item /\ ValidateItem(Definition[item.version], item) = "valid"

CatalogInv == Phases /\ IsInjective(registered) /\ OrderInv

LEMMA InitCatalog == Init => CatalogInv
BY NoItemAssumption DEF Init, CatalogInv, Phases, OrderInv, TemplateStatus, Range, IsInjective

LEMMA RegisterKeeps ==
  ASSUME CatalogInv, ReplacementsLeadOn, NEW v \in Versions, RegisterTemplate(v)
  PROVE  CatalogInv'
<1>1. Phases'
  BY RegisterStep DEF CatalogInv, Inv
<1>2. IsInjective(registered')
  <2>1. registered \in Seq(Versions) /\ registered' = Append(registered, v)
    BY DEF CatalogInv, Phases, RegisterTemplate
  <2>2. \A i \in 1 .. Len(registered) : registered[i] # v
    BY <2>1 DEF RegisterTemplate, Range
  <2>3. DOMAIN registered' = 1 .. Len(registered) + 1 /\ Len(registered) \in Nat
    BY <2>1
  <2>4. /\ registered'[Len(registered) + 1] = v
        /\ \A i \in 1 .. Len(registered) : registered'[i] = registered[i]
    BY <2>1
  <2>5. \A i, j \in 1 .. Len(registered) : registered[i] = registered[j] => i = j
    BY <2>1 DEF CatalogInv, IsInjective
  <2> QED BY <2>2, <2>3, <2>4, <2>5 DEF IsInjective
<1>3. OrderInv'
  <2>1. template' \in [Versions -> TemplateStatus \cup {"absent"}]
    BY <1>1 DEF Phases
  <2>2. ASSUME NEW u \in Versions, template'[u] # "absent"
        PROVE  Wellformed(Definition[u])
    BY <2>2 DEF CatalogInv, Phases, OrderInv, RegisterTemplate
  <2>3. item \in Item => template'[item.version] # "absent"
    BY DEF CatalogInv, Phases, OrderInv, RegisterTemplate, Item
  <2> QED BY <2>2, <2>3 DEF CatalogInv, OrderInv, RegisterTemplate
<1> QED BY <1>1, <1>2, <1>3 DEF CatalogInv

LEMMA UpdateKeeps ==
  ASSUME CatalogInv, ReplacementsLeadOn, NEW v \in Versions,
         NEW new \in TemplateStatus, NEW by \in Versions \cup {NoVersion},
         UpdateStatus(v, new, by)
  PROVE  CatalogInv'
<1>1. Phases'
  BY UpdateStatusStep DEF CatalogInv, Inv
<1>2. IsInjective(registered')
  BY DEF CatalogInv, UpdateStatus
<1>3. OrderInv'
  <2>1. template[v] # "absent"
    BY DEF UpdateStatus, CanTransition
  <2>2. \A u \in Versions : template'[u] # "absent" => template[u] # "absent"
    BY <2>1 DEF CatalogInv, Phases, UpdateStatus
  <2>3. item \in Item => template'[item.version] # "absent"
    BY DEF CatalogInv, Phases, OrderInv, UpdateStatus, Item, TemplateStatus
  <2> QED BY <2>2, <2>3 DEF CatalogInv, OrderInv, UpdateStatus
<1> QED BY <1>1, <1>2, <1>3 DEF CatalogInv

\* Whatever a requester does, the order is validated only with what
\* validate_order has judged valid.
LEMMA OrderKeeps ==
  ASSUME CatalogInv, OrderStep
  PROVE  CatalogInv'
<1>1. Phases' /\ IsInjective(registered')
  BY OrderKeepsCatalog DEF CatalogInv, Phases, catalogVars
<1>2. template' = template
  BY OrderKeepsCatalog DEF catalogVars
<1>3. ASSUME NEW v \in Versions, NEW parameters \in ItemValues,
             NEW quantity \in Quantities, NEW instances \in InstanceValues,
             AddItem(v, parameters, quantity, instances)
      PROVE  OrderInv'
  BY <1>2, <1>3 DEF CatalogInv, OrderInv, AddItem, Item
<1>4. ASSUME NEW parameters \in ItemValues, UpdateItem(parameters) PROVE OrderInv'
  <2>1. item \in Item
    BY <1>4 DEF UpdateItem, CatalogInv, OrderInv
  <2>2. item' \in Item /\ item'.version = item.version
    BY <1>4, <2>1 DEF UpdateItem, Item
  <2> QED BY <1>2, <1>4, <2>2 DEF CatalogInv, OrderInv, UpdateItem
<1>5. ASSUME RemoveItem PROVE OrderInv'
  BY <1>2, <1>5, NoItemAssumption DEF CatalogInv, OrderInv, RemoveItem
<1>6. ASSUME ValidateOrder PROVE OrderInv'
  <2> DEFINE outcome == ValidateItem(Definition[item.version], item)
  <2>1. item \in Item
    BY <1>6 DEF ValidateOrder, CatalogInv, OrderInv
  <2>2. outcome \in {"invalid", "valid"}
    BY <1>6, ThreeOutcomes DEF ValidateOrder
  <2>3. item' = [item EXCEPT !.validation_state = outcome]
    BY <1>6 DEF ValidateOrder
  <2>4. /\ item' \in Item
        /\ item'.version = item.version /\ item'.parameters = item.parameters
        /\ item'.quantity = item.quantity /\ item'.instances = item.instances
    <3> HIDE DEF outcome
    <3> QED BY <2>1, <2>2, <2>3 DEF Item
  <2>5. ValidateItem(Definition[item'.version], item') = outcome
    BY <2>4 DEF ValidateItem
  <2>6. order' = IF outcome = "valid" THEN "validated" ELSE order
    BY <1>6 DEF ValidateOrder
  <2>7. order' = "validated" => outcome = "valid"
    BY <2>6 DEF CatalogInv, OrderInv
  <2> HIDE DEF outcome
  <2> QED BY <1>2, <2>1, <2>4, <2>5, <2>6, <2>7 DEF CatalogInv, OrderInv
<1> QED BY <1>1, <1>3, <1>4, <1>5, <1>6 DEF OrderStep, CatalogInv

LEMMA StepCatalog ==
  ASSUME CatalogInv, ReplacementsLeadOn, [Next]_vars
  PROVE  CatalogInv'
<1>1. CASE \E v \in Versions : RegisterTemplate(v)
  BY <1>1, RegisterKeeps
<1>2. CASE \E v \in Versions, new \in TemplateStatus, by \in Versions \cup {NoVersion} :
             UpdateStatus(v, new, by)
  BY <1>2, UpdateKeeps
<1>3. CASE OrderStep
  BY <1>3, OrderKeeps
<1>4. CASE UNCHANGED vars
  BY <1>4 DEF vars, CatalogInv, Phases, OrderInv
<1> QED BY <1>1, <1>2, <1>3, <1>4 DEF Next, OrderStep

LEMMA CatalogInvariant == Spec => []CatalogInv
<1>1. Init => CatalogInv
  BY InitCatalog
<1>2. CatalogInv /\ ReplacementsLeadOn /\ [Next]_vars => CatalogInv'
  BY StepCatalog
<1> QED BY <1>1, <1>2, ReplacementsNeverCircle, PTL DEF Spec

\* An order that is ready to be exported has an item of a well-formed version,
\* whose shared parameters have all passed, and no rule of one of them raises.
LEMMA WhenExported ==
  ASSUME CatalogInv, Exported
  PROVE  /\ item \in Item
         /\ Wellformed(Params)
         /\ \A p \in Range(Params) : DOMAIN p.depends_on \subseteq Nat
         /\ \A p \in Shared(Params) :
              /\ ~Raises(p, item.parameters)
              /\ ~Violates(p, item.parameters)
              /\ \A i \in DOMAIN p.depends_on :
                   Evaluate(p.depends_on[i], item.parameters) # "error"
<1>1. item \in Item /\ item.version \in Versions
  BY DEF CatalogInv, OrderInv, Exported, Item
<1>2. ValidateItem(Params, item) = "valid"
  BY DEF CatalogInv, OrderInv, Exported, Params
<1>3. Wellformed(Params)
  BY <1>1 DEF CatalogInv, OrderInv, Params
<1>4. \A p \in Range(Params) : DOMAIN p.depends_on \subseteq Nat
  BY <1>1, ConstantsAssumption DEF Params
<1>5. \A p \in Shared(Params) : ~Raises(p, item.parameters) /\ ~Violates(p, item.parameters)
  BY <1>2, ValidInShared
<1>6. \A p \in Shared(Params) : \A i \in DOMAIN p.depends_on :
        Evaluate(p.depends_on[i], item.parameters) # "error"
  BY DEF Exported, ExportRaises, ResolveDependencyState
<1> QED BY <1>1, <1>3, <1>4, <1>5, <1>6

\* In a well-formed template, name and key identify a parameter.
LEMMA NamesIdentify ==
  ASSUME NEW t, Wellformed(t), NEW p \in Range(t), NEW q \in Range(t),
         p.key = q.key \/ p.tofu_variable_name = q.tofu_variable_name
  PROVE  p = q
BY DEF Wellformed, Range

\* What a block holds for a shared parameter is the item's value for it, if
\* the parameter is exported; a block holds nothing for the others.
LEMMA BlocksHold ==
  ASSUME Wellformed(Params), NEW n \in DOMAIN Blocks, NEW p \in Shared(Params), NEW v
  PROVE  <<p.tofu_variable_name, v>> \in Blocks[n] <=>
           /\ p \in ExportedParams(Params, item.parameters)
           /\ p.key \in DOMAIN item.parameters
           /\ v = item.parameters[p.key]
<1> DEFINE shared == Variables(ExportedParams(Params, item.parameters), item.parameters)
           own(m) == Variables(Range(Params) \ Shared(Params), item.instances[m])
           pair == <<p.tofu_variable_name, v>>
<1>1. pair \in shared <=>
        /\ p \in ExportedParams(Params, item.parameters)
        /\ p.key \in DOMAIN item.parameters
        /\ v = item.parameters[p.key]
  <2>1. \A q \in ExportedParams(Params, item.parameters) :
          q.tofu_variable_name = p.tofu_variable_name => q = p
    BY NamesIdentify DEF ExportedParams, Shared
  <2> QED BY <2>1 DEF Variables
<1>2. \A m : pair \notin own(m)
  <2>1. \A q \in Range(Params) \ Shared(Params) :
          q.tofu_variable_name # p.tofu_variable_name
    BY NamesIdentify DEF Shared
  <2> QED BY <2>1 DEF Variables
<1>3. Blocks[n] = shared \/ Blocks[n] = shared \cup own(n)
  <2>1. CASE item.quantity > 1 /\ item.instances # <<>>
    BY <2>1 DEF Blocks, ExportTofu
  <2>2. CASE ~(item.quantity > 1 /\ item.instances # <<>>)
    <3>1. Blocks = <<shared>>
      BY <2>2 DEF Blocks, ExportTofu
    <3> HIDE DEF shared
    <3> QED BY <3>1
  <2> QED BY <2>1, <2>2
<1> HIDE DEF shared, own, pair
<1>4. pair \in Blocks[n] <=> pair \in shared
  BY <1>2, <1>3
<1> QED BY <1>1, <1>4 DEF pair

\* A shared parameter is exported if validation took it for visible, which
\* means that its rules show it.
LEMMA ExportedMeansShown ==
  ASSUME CatalogInv, Exported, NEW p \in Shared(Params)
  PROVE  /\ p \in ExportedParams(Params, item.parameters) <=> Shown(p)
         /\ IsVisible(p, item.parameters) = "yes" <=> Shown(p)
         /\ IsRequired(p, item.parameters) = "yes" <=> Demanded(p)
<1>1. \A i \in DOMAIN p.depends_on :
        Evaluate(p.depends_on[i], item.parameters) # "error"
  BY WhenExported
<1>2. DOMAIN p.depends_on \subseteq Nat
  BY WhenExported DEF Shared
<1>3. \A i \in DOMAIN p.depends_on :
        Evaluate(p.depends_on[i], item.parameters) # "no"
          <=> Evaluate(p.depends_on[i], item.parameters) = "yes"
  BY <1>1 DEF Evaluate
<1>4. p \in ExportedParams(Params, item.parameters) <=> Shown(p)
  BY <1>3 DEF ExportedParams, ResolveDependencyState, Shown
<1>5. IsVisible(p, item.parameters) = "yes" <=> Shown(p)
  BY <1>1, <1>2, VisibleMeans DEF Shown
<1>6. IsRequired(p, item.parameters) = "yes" <=> Demanded(p)
  BY <1>1, <1>2, RequiredMeans DEF Demanded
<1> QED BY <1>4, <1>5, <1>6

\* What the export takes over for a shared parameter has been validated.
LEMMA SoundExport == CatalogInv => ExportedIsSound
<1> SUFFICES ASSUME CatalogInv, Exported, NEW n \in DOMAIN Blocks,
                    NEW p \in Shared(Params), NEW v \in Range(item.parameters),
                    <<p.tofu_variable_name, v>> \in Blocks[n]
             PROVE  v = Null \/ Fits(p, v)
  BY DEF ExportedIsSound
<1>1. p \in ExportedParams(Params, item.parameters) /\ v = ValueOf(item.parameters, p.key)
  BY WhenExported, BlocksHold DEF ValueOf
<1>2. IsVisible(p, item.parameters) = "yes"
  BY <1>1, ExportedMeansShown
<1>3. ~Violates(p, item.parameters)
  BY WhenExported
<1> QED BY <1>1, <1>2, <1>3 DEF Violates

\* What is shown and demanded has been filled in, or the item would not be
\* valid, and what is shown is exported.
LEMMA CompleteExport == CatalogInv => ExportedIsComplete
<1> SUFFICES ASSUME CatalogInv, Exported, NEW n \in DOMAIN Blocks,
                    NEW p \in Shared(Params), Shown(p), Demanded(p)
             PROVE  \E v \in Range(item.parameters) \ {Null} :
                      <<p.tofu_variable_name, v>> \in Blocks[n]
  BY DEF ExportedIsComplete
<1>1. /\ p \in ExportedParams(Params, item.parameters)
      /\ IsVisible(p, item.parameters) = "yes"
      /\ IsRequired(p, item.parameters) = "yes"
  BY ExportedMeansShown
<1>2. ValueOf(item.parameters, p.key) # Null
  BY <1>1, WhenExported DEF Violates
<1>3. p.key \in DOMAIN item.parameters /\ item.parameters[p.key] # Null
  BY <1>2 DEF ValueOf
<1>4. <<p.tofu_variable_name, item.parameters[p.key]>> \in Blocks[n]
  BY <1>1, <1>3, WhenExported, BlocksHold
<1>5. item.parameters[p.key] \in Range(item.parameters)
  BY <1>3 DEF Range
<1> QED BY <1>3, <1>4, <1>5

\* What is hidden is exported in no block.
LEMMA HiddenExport == CatalogInv => HiddenStaysOut
<1> SUFFICES ASSUME CatalogInv, Exported, NEW n \in DOMAIN Blocks,
                    NEW p \in Shared(Params), ~Shown(p),
                    NEW pair \in Blocks[n], pair[1] = p.tofu_variable_name
             PROVE  FALSE
  BY DEF HiddenStaysOut
<1>1. pair = <<p.tofu_variable_name, pair[2]>>
  BY DEF Blocks, ExportTofu, Variables
<1>2. p \in ExportedParams(Params, item.parameters)
  BY <1>1, WhenExported, BlocksHold
<1> QED BY <1>2, ExportedMeansShown

\* An item belongs to a version that is registered and well-formed.
LEMMA ItemOf ==
  ASSUME CatalogInv, item # NoItem
  PROVE  /\ item \in Item
         /\ Wellformed(Params)
         /\ \A p \in Range(Params) : DOMAIN p.depends_on \subseteq Nat
<1>1. item \in Item /\ item.version \in Versions
  BY DEF CatalogInv, OrderInv, Item
<1> QED BY <1>1, ConstantsAssumption DEF CatalogInv, OrderInv, Params

\* An item of the newest version has the parameters that the catalog shows.
LEMMA NewestIsOurs ==
  ASSUME item.version \in Newest
  PROVE  NewestParams = Params
<1>1. \A v \in Newest : v = registered[Len(registered)]
  BY DEF Newest
<1> QED BY <1>1 DEF NewestParams, Params

\* A rule that the server takes to hold holds in the form, too.
LEMMA FormFollows ==
  ASSUME NEW p, Shown(p)
  PROVE  FormShows(p, item.parameters)
<1> SUFFICES ASSUME NEW i \in DOMAIN p.depends_on, p.depends_on[i].effect = "visible"
             PROVE  FormHolds(p.depends_on[i],
                              ValueOf(item.parameters, p.depends_on[i].parameter_key))
  BY DEF FormShows
<1> DEFINE rule == p.depends_on[i]
<1>1. Evaluate(rule, item.parameters) = "yes"
  BY DEF Shown
<1> HIDE DEF rule
<1>2. /\ rule.parameter_key \in DOMAIN item.parameters
      /\ rule.operator \in Comparisons => IsNumber(item.parameters[rule.parameter_key])
      /\ Holds(rule, item.parameters[rule.parameter_key])
  BY <1>1 DEF Evaluate
<1>3. FormHolds(rule, item.parameters[rule.parameter_key])
  BY <1>2 DEF Holds, FormHolds, Comparisons
<1> QED BY <1>2, <1>3 DEF ValueOf, rule

\* parameter-layout puts a parameter where validate_order looks for it.
LEMMA LayoutAgrees ==
  ASSUME NewestParams = Params, NEW quantity \in Nat
  PROVE  /\ Shared(Params) \subseteq ParameterLayout(quantity).shared
         /\ quantity > 1 => PerInstance(Params) = ParameterLayout(quantity).per_instance
<1>1. CASE quantity <= 1
  BY <1>1 DEF ParameterLayout, Shared
<1>2. CASE ~(quantity <= 1)
  <2>1. /\ ParameterLayout(quantity).shared
             = {p \in Range(Params) : p.per_instance \in {"false"}}
        /\ ParameterLayout(quantity).per_instance
             = {p \in Range(Params) : p.per_instance \in {"true"}}
    BY <1>2 DEF ParameterLayout
  <2> QED BY <2>1 DEF Shared, PerInstance
<1> QED BY <1>1, <1>2

\* resolve-options says of a parameter what its rules say.
LEMMA OptionsAgree ==
  ASSUME NewestParams = Params, Wellformed(Params), NEW p \in Range(Params),
         ~ResolveOptions(p.key, item.parameters).raises
  PROVE  /\ ResolveOptions(p.key, item.parameters).is_visible = Shown(p)
         /\ (p.required \/ ResolveOptions(p.key, item.parameters).is_required)
              = Demanded(p)
<1> DEFINE state == ResolveDependencyState(p.depends_on, item.parameters)
<1>1. ResolveOptions(p.key, item.parameters) = state
  <2>1. p = CHOOSE q \in Range(Params) : q.key = p.key
    BY NamesIdentify
  <2> QED BY <2>1 DEF ResolveOptions
<1>2. \A i \in DOMAIN p.depends_on :
        Evaluate(p.depends_on[i], item.parameters) # "error"
  BY <1>1 DEF ResolveDependencyState
<1>3. \A i \in DOMAIN p.depends_on :
        Evaluate(p.depends_on[i], item.parameters) # "no"
          <=> Evaluate(p.depends_on[i], item.parameters) = "yes"
  BY <1>2 DEF Evaluate
<1>4. state.is_visible = Shown(p)
  BY <1>3 DEF ResolveDependencyState, Shown
<1>5. (p.required \/ state.is_required) = Demanded(p)
  BY DEF ResolveDependencyState, Demanded
<1> QED BY <1>1, <1>4, <1>5

\* What passes the check of the catalog passes validate_order.
LEMMA CheckSuffices ==
  ASSUME NewestParams = Params, item.quantity = 1,
         CheckValues(item.parameters) = "valid"
  PROVE  ValidateItem(Params, item) = "valid"
<1>1. \A p \in Range(Params) :
        ~Raises(p, item.parameters) /\ ~Violates(p, item.parameters)
  BY DEF CheckValues, ValidateParameters
<1>2. ValidateParameters(Shared(Params), item.parameters) = "valid"
  BY <1>1 DEF ValidateParameters, Shared
<1> QED BY <1>2 DEF ValidateItem

\* The form and the catalog agree with the validation.
LEMMA FormsAgree == CatalogInv => DemandedCanBeEntered
<1> SUFFICES ASSUME CatalogInv, item # NoItem PROVE DemandedCanBeEntered
  BY DEF DemandedCanBeEntered
<1>1. \A p \in Range(Params) : Shown(p) => FormShows(p, item.parameters)
  BY FormFollows
<1>2. item.quantity \in Nat /\ Wellformed(Params)
  BY ItemOf, ConstantsAssumption DEF Item
<1>3. ASSUME item.version \in Newest
      PROVE  /\ Shared(Params) \subseteq ParameterLayout(item.quantity).shared
             /\ item.quantity > 1 =>
                  PerInstance(Params) = ParameterLayout(item.quantity).per_instance
             /\ \A p \in Range(Params) :
                  LET state == ResolveOptions(p.key, item.parameters) IN
                  \/ state.raises
                  \/ /\ state.is_visible = Shown(p)
                     /\ (p.required \/ state.is_required) = Demanded(p)
             /\ item.quantity = 1 /\ CheckValues(item.parameters) = "valid"
                  => ValidateItem(Params, item) = "valid"
  <2>1. NewestParams = Params
    BY <1>3, NewestIsOurs
  <2>2. /\ Shared(Params) \subseteq ParameterLayout(item.quantity).shared
        /\ item.quantity > 1 =>
             PerInstance(Params) = ParameterLayout(item.quantity).per_instance
    BY <1>2, <2>1, LayoutAgrees
  <2>3. \A p \in Range(Params) :
          LET state == ResolveOptions(p.key, item.parameters) IN
          \/ state.raises
          \/ /\ state.is_visible = Shown(p)
             /\ (p.required \/ state.is_required) = Demanded(p)
    BY <1>2, <2>1, OptionsAgree
  <2>4. item.quantity = 1 /\ CheckValues(item.parameters) = "valid"
          => ValidateItem(Params, item) = "valid"
    BY <2>1, CheckSuffices
  <2> QED BY <2>2, <2>3, <2>4
<1> QED BY <1>1, <1>3 DEF DemandedCanBeEntered

-----------------------------------------------------------------------------
\* The tables keep their types, and the order its item: a version is
\* registered once, and its status says whether it is.
THEOREM CatalogTyped == Spec => []TypeOK
<1>1. CatalogInv => TypeOK
  BY DEF CatalogInv, Phases, OrderInv, TypeOK
<1> QED BY <1>1, CatalogInvariant, PTL

\* Whatever requesters write into an item and admins do to the catalog, a
\* value that the export takes over for a shared parameter has been validated.
THEOREM ExportsAreSound == Spec => []ExportedIsSound
BY CatalogInvariant, SoundExport, PTL

\* No block of an export misses a shared parameter that is shown and demanded.
\* That concerns the export; what a pipeline gets is another matter.
THEOREM ExportsAreComplete == Spec => []ExportedIsComplete
BY CatalogInvariant, CompleteExport, PTL

\* No block of an export contains a shared parameter that is hidden.
THEOREM HiddenIsNeverExported == Spec => []HiddenStaysOut
BY CatalogInvariant, HiddenExport, PTL

\* For any template and any values, the form shows what validation demands,
\* and what the catalog announces is what validate_order finds.
THEOREM DemandsCanBeMet == Spec => []DemandedCanBeEntered
BY CatalogInvariant, FormsAgree, PTL
=============================================================================
