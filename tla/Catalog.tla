------------------------------ MODULE Catalog ------------------------------
(***************************************************************************)
(* The versions of one service template, registered and phased out by      *)
(* admins (api/v1/catalog.py, template_repository.py), and one item that a *)
(* requester orders from them (order_service.py): its values are checked   *)
(* when the order is validated, and exported afterwards.                   *)
(*                                                                         *)
(* Each of these handlers commits once, or, in the case of update_item and *)
(* validate_order, commits an item and then its order.  Calls follow each  *)
(* other here; OrderEditing is about calls that overlap.                   *)
(***************************************************************************)
EXTENDS ParameterRules, FiniteSets

CONSTANTS
  Versions,        \* version numbers that admins register
  Definition,      \* the parameters that each version is registered with
  ItemValues,      \* values a requester enters
  InstanceValues,  \* sequences of values for the single instances
  Quantities,      \* quantities a requester orders
  NoVersion,       \* deprecated_by of a version nothing replaces
  NoItem           \* the order is empty

TemplateStatus == {"active", "deprecated", "disabled"}

ASSUME ConstantsAssumption ==
  /\ NoVersion \notin Versions
  /\ Null # Text
  /\ Quantities \subseteq Nat \ {0}
  /\ \A v \in Versions : \A p \in Range(Definition[v]) :
       DOMAIN p.depends_on \subseteq Nat  \* a list of rules

VARIABLES
  registered,     \* the versions in service_templates, oldest first
  template,       \* status of each version, "absent" without a row
  deprecated_by,  \* the version that replaces it
  order,          \* orders.status: "draft" or "validated"
  item            \* the order's item

catalogVars == <<registered, template, deprecated_by>>
orderVars   == <<order, item>>
vars        == <<registered, template, deprecated_by, order, item>>

Item == [version : Versions, parameters : ItemValues, quantity : Quantities,
         instances : InstanceValues,
         validation_state : {"unchecked", "valid", "invalid"}]

ASSUME NoItemAssumption == NoItem \notin Item

TypeOK ==
  /\ registered \in Seq(Versions)
  /\ IsInjective(registered)
  /\ \A v \in Versions : v \in Range(registered) <=> template[v] # "absent"
  /\ template \in [Versions -> TemplateStatus \cup {"absent"}]
  /\ deprecated_by \in [Versions -> Versions \cup {NoVersion}]
  /\ order \in {"draft", "validated"}
  /\ item \in Item \cup {NoItem}

Init ==
  /\ registered = <<>>
  /\ template = [v \in Versions |-> "absent"]
  /\ deprecated_by = [v \in Versions |-> NoVersion]
  /\ order = "draft"
  /\ item = NoItem

-----------------------------------------------------------------------------
(* Admins *)

CanTransition(old, new) ==
  \/ old = "active" /\ new \in {"deprecated", "disabled"}
  \/ old = "deprecated" /\ new = "disabled"

\* What TemplateValidator asks of the parameters.
Wellformed(params) ==
  /\ \E i \in DOMAIN params : params[i].required
  /\ \A i, j \in DOMAIN params :
       i # j => /\ params[i].key # params[j].key
                /\ params[i].tofu_variable_name # params[j].tofu_variable_name
  /\ \A i \in DOMAIN params :
       params[i].per_instance = "auto" => params[i].type = "string"

\* Mutant of RegisterTemplate: the unique constraint is missing.
RegisterAgain(v) ==
  /\ Wellformed(Definition[v])
  /\ registered' = Append(registered, v)
  /\ template' = [template EXCEPT ![v] = "active"]
  /\ UNCHANGED <<deprecated_by, order, item>>

\* The unique constraint on slug and version refuses a second registration.
RegisterTemplate(v) ==
  /\ Wellformed(Definition[v])
  /\ v \notin Range(registered)
  /\ registered' = Append(registered, v)
  /\ template' = [template EXCEPT ![v] = "active"]
  /\ UNCHANGED <<deprecated_by, order, item>>

\* Mutant of UpdateStatus: every status may follow every other.
UpdateStatusFreely(v, new, by) ==
  /\ v \in Range(registered)
  /\ new = "deprecated" /\ by # NoVersion => template[by] = "active"
  /\ template' = [template EXCEPT ![v] = new]
  /\ deprecated_by' =
       [deprecated_by EXCEPT ![v] = IF new = "deprecated" THEN by ELSE @]
  /\ UNCHANGED <<registered, order, item>>

\* Mutant of UpdateStatus: the replacement only has to exist.
UpdateStatusUnchecked(v, new, by) ==
  /\ v \in Range(registered)
  /\ CanTransition(template[v], new)
  /\ new = "deprecated" /\ by # NoVersion => by \in Range(registered)
  /\ template' = [template EXCEPT ![v] = new]
  /\ deprecated_by' =
       [deprecated_by EXCEPT ![v] = IF new = "deprecated" THEN by ELSE @]
  /\ UNCHANGED <<registered, order, item>>

\* deprecated_by is optional, and the version itself still counts as active.
UpdateStatus(v, new, by) ==
  /\ v \in Range(registered)
  /\ CanTransition(template[v], new)
  /\ new = "deprecated" /\ by # NoVersion => template[by] = "active"
  /\ template' = [template EXCEPT ![v] = new]
  /\ deprecated_by' =
       [deprecated_by EXCEPT ![v] = IF new = "deprecated" THEN by ELSE @]
  /\ UNCHANGED <<registered, order, item>>

-----------------------------------------------------------------------------
(* The requester *)

\* The bound is one item: its order is empty before.
AddItem(v, parameters, quantity, instances) ==
  /\ order = "draft"
  /\ item = NoItem
  /\ template[v] \in {"active", "deprecated"}
  /\ item' = [version |-> v, parameters |-> parameters,
              quantity |-> quantity, instances |-> instances,
              validation_state |-> "unchecked"]
  /\ UNCHANGED <<catalogVars, order>>

\* Mutant of UpdateItem: the order stays validated.
UpdateItemOnly(parameters) ==
  /\ item # NoItem
  /\ item' = [item EXCEPT !.parameters = parameters,
                          !.validation_state = "unchecked"]
  /\ UNCHANGED <<catalogVars, order>>

UpdateItem(parameters) ==
  /\ item # NoItem
  /\ item' = [item EXCEPT !.parameters = parameters,
                          !.validation_state = "unchecked"]
  /\ order' = "draft"
  /\ UNCHANGED catalogVars

RemoveItem ==
  /\ order = "draft"
  /\ item # NoItem
  /\ item' = NoItem
  /\ UNCHANGED <<catalogVars, order>>

\* The version is the item's own, whatever its status has become.  An
\* exception ends the call before anything is written.
ValidateOrder ==
  /\ item # NoItem
  /\ LET outcome == ValidateItem(Definition[item.version], item)
     IN /\ outcome # "error"
        /\ item' = [item EXCEPT !.validation_state = outcome]
        /\ order' = IF outcome = "valid" THEN "validated" ELSE order
  /\ UNCHANGED catalogVars

Next ==
  \/ \E v \in Versions : RegisterTemplate(v)
  \/ \E v \in Versions, new \in TemplateStatus, by \in Versions \cup {NoVersion} :
       UpdateStatus(v, new, by)
  \/ \E v \in Versions, parameters \in ItemValues, quantity \in Quantities,
       instances \in InstanceValues : AddItem(v, parameters, quantity, instances)
  \/ \E parameters \in ItemValues : UpdateItem(parameters)
  \/ RemoveItem
  \/ ValidateOrder

Spec == Init /\ [][Next]_vars

-----------------------------------------------------------------------------
(* What the requester asks the catalog about the template, by its slug *)

\* get_by_slug with status "all": the version registered last.
Newest == {registered[n] : n \in DOMAIN registered \cap {Len(registered)}}

NewestParams == Definition[CHOOSE v \in Newest : TRUE]

\* GET parameter-layout.
ParameterLayout(quantity) ==
  LET Of(kinds) == {p \in Range(NewestParams) : p.per_instance \in kinds} IN
  IF quantity <= 1
    THEN [shared |-> Range(NewestParams), per_instance |-> {}, auto |-> {}]
    ELSE [shared |-> Of({"false"}), per_instance |-> Of({"true"}), auto |-> Of({"auto"})]

\* POST validate: every parameter, however it is filled in.
CheckValues(values) == ValidateParameters(Range(NewestParams), values)

\* POST resolve-options.
ResolveOptions(key, values) ==
  LET param == CHOOSE p \in Range(NewestParams) : p.key = key
  IN ResolveDependencyState(param.depends_on, values)

-----------------------------------------------------------------------------
(* Properties *)

Params == Definition[item.version]

\* The reference: a parameter is shown if all its "visible" rules hold.
Shown(param) ==
  \A i \in DOMAIN param.depends_on :
    param.depends_on[i].effect = "visible" =>
      Evaluate(param.depends_on[i], item.parameters) = "yes"

Demanded(param) ==
  \/ param.required
  \/ \E i \in DOMAIN param.depends_on :
       /\ param.depends_on[i].effect = "required"
       /\ Evaluate(param.depends_on[i], item.parameters) = "yes"

\* The order is validated and its export does not fail.
Exported == order = "validated" /\ ~ExportRaises(Params, item)
Blocks   == ExportTofu(Params, item)

\* A value that the export takes over for a shared parameter has passed the
\* constraints of the parameter: what the export (resolve_dependency_state)
\* takes for visible, validation (is_visible) has not skipped.
ExportedIsSound ==
  Exported =>
    \A n \in DOMAIN Blocks, p \in Shared(Params), v \in Range(item.parameters) :
      <<p.tofu_variable_name, v>> \in Blocks[n] => v = Null \/ Fits(p, v)

\* Every block of the export contains a value for each shared parameter that
\* is shown and demanded by its flag or by a rule.  It is about the export
\* only: the pipeline of an item gets the values under the names of the
\* parameters (PipelineGetsExport).
ExportedIsComplete ==
  Exported =>
    \A n \in DOMAIN Blocks, p \in Shared(Params) :
      Shown(p) /\ Demanded(p) =>
        \E v \in Range(item.parameters) \ {Null} :
          <<p.tofu_variable_name, v>> \in Blocks[n]

\* A shared parameter whose "visible" rules do not all hold is in no block,
\* even if the requester had filled it in before it was hidden (REQ-113).
HiddenStaysOut ==
  Exported =>
    \A n \in DOMAIN Blocks, p \in Shared(Params) :
      ~Shown(p) => \A pair \in Blocks[n] : pair[1] # p.tofu_variable_name

\* What validation demands can be entered: the form shows every parameter
\* that the server takes for visible.  If the item is of the newest version,
\* what the catalog tells the requester beforehand agrees with what
\* validate_order finds out in loops of its own: where a parameter is filled
\* in (parameter-layout), whether it is shown and demanded (resolve-options),
\* and, for a single instance, whether the values fit (validate).
DemandedCanBeEntered ==
  item # NoItem =>
    /\ \A p \in Range(Params) : Shown(p) => FormShows(p, item.parameters)
    /\ item.version \in Newest =>
         LET layout == ParameterLayout(item.quantity) IN
         /\ Shared(Params) \subseteq layout.shared
         /\ item.quantity > 1 => PerInstance(Params) = layout.per_instance
         /\ \A p \in Range(Params) :
              LET state == ResolveOptions(p.key, item.parameters) IN
              \/ state.raises
              \/ /\ state.is_visible = Shown(p)
                 /\ (p.required \/ state.is_required) = Demanded(p)
         /\ item.quantity = 1 /\ CheckValues(item.parameters) = "valid"
              => ValidateItem(Params, item) = "valid"

\* Following deprecated_by leads from version to version without coming back,
\* except that a version may name itself.
ReplacementsLeadOn ==
  LET replaced == {v \in Versions : deprecated_by[v] \notin {NoVersion, v}}
  IN \A cycle \in SUBSET replaced :
       cycle # {} => \E v \in cycle : deprecated_by[v] \notin cycle

\* A version that was taken out of the catalog never comes back, and none is
\* deprecated twice.
StatusOnlyFalls ==
  [][\A v \in Versions :
       \/ template'[v] = template[v] /\ deprecated_by'[v] = deprecated_by[v]
       \/ template[v] = "absent" /\ template'[v] = "active"
       \/ CanTransition(template[v], template'[v])]_vars

\* REQ-46: the pipeline of a single item gets the variables of the export,
\* each as TF_VAR_<tofu_variable_name>.
PipelineGetsExport ==
  Exported /\ item.quantity = 1 => PipelineVariables(item) = Blocks[1]
=============================================================================
