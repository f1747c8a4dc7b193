----------------------------- MODULE ContextRules -----------------------------
(***************************************************************************)
(* Availability rules and context restrictions                             *)
(* (context_rule_repository.py, the first and third part of                *)
(* api/v1/context.py).  The ordering of a service never asks them: only    *)
(* the wizard does, through check-availability and resolve-parameters.     *)
(***************************************************************************)
EXTENDS Handlers, Integers, Sequences, SequencesExt

CONSTANTS
  AvailabilityIds, \* bound on the rules ever created
  RestrictionIds,  \* bound on the restrictions ever created
  Priorities,
  Circumstances,   \* contexts a client may ask about, functions of keys
  Conditions,      \* conditions of rules, functions of some of the keys
  Effects          \* effects of restrictions: constraint |-> value

ASSUME ContextRuleAssumption == Priorities \subseteq Int

VARIABLES
  availability,  \* rows of availability_rules for one template
  restrictions   \* rows of context_restrictions for it and one parameter

contextRuleVars == <<pc, availability, restrictions>>

NoContextRule == [present |-> FALSE]

AvailabilityRows ==
  [present : {TRUE}, type : {"allow", "deny"}, conditions : Conditions,
   priority : Priorities, active : BOOLEAN]

RestrictionRows ==
  [present : {TRUE}, effect : Effects, conditions : Conditions,
   priority : Priorities]

ContextRuleInit ==
  /\ PcInit
  /\ availability = [r \in AvailabilityIds |-> NoContextRule]
  /\ restrictions = [r \in RestrictionIds |-> NoContextRule]

(***************************************************************************)
(* Asking                                                                  *)
(***************************************************************************)
\* _conditions_match: every key a condition names has its value.
ConditionsMatch(conditions, context) ==
  \A key \in DOMAIN conditions :
    key \in DOMAIN context /\ context[key] = conditions[key]

\* Mutant of Ordered: the weakest comes first.
Ascending(rows, ids) ==
  {s \in SetToSeqs(ids) :
     \A k \in 1 .. Len(s) - 1 : rows[s[k]].priority <= rows[s[k + 1]].priority}

\* ORDER BY priority DESC: rows of one priority come in any order.
Ordered(rows, ids) ==
  {s \in SetToSeqs(ids) :
     \A k \in 1 .. Len(s) - 1 : rows[s[k]].priority >= rows[s[k + 1]].priority}

\* The active rules whose conditions match; restrictions are always active.
RulesFor(context) ==
  {r \in AvailabilityIds :
     /\ availability[r].present
     /\ availability[r].active
     /\ ConditionsMatch(availability[r].conditions, context)}

RestrictionsFor(context) ==
  {r \in RestrictionIds :
     /\ restrictions[r].present
     /\ ConditionsMatch(restrictions[r].conditions, context)}

\* check_availability: the first rule that matches decides, and without one
\* the service is available.  Filtering before sorting changes nothing.
CheckAvailability(context) ==
  {s = <<>> \/ availability[s[1]].type = "allow" :
     s \in Ordered(availability, RulesFor(context))}

\* One round of the loop of resolve_parameters: a constraint that is there
\* stays.
AddMissing(merged, effect) ==
  [c \in DOMAIN merged \cup DOMAIN effect |->
     IF c \in DOMAIN merged THEN merged[c] ELSE effect[c]]

\* Mutant of MergeEffects: what comes later overrides.
MergeOverriding(s) ==
  LET merged[k \in 0 .. Len(s)] ==
        IF k = 0 THEN <<>> ELSE AddMissing(restrictions[s[k]].effect, merged[k - 1])
  IN merged[Len(s)]

\* Restriction by restriction, the strongest first.
MergeEffects(s) ==
  LET merged[k \in 0 .. Len(s)] ==
        IF k = 0 THEN <<>> ELSE AddMissing(merged[k - 1], restrictions[s[k]].effect)
  IN merged[Len(s)]

ResolveParameters(context) ==
  {MergeEffects(s) : s \in Ordered(restrictions, RestrictionsFor(context))}

(***************************************************************************)
(* /admin/context/availability-rules and /admin/context/restrictions       *)
(***************************************************************************)
CreateAvailabilityRule(w, r, row) ==
  /\ Begin(w, "create_availability")
  /\ ~availability[r].present
  /\ row.active
  /\ availability' = [availability EXCEPT ![r] = row]
  /\ UNCHANGED <<pc, restrictions>>

\* PATCH sets whatever attributes it is given.
UpdateAvailabilityRule(w, r, row) ==
  /\ Begin(w, "update_availability")
  /\ availability[r].present
  /\ availability' = [availability EXCEPT ![r] = row]
  /\ UNCHANGED <<pc, restrictions>>

DeleteAvailabilityRule(w, r) ==
  /\ Begin(w, "delete_availability")
  /\ availability[r].present
  /\ availability' = [availability EXCEPT ![r] = NoContextRule]
  /\ UNCHANGED <<pc, restrictions>>

\* No endpoint updates a restriction.
CreateRestriction(w, r, row) ==
  /\ Begin(w, "create_restriction")
  /\ ~restrictions[r].present
  /\ restrictions' = [restrictions EXCEPT ![r] = row]
  /\ UNCHANGED <<pc, availability>>

DeleteRestriction(w, r) ==
  /\ Begin(w, "delete_restriction")
  /\ restrictions[r].present
  /\ restrictions' = [restrictions EXCEPT ![r] = NoContextRule]
  /\ UNCHANGED <<pc, availability>>

ContextRuleNext ==
  \E w \in Workers :
    \/ \E r \in AvailabilityIds :
         \/ \E row \in AvailabilityRows :
              CreateAvailabilityRule(w, r, row) \/ UpdateAvailabilityRule(w, r, row)
         \/ DeleteAvailabilityRule(w, r)
    \/ \E r \in RestrictionIds :
         \/ \E row \in RestrictionRows : CreateRestriction(w, r, row)
         \/ DeleteRestriction(w, r)

ContextRuleSpec == ContextRuleInit /\ [][ContextRuleNext]_contextRuleVars

(***************************************************************************)
(* Properties                                                              *)
(***************************************************************************)
Strongest(rows, ids) ==
  {r \in ids : \A q \in ids : rows[q].priority <= rows[r].priority}

\* Whether a service is available is what the strongest rules that apply say:
\* a weaker rule changes nothing, and only rules of equal priority that
\* disagree leave the answer to the database (context_rule_repository.py:60).
StrongestRuleDecides ==
  \A context \in Circumstances :
    LET strongest == Strongest(availability, RulesFor(context)) IN
    CheckAvailability(context) =
      IF strongest = {} THEN {TRUE}
      ELSE {availability[r].type = "allow" : r \in strongest}

\* Every constraint of a restriction that applies is in force, with the value
\* of one that is strongest among those that set it (context.py:124).
StrongestRestrictionDecides ==
  \A context \in Circumstances :
    LET applies   == RestrictionsFor(context)
        Setting(c) == {r \in applies : c \in DOMAIN restrictions[r].effect}
    IN
    \A merged \in ResolveParameters(context) :
      /\ DOMAIN merged = UNION {DOMAIN restrictions[r].effect : r \in applies}
      /\ \A c \in DOMAIN merged :
           \E r \in Strongest(restrictions, Setting(c)) :
             merged[c] = restrictions[r].effect[c]
==============================================================================
