---------------------------- MODULE ApprovalRules ----------------------------
(***************************************************************************)
(* The rules that decide whether a submitted order needs an approval, and  *)
(* the settings approvals are made under (approval_service.py,             *)
(* approval_repository.py, api/v1/approvals.py, /admin/config in           *)
(* api/v1/admin.py).  OrderWorkflow follows one order through what is      *)
(* decided here; here many rules meet many orders, of which only the       *)
(* approval requests are kept.                                             *)
(***************************************************************************)
EXTENDS Handlers, Integers, FiniteSets, FiniteSetsExt

CONSTANTS
  RuleIds,       \* bound on the rules ever created
  Submitted,     \* the orders
  RequesterOf,   \* RequesterOf[o]: who placed order o
  Basket,        \* Basket[o]: the slugs of its items, by position
  Deciders,      \* approvers and administrators
  Costs,         \* Costs[slug]: estimated monthly cost, null counting as 0
  AlwaysNeeded,  \* slugs of templates with approval_always_required
  ServiceTypes,  \* ServiceTypes[slug]: itself, and what it lies below ("vm/")
  Thresholds,    \* amounts a cost rule may be given
  NoThreshold,   \* null
  NoSlug

RuleKinds == {"always", "cost_threshold", "service_type"}

\* The "rule" that stands for a template's own flag.
TemplateFlag == "template_flag"

\* Slugs that get_by_slug finds no active or deprecated template for are
\* not in the domain of Costs.
Offered == DOMAIN Costs

ASSUME RuleAssumption ==
  /\ TemplateFlag \notin RuleIds
  /\ \A slug \in Offered : Costs[slug] \in Nat
  /\ Thresholds \subseteq Nat

VARIABLES
  rules,     \* rows of approval_rules
  asked,     \* asked[o]: the row of approval_requests for order o
  settings,  \* settings[w]: may requesters approve?  app.config of worker w
  ruleLoc    \* what a worker's session and local variables hold

ruleVars == <<pc, rules, asked, settings, ruleLoc>>

NoRule == [kind |-> "absent", active |-> FALSE, threshold |-> NoThreshold,
           slug |-> NoSlug]

NotAsked == [status |-> "none", rules |-> {}, by |-> "nobody"]

NoRuleLoc == [order |-> 0, matched |-> {}, rule |-> 0]

RuleInit ==
  /\ PcInit
  /\ rules = [r \in RuleIds |-> NoRule]
  /\ asked = [o \in Submitted |-> NotAsked]
  /\ settings = [w \in Workers |-> FALSE]
  /\ ruleLoc = [w \in Workers |-> NoRuleLoc]

Existing == {r \in RuleIds : rules[r].kind # "absent"}
Active   == {r \in Existing : rules[r].active}

(***************************************************************************)
(* evaluate_rules                                                          *)
(***************************************************************************)
\* Items whose template is offered; the others count for nothing.
Priced(o) == {i \in DOMAIN Basket[o] : Basket[o][i] \in Offered}

TotalCost(o) == MapThenSumSet(LAMBDA i : Costs[Basket[o][i]], Priced(o))

\* A cost rule without a threshold raises a TypeError, and so does a rule
\* about a service without a slug if there is an item to compare it with.
Evaluable(o) ==
  \A r \in Active :
    /\ rules[r].kind = "cost_threshold" => rules[r].threshold # NoThreshold
    /\ rules[r].kind = "service_type" => rules[r].slug # NoSlug \/ Priced(o) = {}

RuleMatches(r, o) ==
  \/ rules[r].kind = "always"
  \/ /\ rules[r].kind = "cost_threshold"
     /\ TotalCost(o) > rules[r].threshold
  \/ /\ rules[r].kind = "service_type"
     /\ \E i \in Priced(o) : rules[r].slug \in ServiceTypes[Basket[o][i]]

Matched(o) ==
  {r \in Active : RuleMatches(r, o)}
    \cup (IF \E i \in Priced(o) : Basket[o][i] \in AlwaysNeeded
            THEN {TemplateFlag} ELSE {})

HoldRule(w, label, local) ==
  /\ Goto(w, label)
  /\ ruleLoc' = [ruleLoc EXCEPT ![w] = local]

EndRule(w) == HoldRule(w, "idle", NoRuleLoc)

\* post_submit: no match, or an error in a rule, and nobody is asked.
EvaluateRules(w, o) ==
  /\ Begin(w, "submit")
  /\ asked[o] = NotAsked
  /\ Evaluable(o)
  /\ Matched(o) # {}
  /\ HoldRule(w, "ask", [NoRuleLoc EXCEPT !.order = o, !.matched = Matched(o)])
  /\ UNCHANGED <<rules, asked, settings>>

\* order_id is unique in approval_requests.
AskApproval(w) ==
  LET l == ruleLoc[w] IN
  /\ At(w, "ask")
  /\ asked' = [asked EXCEPT ![l.order] =
                 IF @.status = "none"
                   THEN [NotAsked EXCEPT !.status = "pending", !.rules = l.matched]
                   ELSE @]
  /\ EndRule(w)
  /\ UNCHANGED <<rules, settings>>

(***************************************************************************)
(* approve, reject                                                         *)
(***************************************************************************)
\* The worker's own setting counts.  decide_request updates a row that is
\* pending, and no other.
Approve(w, o, who) ==
  /\ Begin(w, "decide")
  /\ settings[w] \/ who # RequesterOf[o]
  /\ asked[o].status = "pending"
  /\ asked' = [asked EXCEPT ![o].status = "approved", ![o].by = who]
  /\ UNCHANGED <<pc, rules, settings, ruleLoc>>

\* Nobody looks at who placed the order.
Reject(w, o, who) ==
  /\ Begin(w, "decide")
  /\ asked[o].status = "pending"
  /\ asked' = [asked EXCEPT ![o].status = "rejected", ![o].by = who]
  /\ UNCHANGED <<pc, rules, settings, ruleLoc>>

(***************************************************************************)
(* /admin/approval-rules                                                   *)
(***************************************************************************)
RuleRows ==
  [kind : RuleKinds, active : BOOLEAN, threshold : Thresholds \cup {NoThreshold},
   slug : UNION {ServiceTypes[s] : s \in Offered} \cup {NoSlug}]

\* A threshold or slug that the kind does not read is left out.
Readable(row) ==
  /\ row.kind # "cost_threshold" => row.threshold = NoThreshold
  /\ row.kind # "service_type" => row.slug = NoSlug

CreateRule(w, r, row) ==
  /\ Begin(w, "create_rule")
  /\ r \notin Existing
  /\ rules' = [rules EXCEPT ![r] = row]
  /\ UNCHANGED <<pc, asked, settings, ruleLoc>>

UpdateRule(w, r, row) ==
  /\ Begin(w, "update_rule")
  /\ r \in Existing
  /\ rules' = [rules EXCEPT ![r] = row]
  /\ UNCHANGED <<pc, asked, settings, ruleLoc>>

\* Mutant of DeleteRuleRead: pending requests are not looked at.
DeleteRuleUnasked(w, r) ==
  /\ Begin(w, "delete_rule")
  /\ r \in Existing
  /\ HoldRule(w, "delete_rule", [NoRuleLoc EXCEPT !.rule = r])
  /\ UNCHANGED <<rules, asked, settings>>

\* A rule that a pending request names is not deleted.
DeleteRuleRead(w, r) ==
  /\ Begin(w, "delete_rule")
  /\ r \in Existing
  /\ \A o \in Submitted : asked[o].status = "pending" => r \notin asked[o].rules
  /\ HoldRule(w, "delete_rule", [NoRuleLoc EXCEPT !.rule = r])
  /\ UNCHANGED <<rules, asked, settings>>

DeleteRule(w) ==
  /\ At(w, "delete_rule")
  /\ rules' = [rules EXCEPT ![ruleLoc[w].rule] = NoRule]
  /\ EndRule(w)
  /\ UNCHANGED <<asked, settings>>

(***************************************************************************)
(* PUT /admin/approval-settings and /admin/config: the memory of the one   *)
(* worker that gets the call.  The deadlines they set are left out.        *)
(***************************************************************************)
PutSettings(w, self) ==
  /\ Begin(w, "settings")
  /\ settings' = [settings EXCEPT ![w] = self]
  /\ UNCHANGED <<pc, rules, asked, ruleLoc>>

\* The other endpoint bounds the deadline, and sets the rest as it is given.
PutConfig(w, self) ==
  /\ Begin(w, "config")
  /\ settings' = [settings EXCEPT ![w] = self]
  /\ UNCHANGED <<pc, rules, asked, ruleLoc>>

ApprovalRulesNext ==
  \E w \in Workers :
    \/ \E o \in Submitted :
         \/ EvaluateRules(w, o)
         \/ \E who \in Deciders : Approve(w, o, who) \/ Reject(w, o, who)
    \/ AskApproval(w)
    \/ \E r \in RuleIds :
         \/ \E row \in {x \in RuleRows : Readable(x)} :
              CreateRule(w, r, row) \/ UpdateRule(w, r, row)
         \/ DeleteRuleRead(w, r)
    \/ DeleteRule(w)
    \/ \E self \in BOOLEAN : PutSettings(w, self) \/ PutConfig(w, self)

ApprovalRulesSpec == RuleInit /\ [][ApprovalRulesNext]_ruleVars

(***************************************************************************)
(* Properties                                                              *)
(***************************************************************************)
\* No request waits for a decision about a rule that is gone, although
\* nothing but delete_rule ties the two tables together: unless the rule was
\* deleted by a call that began before the request was made, or was found to
\* match before it was deleted (approval_repository.py:50).
RulesInUseExist ==
  \A o \in Submitted :
    asked[o].status = "pending" => asked[o].rules \subseteq Existing \cup {TemplateFlag}
==============================================================================
