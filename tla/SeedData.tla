------------------------------- MODULE SeedData -------------------------------
(***************************************************************************)
(* scripts/seed.py, which a container runs every time it starts (the CMD   *)
(* of the Dockerfile: migrate, seed, and serve only if both succeed).  The *)
(* script looks for templates and, if it finds none, commits its rows one  *)
(* by one; starts may overlap, and die at any commit.                      *)
(***************************************************************************)
EXTENDS Naturals, Sequences, FiniteSets

CONSTANTS
  Starts,   \* container starts that may overlap
  MayKill,  \* may a start be killed?
  Admin     \* may an administrator take templates out of service?

ASSUME SeedAssumption == MayKill \in BOOLEAN /\ Admin \in BOOLEAN

Templates == <<"vm-windows", "vm-linux">>

\* demo_orders: the requester, the status to reach and the number of items.
Demo ==
  << [who |-> "test-requester", upTo |-> "draft",     items |-> 1],
     [who |-> "test-requester", upTo |-> "draft",     items |-> 1],
     [who |-> "test-requester", upTo |-> "submitted", items |-> 2],
     [who |-> "test-requester", upTo |-> "validated", items |-> 1],
     [who |-> "test-requester", upTo |-> "done",      items |-> 1],
     [who |-> "test-requester", upTo |-> "done",      items |-> 1],
     [who |-> "test-admin",     upTo |-> "done",      items |-> 1],
     [who |-> "test-approver",  upTo |-> "submitted", items |-> 1] >>

\* The statuses an order goes through, one commit each.
PathTo(upTo) ==
  CASE upTo = "draft"     -> <<>>
    [] upTo = "validated" -> <<"validated">>
    [] upTo = "submitted" -> <<"validated", "submitted">>
    [] upTo = "done"      -> <<"validated", "submitted", "done">>

\* What is committed after the requests, table by table.
Rest ==
  << [table |-> "approval_rules", rows |-> 2],
     [table |-> "availability_rules", rows |-> 3],
     [table |-> "context_restrictions", rows |-> 4],
     [table |-> "user_tenant_assignments", rows |-> 11],
     [table |-> "notifications", rows |-> 8] >>

Stages == {"off", "templates", "orders", "rule", "find", "request", "pending",
           "rest", "serving", "failed"}

VARIABLES
  templates,  \* status of each template, "absent" before it is created
  demo,       \* rows of orders, in the order of their creation
  always,     \* how often the rule "Standard-Genehmigung" is there
  requested,  \* approval_requests: positions in demo
  rest,       \* rest[k]: rows of the table Rest[k]
  start       \* how far each start has come

seedVars == <<templates, demo, always, requested, rest, start>>

Off == [stage |-> "off", at |-> 0, row |-> 0, todo |-> {}]

SeedInit ==
  /\ templates = [k \in DOMAIN Templates |-> "absent"]
  /\ demo = <<>>
  /\ always = 0
  /\ requested = {}
  /\ rest = [k \in DOMAIN Rest |-> 0]
  /\ start = [s \in Starts |-> Off]

Step(s, stage, at) == start' = [start EXCEPT ![s].stage = stage, ![s].at = at]

End(s, stage) == start' = [start EXCEPT ![s] = [Off EXCEPT !.stage = stage]]

\* list_templates counts active templates, unless it is told otherwise.
SomeTemplates == \E k \in DOMAIN Templates : templates[k] = "active"

StartUp(s) ==
  /\ start[s].stage \in {"off", "serving", "failed"}
  /\ IF SomeTemplates THEN End(s, "serving") ELSE Step(s, "templates", 1)
  /\ UNCHANGED <<templates, demo, always, requested, rest>>

\* Mutant of CreateTemplate: slug and version are not unique.
CreateTemplateAgain(s) ==
  LET k == start[s].at IN
  /\ start[s].stage = "templates"
  /\ templates' = [templates EXCEPT ![k] = "active"]
  /\ IF k < Len(Templates) THEN Step(s, "templates", k + 1) ELSE Step(s, "orders", 1)
  /\ UNCHANGED <<demo, always, requested, rest>>

\* (slug, version) is unique: a template that is there, in whatever status,
\* raises an error nobody catches.
CreateTemplate(s) ==
  LET k == start[s].at IN
  /\ start[s].stage = "templates"
  /\ IF templates[k] = "absent"
       THEN /\ templates' = [templates EXCEPT ![k] = "active"]
            /\ IF k < Len(Templates) THEN Step(s, "templates", k + 1)
                                     ELSE Step(s, "orders", 1)
       ELSE End(s, "failed") /\ UNCHANGED templates
  /\ UNCHANGED <<demo, always, requested, rest>>

(***************************************************************************)
(* Orders, the rule that always matches, and requests for what is submitted *)
(***************************************************************************)
CreateDemoOrder(s) ==
  /\ start[s].stage = "orders"
  /\ start[s].row = 0
  /\ demo' = Append(demo, [of |-> start[s].at, items |-> 0, status |-> "draft"])
  /\ start' = [start EXCEPT ![s].row = Len(demo) + 1]
  /\ UNCHANGED <<templates, always, requested, rest>>

\* Whatever is created, the script does not touch provisioning_status: the
\* items of orders that are done stay "not_started".
AddDemoItem(s) ==
  LET r == start[s].row IN
  /\ start[s].stage = "orders" /\ r # 0
  /\ demo[r].items < Demo[start[s].at].items
  /\ demo' = [demo EXCEPT ![r].items = @ + 1]
  /\ UNCHANGED <<templates, always, requested, rest, start>>

\* The status after the one an order has, on its way.
Following(path, status) ==
  IF status = "draft" THEN path[1]
  ELSE path[1 + CHOOSE k \in DOMAIN path : path[k] = status]

AdvanceDemoOrder(s) ==
  LET r == start[s].row  k == start[s].at  path == PathTo(Demo[k].upTo) IN
  /\ start[s].stage = "orders" /\ r # 0
  /\ demo[r].items = Demo[k].items
  /\ demo[r].status # Demo[k].upTo
  /\ demo' = [demo EXCEPT ![r].status = Following(path, @)]
  /\ UNCHANGED <<templates, always, requested, rest, start>>

NextDemoOrder(s) ==
  LET r == start[s].row  k == start[s].at IN
  /\ start[s].stage = "orders" /\ r # 0
  /\ demo[r].items = Demo[k].items
  /\ demo[r].status = Demo[k].upTo
  /\ start' = [start EXCEPT ![s].row = 0, ![s].at = (k % Len(Demo)) + 1,
                            ![s].stage = IF k = Len(Demo) THEN "rule" ELSE "orders"]
  /\ UNCHANGED <<templates, demo, always, requested, rest>>

CreateAlwaysRule(s) ==
  /\ start[s].stage = "rule"
  /\ always' = always + 1
  /\ Step(s, "find", 0)
  /\ UNCHANGED <<templates, demo, requested, rest>>

\* One query for the orders, then two commits for each.
FindSubmitted(s) ==
  /\ start[s].stage = "find"
  /\ start' = [start EXCEPT ![s].stage = "request",
                 ![s].todo = {r \in DOMAIN demo :
                                demo[r].status \in {"submitted", "pending_approval"}}]
  /\ UNCHANGED <<templates, demo, always, requested, rest>>

First(S) == CHOOSE r \in S : \A q \in S : r <= q

RequestApproval(s) ==
  /\ start[s].stage = "request"
  /\ IF start[s].todo = {}
       THEN Step(s, "rest", 1) /\ UNCHANGED requested
       ELSE /\ requested' = requested \cup {First(start[s].todo)}
            /\ Step(s, "pending", First(start[s].todo))
  /\ UNCHANGED <<templates, demo, always, rest>>

SetPending(s) ==
  LET r == start[s].at IN
  /\ start[s].stage = "pending"
  /\ demo' = [demo EXCEPT ![r].status = "pending_approval"]
  /\ start' = [start EXCEPT ![s].stage = "request", ![s].at = 0, ![s].todo = @ \ {r}]
  /\ UNCHANGED <<templates, always, requested, rest>>

(***************************************************************************)
(* The rest, and what happens around the script                            *)
(***************************************************************************)
FillRest(s) ==
  LET k == start[s].at IN
  /\ start[s].stage = "rest"
  /\ rest' = [rest EXCEPT ![k] = @ + 1]
  /\ IF rest[k] + 1 < Rest[k].rows THEN UNCHANGED start
     ELSE IF k < Len(Rest) THEN Step(s, "rest", k + 1) ELSE End(s, "serving")
  /\ UNCHANGED <<templates, demo, always, requested>>

Kill(s) ==
  /\ MayKill
  /\ start[s].stage \notin {"off", "failed"}
  /\ End(s, "off")
  /\ UNCHANGED <<templates, demo, always, requested, rest>>

\* PATCH on a template, served by a container that is up: deprecated or
\* disabled, and never active again by the code of the catalog.
Retire(k) ==
  /\ Admin
  /\ \E s \in Starts : start[s].stage = "serving"
  /\ templates[k] = "active"
  /\ templates' = [templates EXCEPT ![k] = "retired"]
  /\ UNCHANGED <<demo, always, requested, rest, start>>

SeedNext ==
  \/ \E s \in Starts :
       \/ StartUp(s) \/ CreateTemplate(s)
       \/ CreateDemoOrder(s) \/ AddDemoItem(s) \/ AdvanceDemoOrder(s) \/ NextDemoOrder(s)
       \/ CreateAlwaysRule(s) \/ FindSubmitted(s) \/ RequestApproval(s) \/ SetPending(s)
       \/ FillRest(s) \/ Kill(s)
  \/ \E k \in DOMAIN Templates : Retire(k)

SeedSpec == SeedInit /\ [][SeedNext]_seedVars

(***************************************************************************)
(* Properties                                                              *)
(***************************************************************************)
\* However starts overlap, die and are repeated, the demo data is there at
\* most once: the template that is created first is what stands between two
\* starts (seed.py:429).
SeededOnce ==
  /\ \A q, r \in DOMAIN demo : demo[q].of = demo[r].of => q = r
  /\ always <= 1
  /\ \A k \in DOMAIN Rest : rest[k] <= Rest[k].rows
==============================================================================
