# MPP: verification of the order workflow and what surrounds it

The marketplace portal (MPP) lets a requester compose an order from service
templates, decides whether it needs an approval, and has GitLab pipelines
provision its items. These modules model the backend under `src/app`: how an
order travels from draft to done, and what happens when calls overlap, workers
die and GitLab's answers get lost; how the values of an item are judged and
exported by the rules of its template; and the components around the order, from
its number and its groups to subscriptions, credential links and the seed data.

## The system

| Component | State | Operations | Talks to |
|---|---|---|---|
| Order editing (`order_service.py`, `order_items.py`, `orders.py`) | `orders.status`, `business_reason`, rows of `order_items` (parameters, `validation_state`) | add, update, remove, validate, patch, delete | catalog (validation), context |
| Submission (`submit_order`, `post_submit`) | `orders.status` | submit, then rules, request or dispatch, notification, subscriptions | approval, provisioning, notifications, subscriptions |
| Approval (`approval_service.py`, `approval_repository.py`, `approvals.py`) | `approval_requests`, `approval_rules`, settings in process memory | evaluate rules, create request, approve, reject, timeouts | orders |
| Provisioning (`provisioning_service.py`, `gitlab_client.py`) | `order_items.provisioning_status`, `job_id`, `dispatch_logs` | dispatch order, dispatch item, poll, webhook | GitLab, orders |
| Subscriptions (`subscription_service.py`) | `subscriptions`, `group_subscriptions` | create from order, change, cancel, approve, reject | orders |
| Catalog (`catalog_service.py`, `domain/catalog.py`, `template_validator.py`) | `service_templates` | validate parameters, dependency state, versions, deprecation | orders |
| Order creation and context (`context_service.py`, `context_rule_repository.py`, `tenant_repository.py`) | order numbers, availability rules, restrictions, tenant assignments | resolve and offer contexts, number and insert an order, check availability, merge restrictions, administer all three | CMDB, orders |
| Groups (`order_groups.py`) | `order_item_groups` | create, delete, reorder, assign items | orders |
| Credentials (`credential_service.py`) | `credential_links` | create link, retrieve once | - |
| Notifications (`notification_service.py`) | `notifications` | send, mark one, mark all, count | orders |
| Search, dashboards, resources (`search_service.py`, `dashboard_service.py`, `resource_service.py`, `admin.py`) | none | lists and counts | orders, items, requests |
| Seed (`scripts/seed.py`) | a row of nearly every table | insert demo data once, at every start of a container | all |
| Audit, authentication, the rest of the frontend | - | - | - |

The server is gunicorn with three synchronous workers (`deploy/install.sh:140`).
A worker handles one request at a time, with one SQLAlchemy session that is
closed when the request ends (`app/__init__.py:45-55`). The database is
PostgreSQL at READ COMMITTED; reads take no locks, and after a commit the
objects of a session are read again. There is no queue, and no lock of the
application's own: what makes the system hard is that a handler consists of
several transactions, that between any two of them other handlers commit, and
that `post_submit` goes on after most failures.

What makes each component correct:

* editing: what is validated and submitted really is valid, and stays as it is;
* submission: a dispatch tries every item and passes no approver who was asked, and
  success is reported only when all follow-up work is done;
* approval: one final decision, the order follows it, nothing runs before it;
* catalog: what the export hands on has been validated and is visible, nothing
  demanded is missing in it, and a deprecated version leads to one that replaces it;
* provisioning: one pipeline for each item, items and jobs belong together, no
  pipeline runs unnoticed, "done" means that everything succeeded;
* creation: a context that the portal offers is accepted, an order number is free
  when it is read;
* groups: items lie in groups that are there, and not too many are;
* subscriptions: owners ask and approvers decide, once each, and only what was
  granted becomes a parameter;
* credential links: one delivery; notifications: counts that add up;
* approval rules: the rule a request waits for exists; context rules: the
  strongest decides;
* views: dashboards count what the lists show; seed: demo data is there once.

## Modules

| Module | Models |
|---|---|
| `OrderStatuses` | the status values and the transition tables of `app/domain/order.py` and `provisioning.py`, and the mapping of GitLab's statuses. The repositories do not consult the tables: they are the yardstick of `LegalTransitions` |
| `OrderEditing` | one order from draft to submission |
| `OrderWorkflow` | one validated order from submission to its end: submission, approval, dispatch, polling, webhook, GitLab |
| `OrderLifecycle` | the abstract specification: order and decision move together in atomic steps along the table |
| `OrderWorkflowProofs` | theorems about `OrderWorkflow` for any assignment of calls: what holds however calls overlap |
| `OrderPromisesProofs` | theorems about `OrderWorkflow` and `OrderViews` on top of these: what a success, a log entry and "done" mean, how far overlapping dispatches get, and the refinement of `OrderLifecycle` for one process that operates the order |
| `OrderEditingProofs` | theorems about `OrderEditing` |
| `ParameterRules` | dependency rules, validation, export, pipeline variables and the visibility of form fields, as operators without state |
| `Catalog` | the versions of one template and one item ordered from them; judges and exports it with `ParameterRules` |
| `CatalogProofs` | theorems about `Catalog` and the operators of `ParameterRules` |
| `Handlers` | what the following modules share: workers that begin a call, go on and reply |
| `OrderCreation` | resolving and offering contexts, tenant assignments, order numbers, inserting and deleting orders |
| `OrderGroups` | the groups of draft orders and the items in them |
| `Subscriptions` | the subscriptions of one order, commit by commit |
| `SubscriptionLifecycle` | the abstract specification: asked at once, decided at once |
| `CredentialLinks` | one-time links |
| `Notifications` | the read marks of one recipient |
| `ApprovalRules` | rules, requests of several orders, and the settings of each worker |
| `ContextRules` | availability rules and restrictions of one template and parameter |
| `SeedData` | the start of a container with the seed script |
| `OrderViews` | lists, search and dashboards, over the states of `OrderWorkflow` |
| `OrderGroupsProofs`, `CredentialLinksProofs`, `SubscriptionsProofs` | theorems about the three |
| `SatelliteProofs` | theorems about `Notifications`, `OrderCreation`, `SeedData` and `ContextRules`, a section for each |
| `MCOrderEditing`, `MCOrderWorkflow`, `MCCatalog`, `MCSatellites` | the instances that TLC checks; `MCSatellites` puts the modules from `OrderCreation` to `SeedData` next to each other |

### How actions correspond to the code

A worker `w` stands at `pc[w]`; `loc[w]` holds what its session and its local
variables have loaded. The granularity is the transaction: **one action for
every commit, and one for every read that a later commit relies on**. An action
`XRead` is the beginning of a handler up to its test; `XWrite` is the commit that
follows and repeats no test. Refused calls (404, 403, 409) reply and
change nothing. The details of SQLAlchemy that decide what a later commit writes
are in the model:

* an attribute is written only if it differs from the loaded value
  (`CommitItem`, `ValidateWrite`);
* a loaded status is used until the next commit expires it (`seen`);
* a query flushes pending changes, so the item's row is locked from the flush to
  the commit (`RowFree`);
* a violated unique constraint makes the session unusable: the exception handler
  that reads the order fails in turn, and the call ends with an error
  (`CreateRequest`, `Subscribe`);
* uncommitted changes vanish with the session: `sync_item_status` keeps the new
  status of an item only if it also finishes the order (`Aggregate`).

GitLab is external: a pipeline is created, runs and ends in any way of
`PipelineEnds`; the call that triggers it may be refused, or create the
pipeline and lose the answer (`timed_out`). `canceled` stands for every status
the code does not map. A crash drops the session of one worker at any of its
steps.

In `Catalog` every call is one action: it is about what values mean, and
`OrderEditing` about calls that overlap. Values are numbers, `Null` or `Text`;
what matters of a value is whether it satisfies a rule or a constraint and
whether comparing it raises a `TypeError`, which `Evaluate` yields as an outcome
of its own. `all()` and `any()` stop early, `resolve_dependency_state` does not:
`FirstOther` and `raises` keep the difference. Which parameter of a template comes
first settles nothing, so that validation and export go over sets of them
(`Shared`, `ExportedParams`). A template's parameters (`Definition`) never change
once it is registered, so they are a constant.
`Wellformed` keeps the conditions of `TemplateValidator` that relate parameters
to each other, and leaves out patterns, lengths and costs.

The catalog answers three questions about a template before anything is ordered:
`ParameterLayout`, `ResolveOptions` and `CheckValues`. They go by the slug and
find the version registered last, whatever its status and whatever version the
item has; `DemandedCanBeEntered` compares them with `validate_order` for an item
of that version.

The smaller components follow the same rule of one action for a commit and one
for the read it relies on (`pc` of `Handlers`, and one variable of locals each):

* `OrderCreation`: `CreateRead` is the resolution of the context, `ReadNumber` the
  query for the greatest number, `Insert` the row with its unique constraint.
  Numbers are compared as strings (`SortsBefore`): with padding exhausted, the
  greatest string no longer is the greatest number. A database error while the
  tenants of a user are read is swallowed, and all tenants pass.
* `OrderGroups`: the count, the greatest position and the insert of a new group
  are three steps. The foreign key sets `group_id` to null when a group is deleted
  and refuses one that is gone. A call names items under an order, which the code
  does not compare: `Addressed` says which.
* `Subscriptions`: requests and decisions are two commits each, for the pending
  changes and for the status; `Written` is SQLAlchemy's omission of attributes that
  are set to the value they were loaded with.
* `CredentialLinks`: `RetrieveRead` tests, `Consume` commits, `Deliver` replies.
* `Notifications`: `mark_read` reads and writes, `mark_all_read` is one statement.
* `ApprovalRules`: `EvaluateRules` raises, as the code does, for a rule without the
  amount or the slug it needs (`Evaluable`). `PutSettings` and `PutConfig` change
  the memory of the worker that serves them and of no other.
* `ContextRules`: sorting by priority, matching of conditions, first match, and
  effects merged without overriding, one round of `merged` for each restriction.
* `SeedData`: one step for each commit of the script; `Following` is the next status
  of a demo order.

### Environment assumptions

* `Calls[w]` says which calls a worker may get. Calls of one worker never
  overlap; a run for overlapping calls gives them to different workers.
* `DispatchWhen` says in which statuses an admin uses the dispatch endpoint. The
  endpoint itself never looks at the order's status.
* Nothing in `src/app` calls `process_timeouts` or `sync_item_status`. They are
  modelled as the calls of a job that would.
* Evaluating the approval rules yields one of `RuleOutcomes`: some rule matches,
  none does, or the evaluation raises an exception.

## Runs

| Run | Question | Bounds |
|---|---|---|
| `workflow_sequential` | Do calls that follow each other keep to the status table and start one pipeline for each item? | one worker, two items, two pipelines, every call, created and refused triggers |
| `workflow_decisions` | One decision, followed by the order, with approvers, timeout job, admin and crashes overlapping? Does a submission ever dispatch what waits for a decision? Does `done` mean success, and do dashboards and lists agree at every moment? Does the workflow implement `OrderLifecycle`? | three workers, one item, two pipelines, crashes, refused triggers, lost answers |
| `workflow_dispatch` | Do items, jobs, logs and subscriptions fit when two submissions and an admin's calls overlap? How far do the overlapping dispatches get, and does a refused trigger keep the loop from the next item? | two workers, two items, three pipelines, created and refused triggers, no crashes |
| `polling_two_items` | violated: polling both items of an order never makes it `done` (REQ-156) | two workers, two items, both pipelines succeed |
| `editing_sequential` | Are validated and submitted orders sound, and submitted ones frozen? | one worker, three items, crashes at all steps but two |
| `double_dispatch` | violated: two admins start two pipelines for one item (REQ-99) | two workers, one item |
| `timeout_forgets_order` | violated: the timeout job leaves the order in `pending_approval` (REQ-33) | one worker |
| `webhook_ignored` | violated: webhooks never finish an order (REQ-53) | two workers, one pipeline |
| `stale_validation` | violated: new parameters end up marked as valid (EC-89) | two workers, one item |
| `catalog_sequential` | Does the export of a validated item hold what is visible, validated and demanded, and nothing else? Can the form show what validation demands? Do deprecations lead somewhere? | two versions with three and four parameters, one item, 48 combinations of values, four of instances, quantities 1 and 2 |
| `pipeline_variables` | violated: pipelines get the values under other names than the export (REQ-46) | as above |
| `satellites` | Does each component around the order keep its promise, to the extent that unlocked tests allow? Do subscriptions implement `SubscriptionLifecycle`? | eight parts, two workers or two container starts that overlap and die; see below |

Bounds. Two items are the least with which an item can be dispatched while
another is not; dispatch and polling treat items one by one. Three pipelines for
two items allow a second dispatch of one of them. But an order of two items never
gets to `done` (`polling_two_items`), so whatever is said of `done` is checked in
`workflow_decisions`: there the order has one item, and its runs reach `done` and
`failed`, at once and after a lost answer and a retry. The decision concerns the
order, so one item suffices for it as well; three workers let
a submission, an approver and another approver or the timeout job be under way
at the same time. In `workflow_dispatch` pipelines run or fail; how one succeeds
is the matter of `workflow_decisions`. Validation runs over a sequence of items, so three are used:
a first, a middle and a last one. `MaxPipelines` and `MaxItems` only limit how
much is ever created: a call that would exceed them does not happen.

`MCCatalog` defines two versions: with them a version can replace another and be
replaced itself. Their rules use six of the eight operators, all three
effects, a rule on a parameter that itself has rules, and parameters of all
three `per_instance` kinds; the dependent parameter is left out, fitting, wrong,
text and null in turn. Without overlaps one item is enough, since items are
validated and exported independently. In this model the system may really stop:
both versions disabled and no item in the order leave nothing to do, so deadlock
is not checked there.

`satellites` explores eight components one at a time: the initial states choose
the `part` that moves, the others rest. They share no row, and the transactions of
one never read what another writes, so their product would show nothing more. Any
of them may come to an end, so deadlock is not checked. The bounds:

* creation: digits to the base 3 and a padding for 2 (`Limit`), so that the
  third and fourth number are the ones that no longer fit; two locations with a
  network each, two tenants, any assignment of them at the start;
* groups: a limit of one group and three groups, so that the limit is reached,
  passed and reached again after a deletion; an item that is also named under the
  wrong order;
* subscriptions: two, one in a group; one worker asks and one decides;
* links and notifications: one each, which two workers fight for;
* approval rules: two rules of any kind, two orders, of which one has an item
  without a template, requesters `ann` and `bob`, and `bob` decides;
* context rules: two of each sort, two priorities, conditions that ask for
  something or nothing;
* seed: two starts over the real list of demo orders.

`FreshNumber` says that a number is free at the moment it is read, and ends at
the padding; the insert may still collide, which the unique constraint turns
into an error. `GroupLimitNearlyKept` and `DeliveredOncePerWorker` state how far
overlapping calls get: one group, and one delivery, for each further worker.
`RulesInUseExist` excludes the deletion of a rule that overlaps a submission: the
order would wait for a decision about a rule that is gone. What is left of it is
that `delete_rule` asks for pending requests at all. In the same way
`CancelReasonStaysOut` is about an owner whose requests follow each other, and
`GroupsBelong` about items named under any order.

`ImplementsLifecycle` maps the order's status to `EffectiveStatus`: while the
request exists and the order has not been told, the request counts. Under this
reading no crash and no overlap is visible as anything but a delay, and
`pending_approval` written over `approved` is invisible too. What
the mapping hides is what the raw status does in between; the run without
overlaps checks that with `LegalTransitions`.

In `editing_sequential` a worker may die before every step except the two
that follow the item's commit in `update_item`: dying there leaves a `validated`
order with an unchecked item, which may then be submitted (REQ-129, EC-83,
`order-lifecycle.md:107` and `:373`, promise the opposite).

### Fairness

`Proceed(w)` is weakly fair: a worker that has begun a call goes on with it, as a
gunicorn worker does. Pipelines move on. A passing run never assumes that a call
*begins*: `EveryItemIsTried` only says where a dispatch gets that is under way.
`PollingSpec` and `WebhookSpec` assume in addition that polling, or GitLab's
events, come again and again, which is what REQ-53 says of them and no code sees
to; only the violated runs `polling_two_items` and `webhook_ignored` use them, to
show that even then the order does not move.

That an order is handled at all is no property, because the code does not keep it:
after an error in the rules, a refused trigger or a crash the order stays
`submitted`, and nothing tries again.

### Promises of the documentation that overlapping calls break

The following were met while modelling and can be reproduced by changing a
run; they have no run of their own.

* Two simultaneous submissions both pass the status test; none gets a
  409 (EC-CCC-01, `cross-cutting-concerns.md:69`).
* The order is set to `pending_approval` after an approver has already decided
  (`order_service.py:209`).
* A crash after the decision leaves an approved request with a waiting order,
  and no code starts the provisioning after an approval (REQ-20,
  `approval-workflow.md:388`).
* The last item can be removed while the order is being submitted (EC-95,
  `order-lifecycle.md:600`), and a late validation or update writes over
  `submitted` (REQ-157, `:496`). This is why the soundness of
  orders is checked for calls that do not overlap.
* Two admins who change the status of the same version both pass the test of the
  transition, and `deprecated` may be written over `disabled`, from which
  `_TRANSITIONS` (`domain/catalog.py:33`) allows no way back.
* A failed order returns to `provisioning` when the dispatch of another item ends
  late (`order-lifecycle.md:806`).

### Promises of the documentation that the smaller components break

Read off their definitions; none has a run.

* Two windows that ask for a change of the same subscription both pass the test,
  and the later one overwrites what the approver looks at. `ImplementsSubscription`
  is therefore checked, and proved, for one worker that asks and one that decides.
  If one of the two is a cancellation, its reason may be merged into the parameters
  as a change, so `CancelReasonStaysOut` has the same condition.
* A subscription is created as `ordered`. No caller of the application makes it
  `active`, so that outside of tests every request of its owner is refused; the
  decisions have no endpoint either.
* Two retrievals of a one-time link may both succeed.
* `reject` does not ask who requested the order (REQ-23, VAL-13, EC-11,
  `approval-workflow.md:391`, `:408`, `:595`), and whether `approve` does depends on
  the settings of the worker that gets the call.
* The approval settings live in the memory of each worker: after a change the
  three workers disagree until they restart. `/approvals/settings` takes any
  deadline, `/admin/config` only 1 to 720 hours.
* Writing `gitlab_url` through `/admin/config` creates no client.
* Revoking the last tenant assignment of a user allows all tenants, and so does a
  database error while they are read (`tenant_repository.py:58-62`).
* The seeded rules use conditions (`parameter_match`, `weekdays`, `when`) that
  `_conditions_match` compares with keys no context has, so they never apply; and
  ordering consults neither availability rules nor restrictions.
* An item may be assigned to a group of another order than its own (EC-05 and
  VAL-07, `docs/specs/order-groups-quantity.md:397` and `:179`):
  `assign_item_to_group` compares the order in the URL with the group's and never
  with the item's (`order_service.py:337-346`). `GroupsBelong` therefore speaks of
  an order the item was named under, and the run names one under the wrong order.
* Reordering groups need not name all of them (EC-07, `:401`), and the other ids of
  groups and items in a URL are not compared with its order either. Renaming a group to a name that is taken raises an
  `IntegrityError` nobody catches.
* The seeded orders that are `done` have items that are not, so for them the
  dashboard and the list of resources disagree. `DashboardsAgree` is about orders
  that the portal itself has brought to `done`.
* After administrators have deprecated or disabled every seeded template, the next
  start of the container tries to create one again, meets the unique slug and
  version, and, by the `&&` of the Dockerfile's `CMD`, never serves (stage `failed`).
* The export endpoints look items up by slug and version, so two items of the same
  template get the id, and on the second endpoint the values, of the first
  (`order_actions.py:145-163`, `:193-197`); `GET /orders/<id>/status` reports every
  item as `not_started` (`:111`).

### Promises the catalog does not keep

Read off the definitions of `ParameterRules` and `Catalog`; only REQ-46 has a
run.

* With quantity 1, parameters with `per_instance = true` are neither validated
  nor exported (REQ-35, VAL-24, `order-groups-quantity.md:668` and `:694`).
* The number of instances may differ from the quantity (REQ-23, VAL-11,
  `order-groups-quantity.md:439` and `:453`).
* A version may be deprecated without a replacement, or by itself (REQ-106,
  VAL-69, `service-catalog.md:169` and `:216`).
* A version may be disabled while open orders use it (REQ-107, VAL-70, `:170`,
  `:217`); items keep it, and `ValidateOrder` never asks for the status.
* Dependencies are not transitive (EC-70, `:644`): a parameter is judged by the
  values it depends on even when those are hidden.
* The export of a validated order may fail with a `TypeError`, because it
  evaluates rules that the validation never reached.
* The form's `neq` shows a field whose trigger is missing, and operators it does
  not know never hide; it shows more than the server demands, never less
  (`DemandedCanBeEntered`).
* Combination rules (`cross_parameter_rules`) are handed to
  `validate_parameters` and never evaluated.

## Proofs

Most invariants, action properties and refinements that a passing run checks are
also stated by a theorem, for every value of the constants, as the tables below say;
"What stays with TLC" lists the others.
Where calls that overlap break a promise, the theorem names what it assumes about
them; these assumptions belong to the theorems, never to the modules.

| Assumption | Means | Why |
|---|---|---|
| `Sequential` | one worker handles all calls, one after another | what a requester may rely on who does not work in two windows; `stale_validation` and `double_dispatch` show the rest |
| `OneOperator` | one worker submits, dispatches and polls; the others approve, reject, time out and take webhooks, any number of each | `submit` runs `post_submit` to its end in one request; two administrators who dispatch at once are `double_dispatch` |
| `DispatchesReleased` | administrators dispatch orders that are approved or in provisioning, and, if nobody crashes, submitted ones | the endpoint never asks for the status (`provisioning_service.py:26`), so that this discipline is the users' |
| `NothingLost` | no worker dies, no answer of GitLab is lost | the client has a timeout, and nothing looks for a pipeline afterwards |
| one submitter | one worker gets the submissions, the others anything else | `submit_order` tests the status in one step and writes it in another |
| `OneAsksOneDecides` | one worker asks for changes of subscriptions, one decides | two who ask overwrite each other |

Each is satisfied by the run that checks the property.

### OrderWorkflow, however calls overlap

`OrderWorkflowProofs` proves, for every number of workers, items, approvers and
pipelines, every assignment of calls, with and without crashes, and from
`ConstantsAssumption` alone:

| Theorem | Says |
|---|---|
| `TypeCorrect` | `Spec => []TypeOK` |
| `DecisionsAreFollowed` | `Spec => []OrderFollowsDecision` |
| `DecisionsAreFinal` | `Spec => DecisionIsFinal` |
| `ItemsMatchJobs` | `Spec => []ItemMatchesJob` |
| `LocalsStayRight` | `Spec => []LocalsAgree` |

None of the invariants is inductive alone. `TypeOK` needs to know that the
status a poll is about to write is one; `OrderFollowsDecision` that a verdict
about to be written still is the request's; `ItemMatchesJob` that the pipeline
about to be saved belongs to the item. `LocalsAgree` says these things about the
workers' local states, and `Inv` is the conjunction of the four.

The argument for a step of worker `w` has two halves. Everybody else: `Kept` says
that no step takes back a fact others rely on (a decided request, a pipeline's
item, an item's job), so waiting workers keep what they know
(`WaitingKeeps`, `Frame`). The worker itself: one lemma for each action shows
that its new local state and the tables agree. Steps that write nothing share
`QuietStep`. `FirstInSet`, that the loops over items find a next one, rests on
the library's theorem that the natural numbers are well-founded.

TLC checks each conjunct of `Inv` in one of `workflow_sequential`,
`workflow_decisions` and `workflow_dispatch`.

### What the workflow promises

`OrderPromisesProofs` stands on `Inv` and proves:

| Theorem | Says | Assumes |
|---|---|---|
| `SuccessIsComplete` | `Spec => []SuccessMeansComplete` | nothing |
| `DispatchesAreBounded` | `Spec => []ConfirmedOncePerWorker` | nothing |
| `SubmissionsAreFree` | `Spec => []SubmissionsDispatchFreely` | one submitter |
| `PipelinesAreLogged` | `Spec => []EveryPipelineLogged` | `NothingLost` |
| `DoneIsTrue` | `Spec => []DoneMeansAllSucceeded` | `OneOperator`, `DispatchesReleased` |
| `ViewsAlwaysAgree` | `Spec => []DashboardsAgree` | the same |
| `WorkflowImplementsLifecycle` | `Spec => ImplementsLifecycle` | the same |
| `StatusMovesLegally` | `Spec => LegalTransitions` | `Sequential`, `DispatchesReleased`, no crash |

`OperatorInv(s)` says what the order, the items and the verdicts look like while
`s` is the operator: an order in provisioning is released (`OrderOK`), an item is
done or failed as its pipeline is (`ItemsOK`), one verdict at most is on its way,
and the order still waits for it (`VerdictsOK`); at each step of `s`, the status is
one that this step may meet (`OperatorAt`), and what it polls is still the item's
job (`PollAt`). Without `OneOperator` the last two are false. The others only
decide, and a decision reaches the order only while nothing has been dispatched;
that is why `DispatchesReleased` counts `submitted` only without crashes: a crash
between the request and `set_pending_approval` leaves a submitted order that waits.

The refinement maps each step under this invariant to a step of `OrderLifecycle`
or to none (`LifecycleStep`). `StatusMovesLegally` needs to know that nobody decides
between the two commits of a submission
(`RequestComesFirst`); `SuccessIsComplete` that a submission about to subscribe
has notified and has not skipped an item (`SubmissionsOK`).

`DispatchesAreBounded` says how bad `double_dispatch` can get. A worker carries an
item from the moment it has taken it for `not_started` to its log entry
(`Carries`). Entries and carriers together never exceed the number of workers
(`CountInv`): a worker takes an item only while nothing is logged for it, since
what is logged has been committed and nothing returns to `not_started`.

`SubmissionsAreFree` is what REQ-150 means for the approver. It needs no
discipline of those who dispatch: an order whose request exists is no longer
`validated`, and stays so (`FreelyOf`), so the one who submits is not let in again.
With two submitters it is false.

### OrderEditing

| Theorem of `OrderEditingProofs` | Says | Assumes |
|---|---|---|
| `TypeCorrect` | `Spec => []TypeOK` | nothing: any workers, a death anywhere |
| `SubmittedIsFrozen` | `Spec => FrozenOnceSubmitted` | `Sequential` |
| `StatusMovesLegally` | `Spec => LegalTransitions` | `Sequential` |
| `SubmissionsAreFilled` | `Spec => []SubmittedIsFilled` | `Sequential` |
| `DeletedForGood` | `Spec => []DeletedIsEmpty`, and a deleted order stays deleted | nothing |
| `OnlyStaleVerdictsErr` | `Spec => [][CheckedMeansGood => CheckedMeansGood' \/ StaleVerdict]_vars` | nothing |

One worker at work finds the status that its test has found (`StatusFits`), even if
it dies anywhere. That every item of a submitted order is valid does not survive the
death between the commits of `update_item` and is not proved; what does is
`SubmittedIsFilled`: a reason, an item, and no item wrongly marked as valid.

Two theorems assume nothing about overlaps. `DeletedForGood` rests on the foreign
key, which refuses the item that comes late, and on UPDATEs that find no row.
`OnlyStaleVerdictsErr` says that what `stale_validation` shows is all there is: a bad
item becomes marked as valid only by a validation that writes its verdict on
parameters that have changed since it loaded them.

### Catalog

`CatalogProofs` proves, for any set of versions, any definitions and values, and
from the assumptions of the module alone (the empty order is no item, quantities
begin at one, the rules of a parameter are a list):

| Theorem | Says |
|---|---|
| `CatalogTyped` | `Spec => []TypeOK` |
| `ExportsAreSound` | `Spec => []ExportedIsSound` |
| `ExportsAreComplete` | `Spec => []ExportedIsComplete` |
| `HiddenIsNeverExported` | `Spec => []HiddenStaysOut` |
| `DemandsCanBeMet` | `Spec => []DemandedCanBeEntered` |
| `ReplacementsNeverCircle` | `Spec => []ReplacementsLeadOn` |
| `StatusNeverRises` | `Spec => StatusOnlyFalls` |

The code judges a rule in three places: `is_visible` and `is_required` stop at the
first outcome that settles the answer, `resolve_dependency_state` evaluates every
rule, and the form has operators of its own. Lemmas about the operators of
`ParameterRules` relate them: unless a rule raises, the first two say what
the rules say (`VisibleMeans`, `RequiredMeans`), and what the server shows the form
shows (`FormFollows`). The state adds that a validated order has an item that
`ValidateItem` finds valid, of a version that is registered and therefore
`Wellformed` (`OrderInv`), so that keys and variable names identify its parameters
(`NamesIdentify`), and a block holds for a shared parameter the item's own value or
nothing (`BlocksHold`). `DemandedCanBeEntered` needs of the state only that
the item's version is registered.

`ReplacementsLeadOn` is about every set of versions that could form a circle.
Deprecating `v` in favour of another version `by` cannot close one, since `by`
is active and an active version has no replacement yet. That is part of `Phases`,
the other half of the inductive invariant `Inv`. Orders do not touch the catalog
(`OrderKeepsCatalog`).

### The components around the order

The theorems are about each component's own specification (`GroupSpec`,
`CreationSpec` and so on), which `SatellitesSpec` follows in the `part` it chose.

`OrderGroupsProofs` proves, for any orders, items, workers, bounds and calls,
and from `GroupAssumption` alone, which leaves `Addressed` open:

| Theorem | Says |
|---|---|
| `Membership` | `GroupSpec => []GroupsBelong` |
| `Limit` | `GroupSpec => []GroupLimitNearlyKept` |

For `Membership` the locals of a worker that assigns must name a group made for
an order under which its item was named (`LocalsFit`). For `Limit` the invariant
counts the groups of an order together with the workers that are creating one
(`Creating`): a worker that passes the test adds itself while the groups are below
the limit, and an insert turns a worker into a group.

`CredentialLinksProofs` proves, from `LinkAssumption` alone:

| Theorem | Says |
|---|---|
| `LinkTypeCorrect` | `LinkSpec => []LinkTypeOK` |
| `LinkBound` | `LinkSpec => []DeliveredOncePerWorker` |

Deliveries are counted together with the workers that have passed the test
(`Passing`), and while a link is not consumed nothing has been delivered.

`SubscriptionsProofs` proves, for any number of subscriptions and changes, with
deaths at any commit:

| Theorem | Says |
|---|---|
| `ReasonStaysOut` | `SubscriptionSpec => []CancelReasonStaysOut` |
| `Refinement` | `SubscriptionSpec => ImplementsSubscription` |

Both assume `OneAsksOneDecides`: one worker gets the calls that ask, one those
that decide. This is an assumption of the theorems, not of the module, because
they are false without it. The inductive invariant says what a row looks like in
each status (`PendingFitsStatus`) and that a worker at work holds its row as it is
(`Fits`): nobody decides about an active row, and nobody asks about a pending one,
so nobody else writes it (`OneAtARow`). In the refinement a request takes effect
with the commit of its status, the decision about a change with the commit that
merges or clears the pending changes, and the one about a cancellation with the
commit of its status; all other steps change nothing that the abstract
specification shows.

`SatelliteProofs` proves, with a section and an invariant for each component:

| Theorem | Says | Assumes |
|---|---|---|
| `BadgeCountsAddUp` | `NoteSpec => []CountsAddUp` | nothing |
| `WhatIsOfferedIsAccepted` | `CreationSpec => []OfferedIsAccepted` | nothing |
| `NumbersAreFresh` | `CreationSpec => FreshNumber` | nothing |
| `DemoDataIsSeededOnce` | `SeedSpec => []SeededOnce` | nothing |
| `TheStrongestRuleDecides` | `ContextRuleSpec => []StrongestRuleDecides` | finitely many rules |
| `TheStrongestRestrictionDecides` | `ContextRuleSpec => []StrongestRestrictionDecides` | finitely many restrictions |

* `OfferedIsAccepted` holds in every state: the two halves of the code compute the
  same from the tables.
* `NumbersAreFresh`: up to the padding the order of strings is that of numbers
  (`AlignedGrows`, `GreatestString`), so one more than the greatest is free
  (`NextIsFree`).
* `DemoDataIsSeededOnce`: the first template works as a lock. One start at most has
  passed it (`Past`), and how far that start is tells what has been
  inserted (`Progress`); a start that finds the template inserts nothing.
* The two about context rules: a list sorted by adjacent priorities falls along its
  whole length (`PrioritiesFall`), so its first element is strongest, and
  every strongest rule leads some list (`StrongestMayLead`); lists exist because
  finitely many rules can be taken off one by one (`OrderExists`).
  For restrictions, `MergedRounds` shows that the loop is defined for each number of
  rounds, and `MergedHolds` what it has kept after each.

### What stays with TLC

`EveryItemIsTried`, since neither fairness nor ENABLED is within the prover's reach.

`ApprovalBeforeDispatch`, `OnePipelinePerItem`, `ValidatedIsSound`, `SubmittedIsSound`
and `RulesInUseExist`. Each is true only under a discipline that nobody enforces: that
administrators dispatch approved orders only, that dispatches do not overlap and no
answer is lost, that calls do not overlap and `update_item` is not cut off, that no
rule is deleted during a submission. A theorem would have to assume as much as it
says. The runs state these conditions in their constants, and there they find the
bugs that break the properties even so.

Induction over data is available only as the
choice of a least counterexample among numbers (`LeastNumber`, from
the theorem of the library that their order is well-founded); this carries the
lists above and the loop of `MergeEffects`, and no theorem is about any other
recursive definition. The assumptions on finiteness are those under which
the tables make sense; nothing else about them is used.

## Not modelled, and what is left

* The names and descriptions of groups, the positions of items, texts, wording,
  paging and search patterns: no property speaks of them.
* Comparing two versions of a template and the listing of the catalog only read.
* Authentication: LDAP and tokens are external. The models take the callers that
  pass the role checks.
* The audit log: nothing in the application calls `AuditService.log`, so the log
  stays empty and its endpoints read an empty table.
* The frontend beyond the visibility of form fields is presentation; the calls it
  makes are the actions of the models.
* Migrations are DDL. Of the deployment the models use the number of workers, their
  timeout (a worker may die at any step) and the `CMD` of the image.
* The generators of documentation under `mpp-docs` and the screenshot tool are not
  part of the running portal.

Worth proving next: which promises two operators keep beyond the bound on their
dispatches, and the components around the order together, as `SatellitesSpec`.
