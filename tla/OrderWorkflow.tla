---------------------------- MODULE OrderWorkflow ----------------------------
(***************************************************************************)
(* One validated order on its way through submission, approval, dispatch   *)
(* and provisioning.                                                       *)
(*                                                                         *)
(* A worker is a process of the web server (gunicorn sync worker) or a job *)
(* that calls a service; it handles one call at a time and keeps, in `pc'  *)
(* and `loc', where it stands and what its database session has loaded.    *)
(* Every database commit is one action, and so is every read whose result  *)
(* a later commit relies on: between two actions of a worker any other     *)
(* worker may commit (READ COMMITTED, no row is locked by a read).  Calls  *)
(* that are refused reply without changing anything.                       *)
(***************************************************************************)
EXTENDS OrderStatuses, Integers, Sequences, FiniteSets

CONSTANTS
  Workers,            \* processes that handle calls
  Calls,              \* Calls[w]: the calls worker w may get
  NumItems,           \* items of the order, numbered by position
  Requester,          \* the user who owns the order
  Approvers,          \* users who may decide approval requests
  AllowSelfApproval,  \* APPROVAL_ALLOW_SELF_APPROVAL
  RuleOutcomes,       \* what evaluating the approval rules may yield
  GitlabConfigured,   \* is app.gitlab_client set?
  TriggerOutcomes,    \* what triggering a GitLab pipeline may yield
  DispatchWhen,       \* order statuses in which an admin dispatches an item
  PipelineEnds,       \* how GitLab pipelines may end
  MayCrash,           \* may a worker die between two of its steps?
  MaxPipelines        \* bound on the pipelines ever triggered

CallNames == {"submit", "approve", "reject", "timeout", "dispatch", "sync",
              "webhook"}
Items     == 1 .. NumItems
NoUser    == "nobody"
System    == "system"      \* decided_by of an automatic rejection

ASSUME ConstantsAssumption ==
  /\ IsFiniteSet(Workers)
  /\ Calls \in [Workers -> SUBSET CallNames]
  /\ NumItems \in Nat
  /\ AllowSelfApproval \in BOOLEAN
  /\ RuleOutcomes \subseteq {"match", "none", "error"}
  /\ GitlabConfigured \in BOOLEAN
  /\ TriggerOutcomes \subseteq {"created", "refused", "timed_out"}
  /\ DispatchWhen \subseteq OrderStatus
  /\ PipelineEnds \subseteq {"success", "failed", "canceled"}
  /\ MayCrash \in BOOLEAN
  /\ MaxPipelines \in Nat
  /\ {NoUser, System} \cap (Approvers \cup {Requester}) = {}

VARIABLES
  \* -- database --
  status,     \* orders.status
  request,    \* the order's row in approval_requests
  prov,       \* order_items.provisioning_status
  job,        \* order_items.job_id, 0 when NULL
  logs,       \* dispatch_logs: <<item, job>>, job 0 for a failed attempt
  subs,       \* items that have a row in subscriptions
  notified,   \* was an order_submitted notification created?
  \* -- GitLab --
  pipelines,  \* pipelines[p]: the pipeline with id p
  \* -- workers --
  pc,         \* where a worker stands
  loc,        \* what its session and its local variables hold
  reply       \* its answer to the last call

dbVars == <<status, request, prov, job, logs, subs, notified>>
vars   == <<status, request, prov, job, logs, subs, notified, pipelines,
            pc, loc, reply>>

\* seen: the order status the session loaded and has not expired yet
\* old, new: provisioning status of the item as loaded, and as to be written
NoLoc == [call |-> "none", todo |-> {}, item |-> 0, job |-> 0,
          seen |-> "none", old |-> "none", new |-> "none",
          who |-> NoUser, verdict |-> "none"]

Init ==
  /\ status = "validated"
  /\ request = [status |-> "none", by |-> NoUser]
  /\ prov = [i \in Items |-> "not_started"]
  /\ job = [i \in Items |-> 0]
  /\ logs = {}
  /\ subs = {}
  /\ notified = FALSE
  /\ pipelines = <<>>
  /\ pc = [w \in Workers |-> "idle"]
  /\ loc = [w \in Workers |-> NoLoc]
  /\ reply = [w \in Workers |-> "none"]

First(S) == CHOOSE i \in S : \A j \in S : i <= j

(***************************************************************************)
(* Control of a worker                                                     *)
(***************************************************************************)
Gets(w, call) == pc[w] = "idle" /\ call \in Calls[w]

Start(w, label, local) ==
  /\ pc' = [pc EXCEPT ![w] = label]
  /\ loc' = [loc EXCEPT ![w] = local]
  /\ reply' = [reply EXCEPT ![w] = "none"]

Goto(w, label, local) ==
  /\ pc' = [pc EXCEPT ![w] = label]
  /\ loc' = [loc EXCEPT ![w] = local]
  /\ UNCHANGED reply

\* The session is closed with the reply: what it had not committed is gone.
Reply(w, answer) ==
  /\ pc' = [pc EXCEPT ![w] = "idle"]
  /\ loc' = [loc EXCEPT ![w] = NoLoc]
  /\ reply' = [reply EXCEPT ![w] = answer]

(***************************************************************************)
(* POST /orders/<id>/submit: submit_order, then post_submit                *)
(***************************************************************************)
\* Mutant of SubmitRead: a submission is accepted in any status.
SubmitReadUnchecked(w) ==
  /\ Gets(w, "submit")
  /\ Start(w, "submit_write", [NoLoc EXCEPT !.call = "submit"])
  /\ UNCHANGED <<dbVars, pipelines>>

SubmitRead(w) ==
  /\ Gets(w, "submit")
  /\ IF status = "validated"
       THEN Start(w, "submit_write", [NoLoc EXCEPT !.call = "submit"])
       ELSE Reply(w, "conflict")
  /\ UNCHANGED <<dbVars, pipelines>>

\* The write does not repeat the test of the read.
SubmitWrite(w) ==
  /\ pc[w] = "submit_write"
  /\ status' = "submitted"
  /\ Goto(w, "evaluate", loc[w])
  /\ UNCHANGED <<request, prov, job, logs, subs, notified, pipelines>>

\* Evaluating the rules loads the order and its items into the session.  An
\* exception counts neither as "approval needed" nor as "none needed".
Evaluate(w) ==
  /\ pc[w] = "evaluate"
  /\ \/ /\ "match" \in RuleOutcomes
        /\ Goto(w, "create_request", loc[w])
     \/ /\ "none" \in RuleOutcomes
        /\ IF GitlabConfigured
             THEN Goto(w, "dispatch",
                       [loc[w] EXCEPT
                          !.seen = status,
                          !.todo = {i \in Items : prov[i] = "not_started"}])
             ELSE Goto(w, "notify", loc[w])
     \/ /\ "error" \in RuleOutcomes
        /\ Goto(w, "notify", loc[w])
  /\ UNCHANGED <<dbVars, pipelines>>

\* A second request for the order violates uq_approval_request_order: the
\* session is unusable from then on, and the exception handler, which reads
\* the order from it, ends the call with an error.
CreateRequest(w) ==
  /\ pc[w] = "create_request"
  /\ \/ /\ request.status = "none"
        /\ request' = [status |-> "pending", by |-> NoUser]
        /\ Goto(w, "set_pending", loc[w])
     \/ /\ request.status # "none"
        /\ Reply(w, "error")
        /\ UNCHANGED request
  /\ UNCHANGED <<status, prov, job, logs, subs, notified, pipelines>>

SetPendingApproval(w) ==
  /\ pc[w] = "set_pending"
  /\ status' = "pending_approval"
  /\ Goto(w, "notify", loc[w])
  /\ UNCHANGED <<request, prov, job, logs, subs, notified, pipelines>>

Notify(w) ==
  /\ pc[w] = "notify"
  /\ notified' = TRUE
  /\ Goto(w, "subscribe", [NoLoc EXCEPT !.call = "submit", !.todo = Items])
  /\ UNCHANGED <<status, request, prov, job, logs, subs, pipelines>>

\* Mutant of Subscribe: a subscription that exists ends the loop as if all did.
SubscribeTrusting(w) ==
  LET open == loc[w].todo \ subs IN
  /\ pc[w] = "subscribe"
  /\ IF loc[w].todo = {} \/ First(loc[w].todo) \in subs
       THEN Reply(w, "submitted") /\ UNCHANGED subs
       ELSE /\ subs' = subs \cup {First(open)}
            /\ Goto(w, "subscribe", [loc[w] EXCEPT !.todo = @ \ {First(open)}])
  /\ UNCHANGED <<status, request, prov, job, logs, notified, pipelines>>

\* subscriptions.order_item_id is unique: a second row for an item makes the
\* session unusable, like a second approval request does.
Subscribe(w) ==
  /\ pc[w] = "subscribe"
  /\ \/ /\ loc[w].todo = {}
        /\ Reply(w, "submitted")
        /\ UNCHANGED subs
     \/ /\ loc[w].todo # {}
        /\ First(loc[w].todo) \in subs
        /\ Reply(w, "error")
        /\ UNCHANGED subs
     \/ /\ loc[w].todo # {}
        /\ First(loc[w].todo) \notin subs
        /\ subs' = subs \cup {First(loc[w].todo)}
        /\ Goto(w, "subscribe",
                [loc[w] EXCEPT !.todo = @ \ {First(loc[w].todo)}])
  /\ UNCHANGED <<status, request, prov, job, logs, notified, pipelines>>

(***************************************************************************)
(* Dispatch: dispatch_order (from post_submit) and dispatch_item (admin)   *)
(***************************************************************************)
\* Until the first commit of the loop the items' statuses are the loaded ones.
Undispatched(w) ==
  IF loc[w].seen # "none"
    THEN loc[w].todo
    ELSE {i \in loc[w].todo : prov[i] = "not_started"}

DispatchNext(w) ==
  /\ pc[w] = "dispatch"
  /\ \/ /\ Undispatched(w) = {}
        /\ Goto(w, "notify", [NoLoc EXCEPT !.call = "submit"])
     \/ /\ Undispatched(w) # {}
        /\ LET i == First(Undispatched(w)) IN
             Goto(w, "trigger",
                  [loc[w] EXCEPT !.item = i, !.todo = Undispatched(w) \ {i}])
  /\ UNCHANGED <<dbVars, pipelines>>

\* Mutant of AdminDispatch: the item's own status is not looked at either.
AdminDispatchAgain(w, i) ==
  /\ Gets(w, "dispatch")
  /\ status \in DispatchWhen
  /\ Start(w, "trigger", [NoLoc EXCEPT !.call = "dispatch", !.item = i])
  /\ UNCHANGED <<dbVars, pipelines>>

\* The endpoint looks at the item only, never at the order's status;
\* DispatchWhen says when admins use it.
AdminDispatch(w, i) ==
  /\ Gets(w, "dispatch")
  /\ status \in DispatchWhen
  /\ IF prov[i] = "not_started"
       THEN Start(w, "trigger", [NoLoc EXCEPT !.call = "dispatch", !.item = i])
       ELSE Reply(w, "ok")
  /\ UNCHANGED <<dbVars, pipelines>>

\* Nothing is persisted before GitLab answers.  "timed_out": the pipeline was
\* created, but the client gave up waiting for the answer.
Trigger(w) ==
  /\ pc[w] = "trigger"
  /\ \/ /\ "created" \in TriggerOutcomes
        /\ Len(pipelines) < MaxPipelines
        /\ pipelines' = Append(pipelines, [item |-> loc[w].item,
                                           status |-> "pending"])
        /\ Goto(w, "record", [loc[w] EXCEPT !.job = Len(pipelines) + 1])
     \/ /\ "timed_out" \in TriggerOutcomes
        /\ Len(pipelines) < MaxPipelines
        /\ pipelines' = Append(pipelines, [item |-> loc[w].item,
                                           status |-> "pending"])
        /\ Goto(w, "log_failure", loc[w])
     \/ /\ "refused" \in TriggerOutcomes
        /\ Goto(w, "log_failure", loc[w])
        /\ UNCHANGED pipelines
  /\ UNCHANGED dbVars

\* A worker in "log_item" has flushed its item's row without committing yet:
\* another worker's UPDATE of that row waits for the commit.
RowFree(w, i) ==
  \A v \in Workers \ {w} : ~(pc[v] = "log_item" /\ loc[v].item = i)

\* Mutant of SaveItem: the pipeline's id is not kept.
SaveStatusOnly(w) ==
  /\ prov' = [prov EXCEPT ![loc[w].item] = "pending"]
  /\ UNCHANGED job

SaveItem(w) ==
  /\ job' = [job EXCEPT ![loc[w].item] = loc[w].job]
  /\ prov' = [prov EXCEPT ![loc[w].item] = "pending"]

\* The commit of the order's status commits the item with it; when the order
\* already is in provisioning, the commit of the log will.
RecordDispatch(w) ==
  LET orderStatus == IF loc[w].seen = "none" THEN status ELSE loc[w].seen IN
  /\ pc[w] = "record"
  /\ RowFree(w, loc[w].item)
  /\ \/ /\ orderStatus # "provisioning"
        /\ status' = "provisioning"
        /\ SaveItem(w)
        /\ Goto(w, "log", loc[w])
     \/ /\ orderStatus = "provisioning"
        /\ Goto(w, "log_item", loc[w])
        /\ UNCHANGED <<status, job, prov>>
  /\ UNCHANGED <<request, logs, subs, notified, pipelines>>

AfterItem(w) ==
  IF loc[w].call = "submit"
    THEN Goto(w, "dispatch", [NoLoc EXCEPT !.call = "submit",
                                           !.todo = loc[w].todo])
    ELSE Reply(w, "ok")

\* Mutant of LogSuccess: the log does not name the pipeline.
LogWithoutJob(w) ==
  /\ pc[w] \in {"log", "log_item"}
  /\ logs' = logs \cup {<<loc[w].item, 0>>}
  /\ IF pc[w] = "log_item" THEN SaveItem(w) ELSE UNCHANGED <<job, prov>>
  /\ AfterItem(w)
  /\ UNCHANGED <<status, request, subs, notified, pipelines>>

LogSuccess(w) ==
  /\ pc[w] \in {"log", "log_item"}
  /\ logs' = logs \cup {<<loc[w].item, loc[w].job>>}
  /\ IF pc[w] = "log_item" THEN SaveItem(w) ELSE UNCHANGED <<job, prov>>
  /\ AfterItem(w)
  /\ UNCHANGED <<status, request, subs, notified, pipelines>>

\* Mutant of LogFailure: a failed trigger ends the loop over the items.
LogFailureAndStop(w) ==
  /\ pc[w] = "log_failure"
  /\ logs' = logs \cup {<<loc[w].item, 0>>}
  /\ IF loc[w].call = "submit"
       THEN Goto(w, "notify", [NoLoc EXCEPT !.call = "submit"])
       ELSE Reply(w, "ok")
  /\ UNCHANGED <<status, request, prov, job, subs, notified, pipelines>>

LogFailure(w) ==
  /\ pc[w] = "log_failure"
  /\ logs' = logs \cup {<<loc[w].item, 0>>}
  /\ AfterItem(w)
  /\ UNCHANGED <<status, request, prov, job, subs, notified, pipelines>>

(***************************************************************************)
(* Approval: POST /approvals/<id>/approve and /reject, and the timeout job *)
(***************************************************************************)
\* Rejecting one's own order is not checked, approving it is.
DecisionRead(w, user, verdict) ==
  /\ Gets(w, IF verdict = "approved" THEN "approve" ELSE "reject")
  /\ request.status # "none"
  /\ IF verdict = "approved" /\ user = Requester /\ ~AllowSelfApproval
       THEN Reply(w, "conflict")
       ELSE Start(w, "decide",
                  [NoLoc EXCEPT !.call = "decide", !.who = user,
                                !.verdict = verdict])
  /\ UNCHANGED <<dbVars, pipelines>>

\* Mutant of DecideRequest: the UPDATE does not ask for pending rows.
DecideAnyRequest(verdict, user) ==
  request' = [status |-> verdict, by |-> user]

\* decide_request: UPDATE ... WHERE status = 'pending', and its row count.
DecideRequest(verdict, user) ==
  IF request.status = "pending"
    THEN request' = [status |-> verdict, by |-> user]
    ELSE UNCHANGED request

\* Mutant of Decide: the row count of the UPDATE is not looked at.
DecideUnaware(w) ==
  /\ pc[w] = "decide"
  /\ DecideRequest(loc[w].verdict, loc[w].who)
  /\ Goto(w, "write_decision", loc[w])
  /\ UNCHANGED <<status, prov, job, logs, subs, notified, pipelines>>

Decide(w) ==
  /\ pc[w] = "decide"
  /\ DecideRequest(loc[w].verdict, loc[w].who)
  /\ IF request.status = "pending"
       THEN Goto(w, "write_decision", loc[w])
       ELSE Reply(w, "conflict")
  /\ UNCHANGED <<status, prov, job, logs, subs, notified, pipelines>>

WriteDecision(w) ==
  /\ pc[w] = "write_decision"
  /\ status' = loc[w].verdict
  /\ Reply(w, "ok")
  /\ UNCHANGED <<request, prov, job, logs, subs, notified, pipelines>>

\* process_timeouts: any pending request may have passed its deadline.
TimeoutRead(w) ==
  /\ Gets(w, "timeout")
  /\ request.status = "pending"
  /\ Start(w, "timeout_decide", [NoLoc EXCEPT !.call = "timeout"])
  /\ UNCHANGED <<dbVars, pipelines>>

TimeoutDecide(w) ==
  /\ pc[w] = "timeout_decide"
  /\ DecideRequest("rejected", System)
  /\ Reply(w, "ok")
  /\ UNCHANGED <<status, prov, job, logs, subs, notified, pipelines>>

(***************************************************************************)
(* Provisioning status: sync_item_status and the GitLab webhook            *)
(***************************************************************************)
SyncRead(w, i) ==
  /\ Gets(w, "sync")
  /\ job[i] # 0
  /\ Start(w, "poll", [NoLoc EXCEPT !.call = "sync", !.item = i,
                                    !.job = job[i], !.old = prov[i]])
  /\ UNCHANGED <<dbVars, pipelines>>

Poll(w) ==
  /\ pc[w] = "poll"
  /\ \/ Goto(w, "aggregate",
             [loc[w] EXCEPT !.new = MapPipelineStatus(
                                      pipelines[loc[w].job].status, loc[w].old)])
     \/ /\ "refused" \in TriggerOutcomes
        /\ Reply(w, "error")
  /\ UNCHANGED <<dbVars, pipelines>>

\* What the session sees: the item's new status, the other items as committed.
SeenStatuses(w) ==
  {IF i = loc[w].item THEN loc[w].new ELSE prov[i] : i \in Items}

\* Mutant of CommitItem: the order's status is committed without the item's.
CommitOrderOnly(w) == UNCHANGED prov

\* The item's new status is committed only together with the order's; an
\* unchanged attribute is not written at all.
CommitItem(w) ==
  IF loc[w].new # loc[w].old
    THEN prov' = [prov EXCEPT ![loc[w].item] = loc[w].new]
    ELSE UNCHANGED prov

Aggregate(w) ==
  /\ pc[w] = "aggregate"
  /\ RowFree(w, loc[w].item)
  /\ \/ /\ SeenStatuses(w) = {"done"}
        /\ status' = "done"
        /\ CommitItem(w)
     \/ /\ "failed" \in SeenStatuses(w)
        /\ status' = "failed"
        /\ CommitItem(w)
     \/ /\ SeenStatuses(w) # {"done"} /\ "failed" \notin SeenStatuses(w)
        /\ UNCHANGED <<status, prov>>
  /\ Reply(w, "ok")
  /\ UNCHANGED <<request, job, logs, subs, notified, pipelines>>

\* handle_webhook calls a repository method that does not exist; the endpoint
\* swallows the exception and confirms the event.
Webhook(w, p) ==
  /\ Gets(w, "webhook")
  /\ pipelines[p].status \in {"success", "failed", "canceled"}
  /\ Reply(w, "ok")
  /\ UNCHANGED <<dbVars, pipelines>>

(***************************************************************************)
(* Surroundings                                                            *)
(***************************************************************************)
PipelineMoves(p, new) ==
  /\ \/ pipelines[p].status = "pending" /\ new = "running"
     \/ pipelines[p].status = "running" /\ new \in PipelineEnds
  /\ pipelines' = [pipelines EXCEPT ![p].status = new]
  /\ UNCHANGED <<dbVars, pc, loc, reply>>

\* The worker is killed: what it had committed stays.
Crash(w) ==
  /\ MayCrash
  /\ pc[w] # "idle"
  /\ Reply(w, "error")
  /\ UNCHANGED <<dbVars, pipelines>>

(***************************************************************************)
(* Specification                                                           *)
(***************************************************************************)
Begin(w) ==
  \/ SubmitRead(w)
  \/ \E user \in Approvers, verdict \in {"approved", "rejected"} :
       DecisionRead(w, user, verdict)
  \/ TimeoutRead(w)
  \/ \E i \in Items : AdminDispatch(w, i) \/ SyncRead(w, i)
  \/ \E p \in DOMAIN pipelines : Webhook(w, p)

Proceed(w) ==
  \/ SubmitWrite(w) \/ Evaluate(w) \/ CreateRequest(w)
  \/ SetPendingApproval(w) \/ Notify(w) \/ Subscribe(w)
  \/ DispatchNext(w) \/ Trigger(w) \/ RecordDispatch(w)
  \/ LogSuccess(w) \/ LogFailure(w)
  \/ Decide(w) \/ WriteDecision(w) \/ TimeoutDecide(w)
  \/ Poll(w) \/ Aggregate(w)

Next ==
  \/ \E w \in Workers : Begin(w) \/ Proceed(w) \/ Crash(w)
  \/ \E p \in DOMAIN pipelines, new \in PipelineStatus : PipelineMoves(p, new)

Spec == Init /\ [][Next]_vars

\* A call that was begun goes on; a pipeline does not stand still.
Fairness ==
  /\ \A w \in Workers : WF_vars(Proceed(w))
  /\ \A p \in 1 .. MaxPipelines :
       WF_vars(p \in DOMAIN pipelines
                 /\ \E new \in PipelineStatus : PipelineMoves(p, new))

FairSpec == Spec /\ Fairness

(***************************************************************************)
(* Properties                                                              *)
(***************************************************************************)
PC == {"idle", "submit_write", "evaluate", "create_request", "set_pending",
       "notify", "subscribe", "dispatch", "trigger", "record", "log",
       "log_item", "log_failure", "decide", "write_decision",
       "timeout_decide", "poll", "aggregate"}

Local ==
  [call : {"none", "submit", "decide", "timeout", "dispatch", "sync"},
   todo : SUBSET Items, item : Items \cup {0}, job : Nat,
   seen : OrderStatus \cup {"none"},
   old : ProvisioningStatus \cup {"none"},
   new : ProvisioningStatus \cup {"none"},
   who : Approvers \cup {NoUser},
   verdict : {"none", "approved", "rejected"}]

Pipeline == [item : Items, status : PipelineStatus]

TablesOK ==
  /\ status \in OrderStatus
  /\ request \in [status : {"none", "pending", "approved", "rejected"},
                  by : Approvers \cup {NoUser, System}]
  /\ prov \in [Items -> ProvisioningStatus]
  /\ job \in [Items -> Nat]
  /\ logs \subseteq Items \X Nat
  /\ subs \subseteq Items
  /\ notified \in BOOLEAN
  /\ pipelines \in Seq(Pipeline)

ControlOK ==
  /\ pc \in [Workers -> PC]
  /\ loc \in [Workers -> Local]
  /\ reply \in [Workers -> {"none", "submitted", "ok", "conflict", "error"}]

\* The types of the tables, of GitLab's pipelines and of the workers' locals.
TypeOK == TablesOK /\ ControlOK

\* An order that says "approved" or "rejected" has an approval request that a
\* user decided that way: a call that lost the race for the decision never
\* writes its verdict on the order (approvals.py, approve_request and
\* reject_request after decide_request).
OrderFollowsDecision ==
  /\ status = "approved" => request.status = "approved"
  /\ status = "rejected" => request.status = "rejected" /\ request.by # System

\* Once decided, by a user or by the timeout job, a request keeps its verdict
\* and its decider (decide_request updates pending rows only).
DecisionIsFinal ==
  [][request.status \in {"approved", "rejected"} => UNCHANGED request]_request

\* No pipeline runs for an order whose request waits for a decision or was
\* rejected, provided admins dispatch approved orders only.
ApprovalBeforeDispatch ==
  pipelines # <<>> => request.status \in {"none", "approved"}

\* Where a worker stands while it hands items to GitLab.
Dispatching == {"dispatch", "trigger", "record", "log", "log_item",
                "log_failure"}

\* A submission that hands items to GitLab does so for an order nobody has
\* been asked to approve: an order whose request was made is not submitted a
\* second time, with rules that match nothing by now.  Submissions do not
\* overlap; approvers, the timeout job and administrators act beside them.
SubmissionsDispatchFreely ==
  \A w \in Workers :
    loc[w].call = "submit" /\ pc[w] \in Dispatching => request.status = "none"

\* An item has a job exactly when its provisioning has started, and the job
\* is a pipeline that was triggered for this very item, however the dispatch
\* of several items and the polling interleave (_dispatch_single_item sets
\* job_id and provisioning_status in one transaction).
ItemMatchesJob ==
  \A i \in Items :
    /\ prov[i] = "not_started" <=> job[i] = 0
    /\ job[i] # 0 => job[i] \in DOMAIN pipelines /\ pipelines[job[i]].item = i

\* What a worker carries from step to step still agrees with the tables when
\* it is used, whatever other workers committed meanwhile: a verdict about to
\* be written is the decision on the request, the pipeline about to be saved
\* was triggered for the item at hand, and an item being polled has that job's
\* or a later job's status (the inductive part of OrderWorkflowProofs).
DecisionKnown(w) ==
  /\ pc[w] \in {"decide", "write_decision"} =>
       loc[w].verdict \in {"approved", "rejected"} /\ loc[w].who \in Approvers
  /\ pc[w] = "write_decision" =>
       request = [status |-> loc[w].verdict, by |-> loc[w].who]

PipelineKnown(w) ==
  /\ pc[w] \in {"trigger", "record", "log", "log_item", "log_failure", "poll",
                "aggregate"} => loc[w].item \in Items
  /\ pc[w] \in {"record", "log", "log_item", "poll"} =>
       /\ loc[w].job \in DOMAIN pipelines
       /\ pipelines[loc[w].job].item = loc[w].item

PollKnown(w) ==
  /\ pc[w] \in {"poll", "aggregate"} =>
       /\ job[loc[w].item] # 0
       /\ loc[w].old \in ProvisioningStatus \ {"not_started"}
  /\ pc[w] = "aggregate" => loc[w].new \in ProvisioningStatus \ {"not_started"}

LocalsAgree ==
  \A w \in Workers : DecisionKnown(w) /\ PipelineKnown(w) /\ PollKnown(w)

\* A successful answer to a submission means that every item has its
\* subscription and the requester was notified, although post_submit swallows
\* the failures of its steps and another submission may run beside it.
SuccessMeansComplete ==
  \A w \in Workers : reply[w] = "submitted" => subs = Items /\ notified

\* A pipeline GitLab confirmed is in the dispatch log, or a worker still is on
\* its way to log it: without crashes and lost answers no pipeline runs
\* unnoticed.
EveryPipelineLogged ==
  \A p \in DOMAIN pipelines :
    \/ <<pipelines[p].item, p>> \in logs
    \/ \E w \in Workers : pc[w] \in {"record", "log", "log_item"}
                           /\ loc[w].job = p /\ loc[w].item = pipelines[p].item

\* The order's status only moves along the table of app/domain/order.py.
LegalTransitions == [][CanTransition(status, status')]_status

\* An item is handed to GitLab once, by dispatches that do not overlap
\* (dispatch_item and dispatch_order test provisioning_status first).
OnePipelinePerItem ==
  \A p, q \in DOMAIN pipelines : pipelines[p].item = pipelines[q].item => p = q

\* How far overlapping dispatches get: the test of provisioning_status comes
\* long before the commit (provisioning_service.py:28), but a worker that has
\* logged a pipeline for an item never logs another, whatever it had loaded,
\* so that an item has at most one confirmed pipeline for each worker.
Confirmed(i) == {log \in logs : log[1] = i /\ log[2] # 0}

ConfirmedOncePerWorker ==
  \A i \in Items : Cardinality(Confirmed(i)) <= Cardinality(Workers)

\* "done" tells the truth: the pipeline of each item has succeeded
\* (update_order_aggregate_status), whoever polls, dies or retries a dispatch
\* whose answer was lost.
AllSucceeded ==
  \A i \in Items : job[i] # 0 /\ pipelines[job[i]].status = "success"

DoneMeansAllSucceeded == status = "done" => AllSucceeded

\* Read through the approval request, which is decided atomically, the order
\* follows its lifecycle: the request counts as soon as it exists, although
\* the handlers write the order's status in a later transaction.
EffectiveStatus ==
  CASE status \notin {"submitted", "pending_approval"} -> status
    [] request.status = "none"                         -> status
    [] request.status = "pending"                      -> "pending_approval"
    [] OTHER                                           -> request.status

Lifecycle == INSTANCE OrderLifecycle
               WITH orderStatus <- EffectiveStatus, decision <- request.status

\* The workflow implements OrderLifecycle.
ImplementsLifecycle == Lifecycle!Spec

\* Once a submission has begun to dispatch, each item is handed to GitLab or
\* has a failed attempt on record, unless the caller is told of an error: the
\* failure of one item does not keep the loop from the next
\* (provisioning_service.py:53), nor does another worker that dispatches,
\* polls or holds a row in between.  The order itself may stay "submitted".
AllTried == \A i \in Items : prov[i] # "not_started" \/ <<i, 0>> \in logs

EveryItemIsTried ==
  \A w \in Workers : pc[w] = "dispatch" ~> reply[w] = "error" \/ AllTried

(***************************************************************************)
(* What the documentation promises and the code does not keep              *)
(***************************************************************************)
\* Polling that goes on and on, as REQ-53 describes it, makes an order "done"
\* when all of its items have succeeded (REQ-156).
PollingSpec ==
  FairSpec /\ \A i \in Items : SF_vars(\E w \in Workers : SyncRead(w, i))
DoneWhenAllSucceed == AllSucceeded ~> status = "done"

\* A request rejected by the timeout job takes the order with it (REQ-33).
TimeoutRejectsOrder == request.by = System ~> status = "rejected"

\* GitLab keeps sending the event of a finished pipeline, and the last event
\* finishes an order whose pipelines have all finished (REQ-53).
WebhookSpec ==
  FairSpec /\ \A p \in 1 .. MaxPipelines :
                SF_vars(\E w \in Workers : p \in DOMAIN pipelines /\ Webhook(w, p))
WebhookFinishesOrder ==
  status = "provisioning" ~> status \in {"done", "failed"}
==============================================================================
