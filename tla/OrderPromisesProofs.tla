------------------------- MODULE OrderPromisesProofs -------------------------
(***************************************************************************)
(* What the workflow promises to the requester and to the operators, on    *)
(* top of OrderWorkflowProofs.  That a successful submission is complete,  *)
(* that pipelines are logged and how far dispatches may overlap holds for  *)
(* any assignment of calls to workers; the others name who may act at the  *)
(* same time, because two operators at once break them (`double_dispatch').*)
(***************************************************************************)
EXTENDS OrderViews, OrderWorkflowProofs, FiniteSetTheorems

(***************************************************************************)
(* Assumptions                                                             *)
(***************************************************************************)
\* All workers but s only decide requests, time them out or take webhooks.
Operates(s) ==
  \A w \in Workers \ {s} :
    Calls[w] \subseteq {"approve", "reject", "timeout", "webhook"}

OneOperator == \E s \in Workers : Operates(s)

\* Calls follow each other: one worker handles them all.
Sequential == \E w : Workers = {w}

\* Administrators dispatch items of orders that are approved or in
\* provisioning; of submitted orders too, if no crash can have kept an order
\* from being marked as waiting for approval.
DispatchesReleased ==
  DispatchWhen \subseteq {"approved", "provisioning"}
                           \cup (IF MayCrash THEN {} ELSE {"submitted"})

\* GitLab's answer to a trigger arrives, and no worker dies.
NothingLost == ~MayCrash /\ "timed_out" \notin TriggerOutcomes

(***************************************************************************)
(* The invariant of one operator s with any number of deciders             *)
(***************************************************************************)
\* No decision is needed, or it was an approval.
Released == request.status \in {"none", "approved"}

OrderOK ==
  /\ status # "draft"
  /\ status = "validated" => request.status = "none" /\ pipelines = <<>>
  /\ status \in {"provisioning", "done", "failed"} => Released
  /\ pipelines # <<>> => Released
  /\ \A i \in Items :
       job[i] # 0 => status \in {"provisioning", "done", "failed"}

ItemsOK ==
  /\ \A i \in Items :
       /\ prov[i] = "done" => pipelines[job[i]].status = "success"
       /\ prov[i] = "failed" => pipelines[job[i]].status = "failed"
  /\ status = "done" => \A i \in Items : prov[i] = "done"
  /\ status = "failed" => \E i \in Items : prov[i] = "failed"

\* At most one worker has a verdict to write, and the order still waits for it.
VerdictsOK ==
  /\ \A v \in Workers : pc[v] = "write_decision" =>
                          status \in {"submitted", "pending_approval"}
  /\ \A u, v \in Workers :
       pc[u] = "write_decision" /\ pc[v] = "write_decision" => u = v

Deciding == {"idle", "decide", "write_decision", "timeout_decide"}

OperatorAt(s) ==
  /\ pc[s] = "submit_write" => status = "validated"
  /\ pc[s] \in {"evaluate", "create_request"} =>
       status = "submitted" /\ request.status = "none" /\ pipelines = <<>>
  /\ pc[s] = "set_pending" =>
       /\ request.status # "none" /\ pipelines = <<>>
       /\ status \in {"submitted", "approved", "rejected"}
  /\ pc[s] \in Dispatching =>
       /\ status \in {"submitted", "approved", "provisioning"} /\ Released
       /\ status = "submitted" => request.status = "none"
  /\ pc[s] \in {"log", "log_item"} => status = "provisioning"
  /\ pc[s] \in {"dispatch", "trigger", "record"} /\ loc[s].seen # "none" =>
       status = "submitted" /\ loc[s].seen = "submitted"
  /\ ~MayCrash /\ status = "submitted" /\ pc[s] # "set_pending" =>
       request.status = "none"

PollAt(s) ==
  LET l == loc[s] IN
  /\ pc[s] \in {"poll", "aggregate"} =>
       l.job = job[l.item] /\ l.old = prov[l.item]
  /\ pc[s] = "aggregate" =>
       /\ l.new = "done" => pipelines[job[l.item]].status = "success"
       /\ l.new = "failed" => pipelines[job[l.item]].status = "failed"
       /\ l.old \in {"done", "failed"} => l.new = l.old

OperatorInv(s) ==
  /\ Inv
  /\ OrderOK /\ ItemsOK /\ VerdictsOK
  /\ \A v \in Workers \ {s} : pc[v] \in Deciding
  /\ OperatorAt(s) /\ PollAt(s)

SubmissionsOK ==
  /\ \A w \in Workers : pc[w] = "subscribe" =>
                          notified /\ Items \subseteq subs \cup loc[w].todo
  /\ SuccessMeansComplete
(***************************************************************************)
(* Control: who moves, and what a step leaves alone                        *)
(***************************************************************************)
LEMMA Moves ==
  ASSUME ControlOK, NEW w \in Workers
  PROVE  /\ \A label, local : Start(w, label, local) =>
              pc'[w] = label /\ loc'[w] = local /\ OthersWait(w)
         /\ \A label, local : Goto(w, label, local) =>
              pc'[w] = label /\ loc'[w] = local /\ OthersWait(w)
         /\ \A answer : Reply(w, answer) =>
              pc'[w] = "idle" /\ loc'[w] = NoLoc /\ OthersWait(w)
  BY DEF ControlOK, Start, Goto, Reply, OthersWait

\* Only the operator gets to these steps.
LEMMA OperatorOnly ==
  ASSUME NEW s \in Workers, Operates(s), OperatorInv(s), NEW w \in Workers,
         \/ SubmitRead(w) \/ SubmitWrite(w) \/ Evaluate(w) \/ CreateRequest(w)
         \/ SetPendingApproval(w) \/ Notify(w) \/ Subscribe(w)
         \/ DispatchNext(w) \/ Trigger(w) \/ RecordDispatch(w)
         \/ LogSuccess(w) \/ LogFailure(w) \/ Poll(w) \/ Aggregate(w)
         \/ \E i \in Items : AdminDispatch(w, i) \/ SyncRead(w, i)
  PROVE  w = s
<1> SUFFICES ASSUME w # s PROVE FALSE
  OBVIOUS
<1>1. pc[w] \in Deciding
  BY DEF OperatorInv
<1>2. /\ Calls[w] \subseteq {"approve", "reject", "timeout", "webhook"}
      /\ {"submit", "dispatch", "sync"} \cap Calls[w] = {}
  BY DEF Operates
<1>3. CASE SubmitRead(w) \/ \E i \in Items : AdminDispatch(w, i) \/ SyncRead(w, i)
  BY <1>2, <1>3 DEF SubmitRead, AdminDispatch, SyncRead, Gets
<1>4. CASE ~(SubmitRead(w)
             \/ \E i \in Items : AdminDispatch(w, i) \/ SyncRead(w, i))
  <2>1. pc[w] \in {"submit_write", "evaluate", "create_request", "set_pending",
                   "notify", "subscribe", "dispatch", "trigger", "record",
                   "log", "log_item", "log_failure", "poll", "aggregate"}
    BY <1>4 DEF SubmitWrite, Evaluate, CreateRequest, SetPendingApproval,
       Notify, Subscribe, DispatchNext, Trigger, RecordDispatch, LogSuccess,
       LogFailure, Poll, Aggregate
  <2> QED BY <1>1, <2>1 DEF Deciding
<1> QED BY <1>3, <1>4

\* The tables that the promises are about.
core == <<status, request, prov, job, pipelines>>

LEMMA SameCore ==
  ASSUME UNCHANGED core
  PROVE  /\ OrderOK' = OrderOK /\ ItemsOK' = ItemsOK /\ Released' = Released
  BY DEF core, OrderOK, ItemsOK, Released

\* Steps of the operator that leave these tables alone.
LEMMA QuietOperator ==
  ASSUME NEW s \in Workers, OperatorInv(s), Inv', UNCHANGED core,
         OthersWait(s), pc'[s] # "write_decision",
         OperatorAt(s)', PollAt(s)'
  PROVE  OperatorInv(s)'
<1>1. OrderOK' /\ ItemsOK'
  BY SameCore DEF OperatorInv
<1>2. VerdictsOK'
  BY DEF OperatorInv, VerdictsOK, OthersWait, core
<1> QED BY <1>1, <1>2 DEF OperatorInv, OthersWait

\* Steps of a worker that decides, or is stopped, and leaves them alone.
LEMMA QuietDecider ==
  ASSUME NEW s \in Workers, OperatorInv(s), Inv', UNCHANGED core,
         NEW w \in Workers, OthersWait(w),
         pc'[w] \in {"idle", "decide", "timeout_decide"},
         pc[w] # "set_pending" \/ MayCrash
  PROVE  OperatorInv(s)'
<1>1. OrderOK' /\ ItemsOK'
  BY SameCore DEF OperatorInv
<1>2. VerdictsOK'
  BY DEF OperatorInv, VerdictsOK, OthersWait, core
<1>3. \A v \in Workers \ {s} : pc'[v] \in Deciding
  BY DEF OperatorInv, OthersWait, Deciding
<1>4. OperatorAt(s)' /\ PollAt(s)'
  <2>1. CASE w = s
    BY <2>1 DEF OperatorInv, OperatorAt, PollAt, core, Dispatching
  <2>2. CASE w # s
    <3>1. UNCHANGED <<pc[s], loc[s]>>
      BY <2>2 DEF OthersWait
    <3> QED BY <3>1, SameCore DEF OperatorInv, OperatorAt, PollAt, core
  <2> QED BY <2>1, <2>2
<1> QED BY <1>1, <1>2, <1>3, <1>4 DEF OperatorInv

(***************************************************************************)
(* Decisions, timeouts, webhooks and crashes                               *)
(***************************************************************************)
LEMMA DeciderReadSteps ==
  ASSUME NEW s \in Workers, OperatorInv(s), Inv', NEW w \in Workers,
         \/ \E user \in Approvers, verdict \in {"approved", "rejected"} :
              DecisionRead(w, user, verdict)
         \/ TimeoutRead(w) \/ Crash(w)
         \/ \E p \in DOMAIN pipelines : Webhook(w, p)
  PROVE  OperatorInv(s)'
<1>1. ControlOK
  BY DEF OperatorInv, Inv, TypeOK
<1>2. /\ UNCHANGED core /\ OthersWait(w)
      /\ pc'[w] \in {"idle", "decide", "timeout_decide"}
  BY <1>1, Moves DEF DecisionRead, TimeoutRead, Webhook, Crash, core, dbVars
<1>3. pc[w] = "idle" \/ MayCrash
  BY DEF DecisionRead, TimeoutRead, Webhook, Crash, Gets
<1> QED BY <1>2, <1>3, QuietDecider

\* A decision is made while the order waits for it, before anything runs.
LEMMA PendingOrder ==
  ASSUME NEW s \in Workers, OperatorInv(s), request.status = "pending"
  PROVE  /\ status \in {"submitted", "pending_approval"} /\ pipelines = <<>>
         /\ pc[s] \notin Dispatching \cup {"evaluate", "create_request"}
         /\ \A v \in Workers : pc[v] # "write_decision"
<1>1. status \in OrderStatus
  BY DEF OperatorInv, Inv, TypeOK, TablesOK
<1>2. ~Released /\ pipelines = <<>>
  BY DEF OperatorInv, OrderOK, Released
<1>3. status \notin {"approved", "rejected"}
  BY DEF OperatorInv, Inv, OrderFollowsDecision
<1>4. status \in {"submitted", "pending_approval"}
  BY <1>1, <1>2, <1>3, Statuses DEF OperatorInv, OrderOK
<1>5. ASSUME NEW v \in Workers, pc[v] = "write_decision" PROVE FALSE
  <2>1. DecisionKnown(v)
    BY DEF OperatorInv, Inv, LocalsAgree
  <2> QED BY <1>5, <2>1 DEF DecisionKnown
<1> QED BY <1>2, <1>4, <1>5 DEF OperatorInv, OperatorAt

LEMMA DecideSteps ==
  ASSUME NEW s \in Workers, OperatorInv(s), Inv', NEW w \in Workers,
         Decide(w) \/ TimeoutDecide(w)
  PROVE  OperatorInv(s)'
<1>1. ControlOK
  BY DEF OperatorInv, Inv, TypeOK
<1>2. /\ UNCHANGED <<status, prov, job, pipelines>> /\ OthersWait(w)
      /\ pc[w] \in {"decide", "timeout_decide"}
      /\ pc'[w] \in {"idle", "write_decision"}
  BY <1>1, Moves DEF Decide, TimeoutDecide
<1>3. CASE request.status # "pending"
  <2>1. UNCHANGED core /\ pc'[w] = "idle"
    BY <1>1, <1>2, <1>3, Moves DEF Decide, TimeoutDecide, DecideRequest, core
  <2> QED BY <1>2, <2>1, QuietDecider
<1>4. CASE request.status = "pending"
  <2>1. request'.status \in {"approved", "rejected"}
    <3>1. DecisionKnown(w)
      BY DEF OperatorInv, Inv, LocalsAgree
    <3> QED BY <1>4, <3>1 DEF Decide, TimeoutDecide, DecideRequest, DecisionKnown
  <2>2. /\ status \in {"submitted", "pending_approval"} /\ pipelines = <<>>
        /\ pc[s] \notin Dispatching \cup {"evaluate", "create_request"}
        /\ \A v \in Workers : pc[v] # "write_decision"
    BY <1>4, PendingOrder
  <2>3. OrderOK' /\ ItemsOK'
    BY <1>2, <2>2 DEF OperatorInv, OrderOK, ItemsOK
  <2>4. VerdictsOK'
    BY <1>2, <2>2 DEF VerdictsOK, OthersWait
  <2>5. \A v \in Workers \ {s} : pc'[v] \in Deciding
    BY <1>2 DEF OperatorInv, OthersWait, Deciding
  <2>6. pc[s] # "set_pending" => (MayCrash \/ status # "submitted")
    BY <1>4 DEF OperatorInv, OperatorAt
  <2>7. OperatorAt(s)' /\ PollAt(s)'
    <3>1. CASE w = s
      BY <1>2, <2>2, <2>6, <3>1
         DEF OperatorInv, OperatorAt, PollAt, Dispatching
    <3>2. CASE w # s
      <4>1. UNCHANGED <<pc[s], loc[s]>>
        BY <1>2, <3>2 DEF OthersWait
      <4> QED BY <1>2, <2>1, <2>2, <2>6, <4>1
                 DEF OperatorInv, OperatorAt, PollAt, Released
    <3> QED BY <3>1, <3>2
  <2> QED BY <2>3, <2>4, <2>5, <2>7 DEF OperatorInv
<1> QED BY <1>3, <1>4

LEMMA VerdictStep ==
  ASSUME NEW s \in Workers, OperatorInv(s), Inv', NEW w \in Workers,
         WriteDecision(w)
  PROVE  OperatorInv(s)'
<1>1. /\ pc[w] = "write_decision" /\ status' = loc[w].verdict
      /\ UNCHANGED <<request, prov, job, pipelines>>
      /\ OthersWait(w) /\ pc'[w] = "idle"
  BY Moves DEF WriteDecision, OperatorInv, Inv, TypeOK
<1>2. /\ status \in {"submitted", "pending_approval"}
      /\ \A v \in Workers \ {w} : pc[v] # "write_decision"
  BY <1>1 DEF OperatorInv, VerdictsOK
<1>3. request.status = status' /\ status' \in {"approved", "rejected"}
  <2>1. DecisionKnown(w)
    BY DEF OperatorInv, Inv, LocalsAgree
  <2> QED BY <1>1, <2>1 DEF DecisionKnown
<1>4. OrderOK' /\ ItemsOK'
  BY <1>1, <1>2, <1>3 DEF OperatorInv, OrderOK, ItemsOK, Released
<1>5. VerdictsOK'
  BY <1>1, <1>2 DEF VerdictsOK, OthersWait
<1>6. \A v \in Workers \ {s} : pc'[v] \in Deciding
  BY <1>1 DEF OperatorInv, OthersWait, Deciding
<1>7. OperatorAt(s)' /\ PollAt(s)'
  <2>1. CASE w = s
    BY <1>1, <1>3, <2>1 DEF OperatorAt, PollAt, Dispatching
  <2>2. CASE w # s
    <3>1. UNCHANGED <<pc[s], loc[s]>>
      BY <1>1, <2>2 DEF OthersWait
    <3> QED BY <1>1, <1>2, <1>3, <3>1
               DEF OperatorInv, OperatorAt, PollAt, Released, Dispatching
  <2> QED BY <2>1, <2>2
<1> QED BY <1>4, <1>5, <1>6, <1>7 DEF OperatorInv
(***************************************************************************)
(* The operator submits                                                    *)
(***************************************************************************)
\* A worker elsewhere knows nothing about the order that could be wrong.
Elsewhere == {"idle", "notify", "subscribe", "poll"}

LEMMA ElsewhereOK ==
  ASSUME NEW s \in Workers, OperatorInv(s), UNCHANGED core,
         pc'[s] \in Elsewhere, pc[s] # "set_pending"
  PROVE  OperatorAt(s)'
  BY DEF OperatorInv, OperatorAt, Elsewhere, Dispatching, core

LEMMA SubmitQuietSteps ==
  ASSUME NEW s \in Workers, OperatorInv(s), Inv',
         SubmitRead(s) \/ Evaluate(s) \/ Notify(s) \/ Subscribe(s)
  PROVE  OperatorInv(s)'
<1>1. ControlOK /\ OperatorAt(s)
  BY DEF OperatorInv, Inv, TypeOK
<1>2. UNCHANGED core
  BY DEF SubmitRead, Evaluate, Notify, Subscribe, core, dbVars
<1>3. CASE SubmitRead(s)
  <2>1. /\ OthersWait(s) /\ pc[s] = "idle"
        /\ pc'[s] = "idle" \/ (pc'[s] = "submit_write" /\ status = "validated")
    BY <1>1, <1>3, Moves DEF SubmitRead, Gets
  <2>2. OperatorAt(s)' /\ PollAt(s)'
    BY <1>1, <1>2, <2>1 DEF OperatorAt, PollAt, Dispatching, core
  <2> QED BY <1>2, <2>1, <2>2, QuietOperator
<1>4. CASE Evaluate(s)
  <2>1. /\ pc[s] = "evaluate" /\ status = "submitted"
        /\ request.status = "none" /\ pipelines = <<>>
    BY <1>1, <1>4 DEF Evaluate, OperatorAt
  <2> DEFINE fresh  == {i \in Items : prov[i] = "not_started"}
             loaded == [loc[s] EXCEPT !.seen = status, !.todo = fresh]
  <2>2. CASE Goto(s, "dispatch", loaded)
    <3>1. loc[s] \in Local /\ loaded.seen = status
      BY <1>1 DEF ControlOK, Local
    <3> HIDE DEF loaded
    <3>2. pc'[s] = "dispatch" /\ loc'[s].seen = status /\ OthersWait(s)
      BY <1>1, <2>2, <3>1, Moves
    <3>3. OperatorAt(s)' /\ PollAt(s)'
      BY <1>2, <2>1, <3>2 DEF OperatorAt, PollAt, Dispatching, Released, core
    <3> QED BY <1>2, <3>2, <3>3, QuietOperator
  <2>3. CASE Goto(s, "create_request", loc[s]) \/ Goto(s, "notify", loc[s])
    <3>1. OthersWait(s) /\ pc'[s] \in {"create_request", "notify"}
      BY <1>1, <2>3, Moves
    <3>2. OperatorAt(s)' /\ PollAt(s)'
      BY <1>2, <2>1, <3>1 DEF OperatorAt, PollAt, Dispatching, core
    <3> QED BY <1>2, <3>1, <3>2, QuietOperator
  <2> QED BY <1>4, <2>2, <2>3 DEF Evaluate
<1>5. CASE Notify(s) \/ Subscribe(s)
  <2>1. /\ OthersWait(s) /\ pc'[s] \in {"idle", "subscribe"}
        /\ pc[s] \in {"notify", "subscribe"}
    BY <1>1, <1>5, Moves DEF Notify, Subscribe
  <2>2. OperatorAt(s)' /\ PollAt(s)'
    BY <1>2, <2>1, ElsewhereOK DEF Elsewhere, PollAt
  <2> QED BY <1>2, <2>1, <2>2, QuietOperator
<1> QED BY <1>3, <1>4, <1>5

\* The decided verdicts that wait to be written wait on, as far as the order
\* still may take them.
LEMMA VerdictsWait ==
  ASSUME NEW s \in Workers, OperatorInv(s), OthersWait(s),
         pc'[s] # "write_decision",
         \/ status' \in {"submitted", "pending_approval"}
         \/ \A v \in Workers : pc[v] # "write_decision"
  PROVE  VerdictsOK' /\ \A v \in Workers \ {s} : pc'[v] \in Deciding
  BY DEF OperatorInv, VerdictsOK, OthersWait

\* Nobody has a verdict while no decision was asked for, nor once it is written.
LEMMA NoVerdict ==
  ASSUME NEW s \in Workers, OperatorInv(s),
         \/ request.status = "none"
         \/ status \notin {"submitted", "pending_approval"}
  PROVE  \A v \in Workers : pc[v] # "write_decision"
<1> SUFFICES ASSUME NEW v \in Workers, pc[v] = "write_decision" PROVE FALSE
  OBVIOUS
<1>1. DecisionKnown(v) /\ status \in {"submitted", "pending_approval"}
  BY DEF OperatorInv, Inv, LocalsAgree, VerdictsOK
<1> QED BY <1>1 DEF DecisionKnown

LEMMA SubmitWriteSteps ==
  ASSUME NEW s \in Workers, OperatorInv(s), Inv',
         SubmitWrite(s) \/ CreateRequest(s) \/ SetPendingApproval(s)
  PROVE  OperatorInv(s)'
<1>1. ControlOK /\ OperatorAt(s) /\ OrderOK /\ ItemsOK
  BY DEF OperatorInv, Inv, TypeOK
<1>2. CASE SubmitWrite(s)
  <2>1. /\ pc[s] = "submit_write" /\ status = "validated"
        /\ status' = "submitted" /\ OthersWait(s) /\ pc'[s] = "evaluate"
        /\ UNCHANGED <<request, prov, job, pipelines>>
    BY <1>1, <1>2, Moves DEF SubmitWrite, OperatorAt
  <2>2. request.status = "none" /\ pipelines = <<>>
    BY <1>1, <2>1 DEF OrderOK
  <2>3. OrderOK' /\ ItemsOK'
    BY <1>1, <2>1, <2>2 DEF OrderOK, ItemsOK, Released
  <2>4. OperatorAt(s)' /\ PollAt(s)'
    BY <2>1, <2>2 DEF OperatorAt, PollAt, Dispatching
  <2> QED BY <2>1, <2>3, <2>4, VerdictsWait DEF OperatorInv
<1>3. CASE CreateRequest(s)
  <2>1. /\ pc[s] = "create_request" /\ status = "submitted"
        /\ request.status = "none" /\ pipelines = <<>>
    BY <1>1, <1>3 DEF CreateRequest, OperatorAt
  <2>2. /\ request'.status = "pending" /\ OthersWait(s)
        /\ pc'[s] = "set_pending" /\ UNCHANGED <<status, prov, job, pipelines>>
    BY <1>1, <1>3, <2>1, Moves DEF CreateRequest
  <2>3. OrderOK' /\ ItemsOK'
    BY <1>1, <2>1, <2>2 DEF OrderOK, ItemsOK
  <2>4. OperatorAt(s)' /\ PollAt(s)'
    BY <2>1, <2>2 DEF OperatorAt, PollAt, Dispatching
  <2> QED BY <2>1, <2>2, <2>3, <2>4, VerdictsWait DEF OperatorInv
<1>4. CASE SetPendingApproval(s)
  <2>1. /\ pc[s] = "set_pending" /\ request.status # "none"
        /\ pipelines = <<>> /\ status \in {"submitted", "approved", "rejected"}
    BY <1>1, <1>4 DEF SetPendingApproval, OperatorAt
  <2>2. /\ status' = "pending_approval" /\ OthersWait(s) /\ pc'[s] = "notify"
        /\ UNCHANGED <<request, prov, job, pipelines>>
    BY <1>1, <1>4, Moves DEF SetPendingApproval
  <2>3. OrderOK' /\ ItemsOK'
    BY <1>1, <2>1, <2>2 DEF OrderOK, ItemsOK
  <2>4. OperatorAt(s)' /\ PollAt(s)'
    BY <2>1, <2>2 DEF OperatorAt, PollAt, Dispatching
  <2> QED BY <2>2, <2>3, <2>4, VerdictsWait DEF OperatorInv
<1> QED BY <1>2, <1>3, <1>4

(***************************************************************************)
(* The operator dispatches                                                 *)
(***************************************************************************)
\* Nothing that the operator relies on in a dispatch has changed.
LEMMA DispatchGoesOn ==
  ASSUME NEW s \in Workers, OperatorInv(s), UNCHANGED <<status, request>>,
         pc[s] \in Dispatching, pc'[s] \in Dispatching,
         pc'[s] \in {"log", "log_item"} => status = "provisioning",
         \/ pc'[s] = "log_failure"
         \/ pc'[s] \in {"log", "log_item"}
         \/ loc'[s].seen = "none"
         \/ loc'[s].seen = loc[s].seen /\ pc[s] \in {"dispatch", "trigger"}
  PROVE  OperatorAt(s)' /\ PollAt(s)'
  BY DEF OperatorInv, OperatorAt, PollAt, Dispatching, Released

LEMMA DispatchQuietSteps ==
  ASSUME NEW s \in Workers, OperatorInv(s), Inv', DispatchesReleased,
         DispatchNext(s) \/ \E i \in Items : AdminDispatch(s, i)
  PROVE  OperatorInv(s)'
<1>1. ControlOK /\ OperatorAt(s) /\ loc[s] \in Local
  BY DEF OperatorInv, Inv, TypeOK, ControlOK
<1>2. UNCHANGED core
  BY DEF DispatchNext, AdminDispatch, core, dbVars
<1>3. CASE DispatchNext(s)
  <2>1. pc[s] = "dispatch"
    BY <1>3 DEF DispatchNext
  <2>2. CASE Undispatched(s) = {}
    <3>1. OthersWait(s) /\ pc'[s] = "notify"
      BY <1>1, <1>3, <2>2, Moves DEF DispatchNext
    <3>2. OperatorAt(s)' /\ PollAt(s)'
      BY <1>2, <2>1, <3>1, ElsewhereOK DEF Elsewhere, PollAt
    <3> QED BY <1>2, <3>1, <3>2, QuietOperator
  <2>3. CASE Undispatched(s) # {}
    <3> DEFINE i    == First(Undispatched(s))
               next == [loc[s] EXCEPT !.item = i, !.todo = Undispatched(s) \ {i}]
    <3>1. Goto(s, "trigger", next) /\ next.seen = loc[s].seen
      BY <1>1, <1>3, <2>3 DEF DispatchNext, Local
    <3> HIDE DEF next
    <3>2. OthersWait(s) /\ pc'[s] = "trigger" /\ loc'[s].seen = loc[s].seen
      BY <1>1, <3>1, Moves
    <3>3. OperatorAt(s)' /\ PollAt(s)'
      BY <1>2, <2>1, <3>2, DispatchGoesOn DEF Dispatching, core
    <3> QED BY <1>2, <3>2, <3>3, QuietOperator
  <2> QED BY <2>2, <2>3
<1>4. ASSUME NEW i \in Items, AdminDispatch(s, i) PROVE OperatorInv(s)'
  <2>1. pc[s] = "idle" /\ status \in DispatchWhen
    BY <1>4 DEF AdminDispatch, Gets
  <2>2. /\ status \in {"submitted", "approved", "provisioning"} /\ Released
        /\ status = "submitted" => request.status = "none"
    BY <1>1, <2>1
       DEF DispatchesReleased, OperatorInv, OperatorAt, OrderOK, Released, Inv,
           OrderFollowsDecision
  <2>3. CASE prov[i] = "not_started"
    <3> DEFINE next == [NoLoc EXCEPT !.call = "dispatch", !.item = i]
    <3>1. Start(s, "trigger", next) /\ next.seen = "none"
      BY <1>4, <2>3 DEF AdminDispatch, NoLoc
    <3> HIDE DEF next
    <3>2. OthersWait(s) /\ pc'[s] = "trigger" /\ loc'[s].seen = "none"
      BY <1>1, <3>1, Moves
    <3>3. OperatorAt(s)' /\ PollAt(s)'
      BY <1>2, <2>2, <3>2, SameCore
         DEF OperatorAt, PollAt, Dispatching, core
    <3> QED BY <1>2, <3>2, <3>3, QuietOperator
  <2>4. CASE prov[i] # "not_started"
    <3>1. OthersWait(s) /\ pc'[s] = "idle"
      BY <1>1, <1>4, <2>4, Moves DEF AdminDispatch
    <3>2. OperatorAt(s)' /\ PollAt(s)'
      BY <1>2, <2>1, <3>1, ElsewhereOK DEF Elsewhere, PollAt
    <3> QED BY <1>2, <3>1, <3>2, QuietOperator
  <2> QED BY <2>3, <2>4
<1> QED BY <1>3, <1>4
\* An item that has a job is told apart by it from every new pipeline.
LEMMA JobsKept ==
  ASSUME Inv, NEW i \in Items, prov[i] # "not_started"
  PROVE  job[i] \in DOMAIN pipelines
  BY DEF Inv, ItemMatchesJob

LEMMA TriggerStepOK ==
  ASSUME NEW s \in Workers, OperatorInv(s), Inv', Trigger(s)
  PROVE  OperatorInv(s)'
<1>1. ControlOK /\ OperatorAt(s) /\ OrderOK /\ ItemsOK /\ loc[s] \in Local
  BY DEF OperatorInv, Inv, TypeOK, ControlOK
<1>2. pc[s] = "trigger" /\ UNCHANGED <<status, request, prov, job>>
  BY DEF Trigger, dbVars
<1>3. /\ status \in {"submitted", "approved", "provisioning"} /\ Released
      /\ status = "submitted" => request.status = "none"
  BY <1>1, <1>2 DEF OperatorAt, Dispatching
<1>4. CASE UNCHANGED pipelines /\ Goto(s, "log_failure", loc[s])
  <2>1. OthersWait(s) /\ pc'[s] = "log_failure" /\ UNCHANGED core
    BY <1>1, <1>2, <1>4, Moves DEF core
  <2>2. OperatorAt(s)' /\ PollAt(s)'
    BY <1>2, <2>1, DispatchGoesOn DEF Dispatching
  <2> QED BY <2>1, <2>2, QuietOperator
<1>5. ASSUME pipelines' = Append(pipelines, [item |-> loc[s].item,
                                             status |-> "pending"]),
             \/ Goto(s, "log_failure", loc[s])
             \/ Goto(s, "record", [loc[s] EXCEPT !.job = Len(pipelines) + 1])
      PROVE  OperatorInv(s)'
  <2>1. pipelines' # <<>> /\ \A p \in DOMAIN pipelines : pipelines'[p] = pipelines[p]
    <3>1. pipelines \in Seq(Pipeline)
      BY DEF OperatorInv, Inv, TypeOK, TablesOK
    <3>2. loc[s].item \in Items
      BY <1>2 DEF OperatorInv, Inv, LocalsAgree, PipelineKnown
    <3>3. [item |-> loc[s].item, status |-> "pending"] \in Pipeline
      BY <3>2, Statuses DEF Pipeline
    <3> QED BY <1>5, <3>1, <3>3, AppendProperties
  <2>2. /\ OthersWait(s)
        /\ \/ pc'[s] = "log_failure"
           \/ pc'[s] = "record" /\ loc'[s].seen = loc[s].seen
    <3> DEFINE next == [loc[s] EXCEPT !.job = Len(pipelines) + 1]
    <3>1. next.seen = loc[s].seen
      BY <1>1 DEF Local
    <3>2. Goto(s, "log_failure", loc[s]) \/ Goto(s, "record", next)
      BY <1>5
    <3> HIDE DEF next
    <3> QED BY <1>1, <3>1, <3>2, Moves
  <2>3. OrderOK'
    BY <1>1, <1>2, <1>3, <2>1 DEF OrderOK, Released
  <2>4. ItemsOK'
    <3>1. \A i \in Items : prov[i] # "not_started" =>
            pipelines'[job[i]] = pipelines[job[i]]
      BY <2>1, JobsKept DEF OperatorInv
    <3> QED BY <1>1, <1>2, <3>1 DEF ItemsOK
  <2>5. VerdictsOK' /\ \A v \in Workers \ {s} : pc'[v] \in Deciding
    BY <1>3, <2>2, NoVerdict, VerdictsWait
  <2>6. OperatorAt(s)' /\ PollAt(s)'
    BY <1>2, <2>2, DispatchGoesOn DEF Dispatching
  <2> QED BY <2>3, <2>4, <2>5, <2>6 DEF OperatorInv
<1> QED BY <1>4, <1>5 DEF Trigger

\* Saving the item takes the order's tables along.
LEMMA SavedItem ==
  ASSUME NEW s \in Workers, OperatorInv(s), Inv', SaveItem(s),
         UNCHANGED <<request, pipelines>>, status' = "provisioning", Released
  PROVE  OrderOK' /\ ItemsOK'
<1>1. OrderOK'
  BY DEF OrderOK, Released
<1>2. prov \in [Items -> ProvisioningStatus] /\ job \in [Items -> Nat]
  BY DEF OperatorInv, Inv, TypeOK, TablesOK
<1>3. \A i \in Items : \/ prov'[i] = "pending"
                       \/ prov'[i] = prov[i] /\ job'[i] = job[i]
  BY <1>2 DEF SaveItem
<1>4. ItemsOK'
  BY <1>3 DEF OperatorInv, ItemsOK
<1> QED BY <1>1, <1>4

LEMMA RecordStepOK ==
  ASSUME NEW s \in Workers, OperatorInv(s), Inv', RecordDispatch(s)
  PROVE  OperatorInv(s)'
<1>1. ControlOK /\ OperatorAt(s)
  BY DEF OperatorInv, Inv, TypeOK
<1>2. pc[s] = "record" /\ UNCHANGED <<request, pipelines>>
  BY DEF RecordDispatch
<1>3. /\ status \in {"submitted", "approved", "provisioning"} /\ Released
      /\ status = "submitted" => request.status = "none"
      /\ loc[s].seen # "none" => loc[s].seen = status
  BY <1>1, <1>2 DEF OperatorAt, Dispatching
<1>4. CASE status = "provisioning"
  <2>1. Goto(s, "log_item", loc[s]) /\ UNCHANGED core
    BY <1>2, <1>3, <1>4 DEF RecordDispatch, core
  <2>2. OthersWait(s) /\ pc'[s] = "log_item"
    BY <1>1, <2>1, Moves
  <2>3. OperatorAt(s)' /\ PollAt(s)'
    BY <1>2, <1>4, <2>1, <2>2, DispatchGoesOn DEF Dispatching, core
  <2> QED BY <2>1, <2>2, <2>3, QuietOperator
<1>5. CASE status # "provisioning"
  <2>1. /\ status' = "provisioning" /\ SaveItem(s)
        /\ Goto(s, "log", loc[s])
    BY <1>2, <1>3, <1>5 DEF RecordDispatch
  <2>2. OthersWait(s) /\ pc'[s] = "log"
    BY <1>1, <2>1, Moves
  <2>3. OrderOK' /\ ItemsOK'
    BY <1>2, <1>3, <2>1, SavedItem
  <2>4. VerdictsOK' /\ \A v \in Workers \ {s} : pc'[v] \in Deciding
    BY <1>3, <2>2, NoVerdict, VerdictsWait
  <2>5. OperatorAt(s)' /\ PollAt(s)'
    BY <1>2, <1>3, <2>1, <2>2 DEF OperatorAt, PollAt, Dispatching, Released
  <2> QED BY <2>3, <2>4, <2>5 DEF OperatorInv
<1> QED BY <1>4, <1>5

LEMMA LogStepsOK ==
  ASSUME NEW s \in Workers, OperatorInv(s), Inv', LogSuccess(s) \/ LogFailure(s)
  PROVE  OperatorInv(s)'
<1>1. ControlOK /\ OperatorAt(s)
  BY DEF OperatorInv, Inv, TypeOK
<1>2. /\ pc[s] \in {"log", "log_item", "log_failure"} /\ AfterItem(s)
      /\ UNCHANGED <<status, request, pipelines>>
  BY DEF LogSuccess, LogFailure
<1>3. /\ OthersWait(s)
      /\ \/ pc'[s] = "dispatch" /\ loc'[s].seen = "none"
         \/ pc'[s] = "idle"
  <2> DEFINE next == [NoLoc EXCEPT !.call = "submit", !.todo = loc[s].todo]
  <2>1. next.seen = "none"
    BY DEF NoLoc
  <2>2. Goto(s, "dispatch", next) \/ Reply(s, "ok")
    BY <1>2 DEF AfterItem
  <2> HIDE DEF next
  <2> QED BY <1>1, <2>1, <2>2, Moves
<1>4. OperatorAt(s)' /\ PollAt(s)'
  <2>1. CASE pc'[s] = "dispatch" /\ loc'[s].seen = "none"
    BY <1>2, <2>1, DispatchGoesOn DEF Dispatching
  <2>2. CASE pc'[s] = "idle"
    BY <1>1, <1>2, <2>2 DEF OperatorAt, PollAt, Dispatching
  <2> QED BY <1>3, <2>1, <2>2
<1>5. CASE UNCHANGED <<job, prov>>
  <2>1. UNCHANGED core
    BY <1>2, <1>5 DEF core
  <2> QED BY <1>3, <1>4, <2>1, QuietOperator
<1>6. CASE pc[s] = "log_item" /\ SaveItem(s)
  <2>1. status = "provisioning" /\ Released
    BY <1>1, <1>6 DEF OperatorAt, Dispatching
  <2>2. OrderOK' /\ ItemsOK'
    BY <1>2, <1>6, <2>1, SavedItem
  <2>3. VerdictsOK' /\ \A v \in Workers \ {s} : pc'[v] \in Deciding
    BY <1>3, <2>1, NoVerdict, VerdictsWait
  <2> QED BY <1>4, <2>2, <2>3 DEF OperatorInv
<1> QED BY <1>2, <1>5, <1>6 DEF LogSuccess, LogFailure

(***************************************************************************)
(* The operator polls, GitLab goes on                                      *)
(***************************************************************************)
LEMMA PollQuietSteps ==
  ASSUME NEW s \in Workers, OperatorInv(s), Inv',
         Poll(s) \/ \E i \in Items : SyncRead(s, i)
  PROVE  OperatorInv(s)'
<1>1. ControlOK /\ OperatorAt(s) /\ PollAt(s) /\ ItemsOK /\ loc[s] \in Local
  BY DEF OperatorInv, Inv, TypeOK, ControlOK
<1>2. UNCHANGED core
  BY DEF Poll, SyncRead, core, dbVars
<1>3. ASSUME NEW i \in Items, SyncRead(s, i) PROVE OperatorInv(s)'
  <2> DEFINE next == [NoLoc EXCEPT !.call = "sync", !.item = i,
                                   !.job = job[i], !.old = prov[i]]
  <2>1. /\ next.item = i /\ next.job = job[i] /\ next.old = prov[i]
        /\ pc[s] = "idle" /\ Start(s, "poll", next)
    BY <1>3 DEF NoLoc, SyncRead, Gets
  <2> HIDE DEF next
  <2>2. OthersWait(s) /\ pc'[s] = "poll" /\ loc'[s] = next
    BY <1>1, <2>1, Moves
  <2>3. OperatorAt(s)' /\ PollAt(s)'
    BY <1>2, <2>1, <2>2, ElsewhereOK DEF Elsewhere, PollAt, core
  <2> QED BY <1>2, <2>2, <2>3, QuietOperator
<1>4. CASE Poll(s)
  <2> DEFINE answer == MapPipelineStatus(pipelines[loc[s].job].status, loc[s].old)
             next   == [loc[s] EXCEPT !.new = answer]
  <2>1. pc[s] = "poll" /\ loc[s].job = job[loc[s].item]
        /\ loc[s].old = prov[loc[s].item]
    BY <1>1, <1>4 DEF Poll, PollAt
  <2>2. CASE Goto(s, "aggregate", next)
    <3>1. /\ next.item = loc[s].item /\ next.job = loc[s].job
          /\ next.old = loc[s].old /\ next.new = answer
      BY <1>1 DEF Local
    <3>2. /\ loc[s].item \in Items /\ loc[s].job \in DOMAIN pipelines
      BY <2>1 DEF OperatorInv, Inv, LocalsAgree, PipelineKnown
    <3>3. pipelines[loc[s].job].status \in PipelineStatus
      BY <3>2, PipelineType DEF OperatorInv, Inv, TypeOK, Pipeline
    <3>4. /\ answer = "done" => pipelines[job[loc[s].item]].status = "success"
          /\ answer = "failed" => pipelines[job[loc[s].item]].status = "failed"
          /\ loc[s].old \in {"done", "failed"} => answer = loc[s].old
      BY <1>1, <2>1, <3>2, <3>3, Statuses
         DEF ItemsOK, MapPipelineStatus, GitlabStatusMap
    <3> HIDE DEF next, answer
    <3>5. OthersWait(s) /\ pc'[s] = "aggregate" /\ loc'[s] = next
      BY <1>1, <2>2, Moves
    <3>6. PollAt(s)'
      BY <1>2, <2>1, <3>1, <3>4, <3>5 DEF PollAt, core
    <3>7. OperatorAt(s)'
      BY <1>1, <1>2, <2>1, <3>5 DEF OperatorAt, Dispatching, core
    <3> QED BY <1>2, <3>5, <3>6, <3>7, QuietOperator
  <2>3. CASE Reply(s, "error")
    <3>1. OthersWait(s) /\ pc'[s] = "idle"
      BY <1>1, <2>3, Moves
    <3>2. OperatorAt(s)' /\ PollAt(s)'
      BY <1>2, <2>1, <3>1, ElsewhereOK DEF Elsewhere, PollAt
    <3> QED BY <1>2, <3>1, <3>2, QuietOperator
  <2> QED BY <1>4, <2>2, <2>3 DEF Poll
<1> QED BY <1>3, <1>4
\* What an aggregation writes: it finishes an order in provisioning, or finds
\* the end that was written before.
LEMMA AggregateWrites ==
  ASSUME NEW s \in Workers, OperatorInv(s), Aggregate(s), ~UNCHANGED <<status, prov>>
  PROVE  /\ prov' = [prov EXCEPT ![loc[s].item] = loc[s].new]
         /\ status' = "done" => \A i \in Items : prov'[i] = "done"
         /\ status' = "failed" => \E i \in Items : prov'[i] = "failed"
         /\ status' \in {"done", "failed"} /\ Released
         /\ status = "provisioning" \/ status' = status
<1> DEFINE i   == loc[s].item
           new == loc[s].new
<1>1. /\ pc[s] = "aggregate" /\ OrderOK /\ ItemsOK
      /\ i \in Items /\ job[i] # 0 /\ loc[s].old = prov[i]
      /\ loc[s].old \in {"done", "failed"} => new = loc[s].old
  BY DEF Aggregate, OperatorInv, PollAt, Inv, LocalsAgree, PollKnown,
     PipelineKnown
<1>2. prov \in [Items -> ProvisioningStatus]
  BY DEF OperatorInv, Inv, TypeOK, TablesOK
<1>3. \/ SeenStatuses(s) = {"done"} /\ status' = "done" /\ CommitItem(s)
      \/ "failed" \in SeenStatuses(s) /\ status' = "failed" /\ CommitItem(s)
  BY DEF Aggregate
<1>4. prov' = [prov EXCEPT ![i] = new]
  BY <1>1, <1>2, <1>3 DEF CommitItem
<1>5. SeenStatuses(s) = {prov'[j] : j \in Items}
  BY <1>1, <1>2, <1>4 DEF SeenStatuses
<1>6. status \in {"provisioning", "done", "failed"} /\ Released
  BY <1>1 DEF OrderOK
<1>7. CASE SeenStatuses(s) = {"done"} /\ status' = "done"
  <2>1. \A j \in Items : prov'[j] = "done"
    BY <1>5, <1>7
  <2>2. status # "failed"
    <3> SUFFICES ASSUME status = "failed" PROVE FALSE
      OBVIOUS
    <3>1. PICK k \in Items : prov[k] = "failed"
      BY <1>1 DEF ItemsOK
    <3>2. prov'[k] = "failed"
      BY <1>1, <1>2, <1>4, <3>1
    <3> QED BY <2>1, <3>2
  <2> QED BY <1>4, <1>6, <1>7, <2>1, <2>2
<1>8. CASE "failed" \in SeenStatuses(s) /\ status' = "failed"
  <2>1. PICK j \in Items : prov'[j] = "failed"
    BY <1>5, <1>8
  <2>2. status # "done"
    BY <1>1, <1>2, <1>4, <2>1 DEF ItemsOK
  <2> QED BY <1>4, <1>6, <1>8, <2>1, <2>2
<1> QED BY <1>3, <1>7, <1>8

LEMMA AggregateStepOK ==
  ASSUME NEW s \in Workers, OperatorInv(s), Inv', Aggregate(s)
  PROVE  OperatorInv(s)'
<1>1. ControlOK /\ OperatorAt(s) /\ PollAt(s) /\ OrderOK /\ ItemsOK
  BY DEF OperatorInv, Inv, TypeOK
<1>2. /\ pc[s] = "aggregate" /\ UNCHANGED <<request, job, pipelines>>
      /\ OthersWait(s) /\ pc'[s] = "idle"
  BY <1>1, Moves DEF Aggregate
<1>3. CASE UNCHANGED <<status, prov>>
  <2>1. UNCHANGED core
    BY <1>2, <1>3 DEF core
  <2> QED BY <1>2, <2>1, QuietDecider
<1>4. CASE ~UNCHANGED <<status, prov>>
  <2>1. /\ prov' = [prov EXCEPT ![loc[s].item] = loc[s].new]
        /\ status' = "done" => \A i \in Items : prov'[i] = "done"
        /\ status' = "failed" => \E i \in Items : prov'[i] = "failed"
        /\ status' \in {"done", "failed"} /\ Released
        /\ status = "provisioning" \/ status' = status
    BY <1>4, AggregateWrites
  <2>2. prov \in [Items -> ProvisioningStatus]
    BY DEF OperatorInv, Inv, TypeOK, TablesOK
  <2>3. OrderOK'
    BY <1>1, <1>2, <2>1 DEF OrderOK, Released
  <2>4. ItemsOK'
    BY <1>1, <1>2, <2>1, <2>2 DEF ItemsOK, PollAt
  <2>5. VerdictsOK' /\ \A v \in Workers \ {s} : pc'[v] \in Deciding
    BY <1>2, <2>1, NoVerdict, VerdictsWait
  <2>6. OperatorAt(s)' /\ PollAt(s)'
    BY <1>2, <2>1 DEF OperatorAt, PollAt, Dispatching
  <2> QED BY <2>3, <2>4, <2>5, <2>6 DEF OperatorInv
<1> QED BY <1>3, <1>4

\* A pipeline that has ended stays as it is.
LEMMA EndedPipelines ==
  ASSUME Inv, NEW p \in DOMAIN pipelines, NEW new \in PipelineStatus,
         PipelineMoves(p, new)
  PROVE  /\ pipelines # <<>> /\ pipelines' # <<>>
         /\ DOMAIN pipelines' = DOMAIN pipelines
         /\ \A q \in DOMAIN pipelines :
              /\ pipelines'[q].item = pipelines[q].item
              /\ pipelines[q].status \in {"success", "failed"} =>
                   pipelines'[q] = pipelines[q]
<1>1. /\ Len(pipelines) \in Nat /\ DOMAIN pipelines = 1 .. Len(pipelines)
      /\ \A q \in DOMAIN pipelines : pipelines[q] \in Pipeline
  BY PipelineType DEF Inv, TypeOK
<1>2. /\ pipelines' = [pipelines EXCEPT ![p].status = new]
      /\ pipelines[p].status \in {"pending", "running"}
  BY DEF PipelineMoves
<1>3. DOMAIN pipelines' = DOMAIN pipelines
  BY <1>2
<1> QED BY <1>1, <1>2, <1>3 DEF Pipeline

LEMMA PipelineMovesOK ==
  ASSUME NEW s \in Workers, OperatorInv(s), Inv',
         NEW p \in DOMAIN pipelines, NEW new \in PipelineStatus,
         PipelineMoves(p, new)
  PROVE  OperatorInv(s)'
<1>1. /\ UNCHANGED <<status, request, prov, job, pc, loc>>
      /\ pipelines # <<>> /\ pipelines' # <<>>
      /\ \A q \in DOMAIN pipelines :
           pipelines[q].status \in {"success", "failed"} =>
             pipelines'[q] = pipelines[q]
  BY EndedPipelines DEF PipelineMoves, dbVars, OperatorInv
<1>2. \A i \in Items : prov[i] # "not_started" => job[i] \in DOMAIN pipelines
  BY JobsKept DEF OperatorInv
<1>3. OrderOK' /\ VerdictsOK' /\ OperatorAt(s)'
  BY <1>1 DEF OperatorInv, OrderOK, VerdictsOK, OperatorAt, Released
<1>4. ItemsOK'
  BY <1>1, <1>2 DEF OperatorInv, ItemsOK
<1>5. PollAt(s)'
  <2>1. pc[s] = "aggregate" => job[loc[s].item] \in DOMAIN pipelines
    BY DEF OperatorInv, Inv, LocalsAgree, PollKnown, PipelineKnown,
       ItemMatchesJob
  <2> QED BY <1>1, <2>1 DEF OperatorInv, PollAt
<1> QED BY <1>1, <1>3, <1>4, <1>5 DEF OperatorInv

(***************************************************************************)
(* The invariant of one operator                                           *)
(***************************************************************************)
LEMMA OperatorStep ==
  ASSUME NEW s \in Workers, Operates(s), DispatchesReleased
  PROVE  OperatorInv(s) /\ [Next]_vars => OperatorInv(s)'
<1> SUFFICES ASSUME OperatorInv(s), [Next]_vars PROVE OperatorInv(s)'
  OBVIOUS
<1>1. Inv'
  BY StepInv DEF OperatorInv
<1>2. ASSUME NEW w \in Workers, Begin(w) PROVE OperatorInv(s)'
  <2>1. CASE \/ SubmitRead(w)
             \/ \E i \in Items : AdminDispatch(w, i) \/ SyncRead(w, i)
    BY <1>1, <2>1, OperatorOnly, SubmitQuietSteps, DispatchQuietSteps,
       PollQuietSteps
  <2> QED BY <1>1, <1>2, <2>1, DeciderReadSteps DEF Begin
<1>3. ASSUME NEW w \in Workers, Proceed(w) PROVE OperatorInv(s)'
  <2>1. CASE \/ SubmitWrite(w) \/ Evaluate(w) \/ CreateRequest(w)
             \/ SetPendingApproval(w) \/ Notify(w) \/ Subscribe(w)
             \/ DispatchNext(w) \/ Trigger(w) \/ RecordDispatch(w)
             \/ LogSuccess(w) \/ LogFailure(w) \/ Poll(w) \/ Aggregate(w)
    <3>1. w = s
      BY <2>1, OperatorOnly
    <3> QED BY <1>1, <2>1, <3>1, SubmitWriteSteps, SubmitQuietSteps,
               DispatchQuietSteps, TriggerStepOK, RecordStepOK, LogStepsOK,
               PollQuietSteps, AggregateStepOK
  <2> QED BY <1>1, <1>3, <2>1, DecideSteps, VerdictStep DEF Proceed
<1>4. ASSUME NEW w \in Workers, Crash(w) PROVE OperatorInv(s)'
  BY <1>1, <1>4, DeciderReadSteps
<1>5. ASSUME NEW p \in DOMAIN pipelines, NEW new \in PipelineStatus,
             PipelineMoves(p, new)
      PROVE  OperatorInv(s)'
  BY <1>1, <1>5, PipelineMovesOK
<1>6. CASE UNCHANGED vars
  BY <1>1, <1>6, SameCore
     DEF vars, core, OperatorInv, VerdictsOK, OperatorAt, PollAt
<1> QED BY <1>2, <1>3, <1>4, <1>5, <1>6 DEF Next

LEMMA OperatorHolds ==
  ASSUME NEW s \in Workers, Operates(s), DispatchesReleased
  PROVE  Spec => []OperatorInv(s)
<1>1. Init => OperatorInv(s)
  <2> SUFFICES ASSUME Init PROVE OperatorInv(s)
    OBVIOUS
  <2>1. OrderOK /\ ItemsOK /\ VerdictsOK
    BY DEF Init, OrderOK, ItemsOK, VerdictsOK
  <2>2. OperatorAt(s) /\ PollAt(s) /\ \A v \in Workers : pc[v] \in Deciding
    BY DEF Init, OperatorAt, PollAt, Dispatching, Deciding
  <2> QED BY <2>1, <2>2, InitInv DEF OperatorInv
<1> QED BY <1>1, OperatorStep, PTL DEF Spec

\* An order is done only when the pipeline of each of its items has succeeded,
\* although an aggregation reads the other items of the order long after they
\* were polled (sync_item_status); not even a crash makes it lie.
THEOREM DoneIsTrue ==
  ASSUME OneOperator, DispatchesReleased
  PROVE  Spec => []DoneMeansAllSucceeded
<1>1. PICK s \in Workers : Operates(s)
  BY DEF OneOperator
<1>2. Spec => []OperatorInv(s)
  BY <1>1, OperatorHolds
<1>3. OperatorInv(s) => DoneMeansAllSucceeded
  BY DEF OperatorInv, ItemsOK, Inv, ItemMatchesJob, DoneMeansAllSucceeded,
     AllSucceeded
<1> QED BY <1>2, <1>3, PTL

(***************************************************************************)
(* The views                                                               *)
(***************************************************************************)
LEMMA Counts ==
  /\ \A x : Cardinality({x}) = 1
  /\ Cardinality({}) = 0
  BY FS_Singleton, FS_EmptySet

LEMMA ViewsAgree ==
  ASSUME TypeOK, ItemsOK
  PROVE  DashboardsAgree
<1>1. status \in OrderStatus
  BY DEF TypeOK, TablesOK
<1> SUFFICES ASSUME NEW user \in Approvers \cup {Requester}, NEW admin \in BOOLEAN
    PROVE  /\ \A s \in OrderStatus :
                LET listed == Cardinality(ListOrders(user, admin, {s})) IN
                /\ (s \in DOMAIN OrdersByStatus(user, admin)) = (listed > 0)
                /\ admin => s \in AllStatuses /\ AdminOrderCounts[s] = listed
           /\ SearchOrders(user, admin) = ListOrders(user, admin, OrderStatus)
           /\ Cardinality(ListApprovals(user, TRUE, {"pending"})) = PendingApprovals
           /\ AdminPendingApprovals = PendingApprovals
           /\ ActiveResources(user, admin) = Cardinality(ListResources(user, admin))
           /\ AdminActiveResources = ActiveResources(user, TRUE)
  BY DEF DashboardsAgree
<1>2. ASSUME NEW s \in OrderStatus
      PROVE  LET listed == Cardinality(ListOrders(user, admin, {s})) IN
             /\ (s \in DOMAIN OrdersByStatus(user, admin)) = (listed > 0)
             /\ admin => s \in AllStatuses /\ AdminOrderCounts[s] = listed
  <2>1. ListOrders(user, admin, {s}) =
          IF Shown(user, admin) /\ s = status THEN {s} ELSE {}
    BY DEF ListOrders
  <2>2. s \in DOMAIN OrdersByStatus(user, admin) <=>
          Shown(user, admin) /\ s = status
    BY DEF OrdersByStatus
  <2>3. Cardinality(ListOrders(user, admin, {s})) =
          IF Shown(user, admin) /\ s = status THEN 1 ELSE 0
    BY <2>1, Counts
  <2>4. s \in AllStatuses /\ AdminOrderCounts[s] = IF s = status THEN 1 ELSE 0
    BY Statuses DEF AllStatuses, AdminOrderCounts
  <2>5. admin => Shown(user, admin)
    BY DEF Shown
  <2> QED BY <2>2, <2>3, <2>4, <2>5
<1>3. SearchOrders(user, admin) = ListOrders(user, admin, OrderStatus)
  BY <1>1 DEF SearchOrders, ListOrders
<1>4. /\ Cardinality(ListApprovals(user, TRUE, {"pending"})) = PendingApprovals
      /\ AdminPendingApprovals = PendingApprovals
  <2>1. CASE request.status = "pending"
    <3>1. /\ ListApprovals(user, TRUE, {"pending"}) = {"pending"}
          /\ {r \in {request} : r.status = "pending"} = {request}
      BY <2>1 DEF ListApprovals
    <3> QED BY <2>1, <3>1, Counts DEF PendingApprovals, AdminPendingApprovals
  <2>2. CASE request.status # "pending"
    <3>1. /\ ListApprovals(user, TRUE, {"pending"}) = {}
          /\ {r \in {request} : r.status = "pending"} = {}
      BY <2>2 DEF ListApprovals
    <3> QED BY <2>2, <3>1, Counts DEF PendingApprovals, AdminPendingApprovals
  <2> QED BY <2>1, <2>2
<1>5. /\ ActiveResources(user, admin) = Cardinality(ListResources(user, admin))
      /\ AdminActiveResources = ActiveResources(user, TRUE)
  <2>1. CASE status = "done"
    <3>1. /\ {i \in Items : status = "done" /\ prov[i] = "done"} = Items
          /\ ListResources(user, admin) =
               IF Shown(user, admin) THEN Items ELSE {}
      BY <2>1 DEF ItemsOK, ListResources
    <3>2. Shown(user, TRUE)
      BY DEF Shown
    <3> QED BY <2>1, <3>1, <3>2, Counts
               DEF ActiveResources, AdminActiveResources
  <2>2. CASE status # "done"
    <3>1. /\ {i \in Items : status = "done" /\ prov[i] = "done"} = {}
          /\ ListResources(user, admin) = {}
      BY <2>2 DEF ListResources
    <3> QED BY <2>2, <3>1, Counts DEF ActiveResources, AdminActiveResources
  <2> QED BY <2>1, <2>2
<1> QED BY <1>2, <1>3, <1>4, <1>5

\* The dashboards count what the lists show, for every user, whatever is
\* decided, dispatched and polled meanwhile (dashboard_service.py counts the
\* resources of an order without asking for the status of its items).
THEOREM ViewsAlwaysAgree ==
  ASSUME OneOperator, DispatchesReleased
  PROVE  Spec => []DashboardsAgree
<1>1. PICK s \in Workers : Operates(s)
  BY DEF OneOperator
<1>2. Spec => []OperatorInv(s)
  BY <1>1, OperatorHolds
<1>3. OperatorInv(s) => DashboardsAgree
  BY ViewsAgree DEF OperatorInv, Inv
<1> QED BY <1>2, <1>3, PTL

(***************************************************************************)
(* The workflow implements OrderLifecycle                                  *)
(***************************************************************************)
LifecycleStep == Lifecycle!Next \/ UNCHANGED <<EffectiveStatus, request.status>>

LEMMA Allowed ==
  /\ Lifecycle!CanTransition("validated", "submitted")
  /\ Lifecycle!CanTransition("submitted", "pending_approval")
  /\ Lifecycle!CanTransition("submitted", "provisioning")
  /\ Lifecycle!CanTransition("pending_approval", "approved")
  /\ Lifecycle!CanTransition("pending_approval", "rejected")
  /\ Lifecycle!CanTransition("approved", "provisioning")
  /\ Lifecycle!CanTransition("provisioning", "done")
  /\ Lifecycle!CanTransition("provisioning", "failed")
  BY DEF Lifecycle!CanTransition, Lifecycle!Transitions

\* Handlers that write neither the order's status nor its request.
LEMMA UnseenStep ==
  ASSUME UNCHANGED <<status, request>>
  PROVE  LifecycleStep
  BY DEF LifecycleStep, EffectiveStatus

LEMMA SubmitRefines ==
  ASSUME NEW s \in Workers, OperatorInv(s),
         SubmitWrite(s) \/ CreateRequest(s) \/ SetPendingApproval(s)
  PROVE  LifecycleStep
<1>1. OperatorAt(s) /\ OrderOK /\ OrderFollowsDecision
  BY DEF OperatorInv, Inv
<1>2. CASE SubmitWrite(s)
  <2>1. /\ status = "validated" /\ status' = "submitted"
        /\ request.status = "none" /\ request' = request
    BY <1>1, <1>2 DEF SubmitWrite, OperatorAt, OrderOK
  <2>2. EffectiveStatus = "validated" /\ EffectiveStatus' = "submitted"
    BY <2>1 DEF EffectiveStatus
  <2> QED BY <2>1, <2>2, Allowed
             DEF LifecycleStep, Lifecycle!Next, Lifecycle!Submit, Lifecycle!Move
<1>3. CASE CreateRequest(s)
  <2>1. /\ status = "submitted" /\ status' = "submitted"
        /\ request.status = "none" /\ request'.status = "pending"
    BY <1>1, <1>3 DEF CreateRequest, OperatorAt
  <2>2. EffectiveStatus = "submitted" /\ EffectiveStatus' = "pending_approval"
    BY <2>1 DEF EffectiveStatus
  <2> QED BY <2>1, <2>2, Allowed DEF LifecycleStep, Lifecycle!Next,
             Lifecycle!RequestApproval, Lifecycle!Move
<1>4. CASE SetPendingApproval(s)
  <2>1. /\ status \in {"submitted", "approved", "rejected"}
        /\ status' = "pending_approval"
        /\ request.status # "none" /\ request' = request
    BY <1>1, <1>4 DEF SetPendingApproval, OperatorAt
  <2>2. status # "submitted" => request.status = status
    BY <1>1, <2>1 DEF OrderFollowsDecision
  <2>3. EffectiveStatus' = EffectiveStatus
    BY <2>1, <2>2 DEF EffectiveStatus
  <2> QED BY <2>1, <2>3 DEF LifecycleStep
<1> QED BY <1>2, <1>3, <1>4

LEMMA DecideRefines ==
  ASSUME NEW s \in Workers, OperatorInv(s), NEW w \in Workers,
         Decide(w) \/ TimeoutDecide(w) \/ WriteDecision(w)
  PROVE  LifecycleStep
<1>1. CASE WriteDecision(w)
  <2>1. /\ pc[w] = "write_decision" /\ request' = request
        /\ status' = loc[w].verdict
    BY <1>1 DEF WriteDecision
  <2>2. /\ status \in {"submitted", "pending_approval"}
        /\ loc[w].verdict \in {"approved", "rejected"}
        /\ request.status = loc[w].verdict
    BY <2>1 DEF OperatorInv, VerdictsOK, Inv, LocalsAgree, DecisionKnown
  <2>3. EffectiveStatus' = EffectiveStatus
    BY <2>1, <2>2 DEF EffectiveStatus
  <2> QED BY <2>1, <2>3 DEF LifecycleStep
<1>2. CASE Decide(w) \/ TimeoutDecide(w)
  <2>1. CASE request.status # "pending"
    BY <1>2, <2>1, UnseenStep DEF Decide, TimeoutDecide, DecideRequest
  <2>2. CASE request.status = "pending"
    <3>1. /\ status \in {"submitted", "pending_approval"} /\ status' = status
          /\ request'.status \in {"approved", "rejected"}
      BY <1>2, <2>2, PendingOrder DEF Decide, TimeoutDecide, DecideRequest,
         OperatorInv, Inv, LocalsAgree, DecisionKnown
    <3>2. /\ EffectiveStatus = "pending_approval"
          /\ EffectiveStatus' = request'.status
      BY <2>2, <3>1 DEF EffectiveStatus
    <3>3. Lifecycle!Decide(request'.status)
      BY <2>2, <3>1, <3>2, Allowed DEF Lifecycle!Decide, Lifecycle!Move
    <3> QED BY <3>1, <3>3 DEF LifecycleStep, Lifecycle!Next
  <2> QED BY <2>1, <2>2
<1> QED BY <1>1, <1>2

LEMMA ProvisionRefines ==
  ASSUME NEW s \in Workers, OperatorInv(s), RecordDispatch(s) \/ Aggregate(s)
  PROVE  LifecycleStep
<1>1. CASE UNCHANGED <<status, request>>
  BY <1>1, UnseenStep
<1>2. CASE RecordDispatch(s) /\ ~UNCHANGED <<status, request>>
  <2>1. pc[s] = "record" /\ request' = request /\ status' = "provisioning"
    BY <1>2 DEF RecordDispatch
  <2>2. /\ status \in {"submitted", "approved"}
        /\ status = "submitted" => request.status = "none"
        /\ status = "approved" => request.status = "approved"
    BY <1>2, <2>1
       DEF OperatorInv, OperatorAt, Dispatching, Inv, OrderFollowsDecision
  <2>3. EffectiveStatus = status /\ EffectiveStatus' = "provisioning"
    BY <2>1, <2>2 DEF EffectiveStatus
  <2> QED BY <2>1, <2>2, <2>3, Allowed DEF LifecycleStep, Lifecycle!Next,
             Lifecycle!Provision, Lifecycle!Move
<1>3. CASE Aggregate(s) /\ ~UNCHANGED <<status, request>>
  <2>1. request' = request /\ ~UNCHANGED <<status, prov>> /\ status' # status
    BY <1>3 DEF Aggregate
  <2>2. /\ status = "provisioning" /\ status' \in {"done", "failed"}
        /\ request.status \in {"none", "approved"}
    BY <1>3, <2>1, AggregateWrites DEF Released
  <2>3. EffectiveStatus = "provisioning" /\ EffectiveStatus' = status'
    <3>1. /\ status \notin {"submitted", "pending_approval"}
          /\ status' \notin {"submitted", "pending_approval"}
          /\ request.status # "pending" /\ request' = request
      BY <2>1, <2>2
    <3> QED BY <2>2, <3>1 DEF EffectiveStatus
  <2> QED BY <2>1, <2>2, <2>3, Allowed DEF LifecycleStep, Lifecycle!Next,
             Lifecycle!Finish, Lifecycle!Move
<1> QED BY <1>1, <1>2, <1>3

LEMMA LifecycleRefined ==
  ASSUME NEW s \in Workers, Operates(s)
  PROVE  OperatorInv(s) /\ [Next]_vars => LifecycleStep
<1> SUFFICES ASSUME OperatorInv(s), [Next]_vars PROVE LifecycleStep
  OBVIOUS
<1>1. ASSUME NEW w \in Workers,
             \/ SubmitWrite(w) \/ CreateRequest(w) \/ SetPendingApproval(w)
             \/ RecordDispatch(w) \/ Aggregate(w)
      PROVE  LifecycleStep
  <2>1. w = s
    BY <1>1, OperatorOnly
  <2> QED BY <1>1, <2>1, SubmitRefines, ProvisionRefines
<1>2. ASSUME NEW w \in Workers,
             Decide(w) \/ TimeoutDecide(w) \/ WriteDecision(w)
      PROVE  LifecycleStep
  BY <1>2, DecideRefines
<1>3. \/ UNCHANGED <<status, request>>
      \/ \E w \in Workers :
           \/ SubmitWrite(w) \/ CreateRequest(w) \/ SetPendingApproval(w)
           \/ RecordDispatch(w) \/ Aggregate(w)
           \/ Decide(w) \/ TimeoutDecide(w) \/ WriteDecision(w)
  BY DEF Next, vars, Begin, Proceed, dbVars, SubmitRead, DecisionRead,
     TimeoutRead, AdminDispatch, SyncRead, Webhook, Evaluate, Notify,
     Subscribe, DispatchNext, Trigger, LogSuccess, LogFailure, Poll, Crash,
     PipelineMoves
<1> QED BY <1>1, <1>2, <1>3, UnseenStep

\* With one operator, any number of approvers and timeouts, crashes and lost
\* answers of GitLab, the order implements its lifecycle: read through its
\* request, its status and the decision on it move together, along the table
\* of app/domain/order.py, and it is provisioned only if the decision allows.
THEOREM WorkflowImplementsLifecycle ==
  ASSUME OneOperator, DispatchesReleased
  PROVE  Spec => ImplementsLifecycle
<1>1. PICK s \in Workers : Operates(s)
  BY DEF OneOperator
<1>2. Spec => []OperatorInv(s)
  BY <1>1, OperatorHolds
<1>3. Init => Lifecycle!Init
  BY DEF Init, Lifecycle!Init, EffectiveStatus
<1>4. OperatorInv(s) /\ [Next]_vars => [Lifecycle!Next]_(Lifecycle!vars)
  BY <1>1, LifecycleRefined DEF LifecycleStep, Lifecycle!vars
<1> QED BY <1>2, <1>3, <1>4, PTL DEF Spec, ImplementsLifecycle, Lifecycle!Spec
(***************************************************************************)
(* How often an item is dispatched                                         *)
(***************************************************************************)
\* A worker that carries an item may still log a pipeline for it: it is on the
\* way from the trigger to the log, or loaded the item as not started and has
\* committed nothing since.
Carries(w, i) ==
  \/ pc[w] \in {"trigger", "record", "log", "log_item"} /\ loc[w].item = i
  \/ pc[w] = "dispatch" /\ loc[w].seen # "none" /\ i \in loc[w].todo

Carriers(i) == {w \in Workers : Carries(w, i)}

\* Once an item has started nobody takes it up any more, so that each carrier
\* adds at most one pipeline to those that are logged.
CountOK(i) ==
  /\ prov[i] = "not_started" => Confirmed(i) = {}
  /\ IsFiniteSet(Confirmed(i))
  /\ Cardinality(Confirmed(i)) + Cardinality(Carriers(i))
       <= Cardinality(Workers)

LoggedStarted ==
  \A w \in Workers : pc[w] = "log" => prov[loc[w].item] # "not_started"

CountInv == LoggedStarted /\ \A i \in Items : CountOK(i)

StaysStarted ==
  \A i \in Items : prov[i] # "not_started" => prov'[i] # "not_started"

\* What a step of w may do to the counts when it logs nothing.
TakesFresh(w) ==
  /\ OthersWait(w) /\ StaysStarted
  /\ pc'[w] = "log" => prov'[loc'[w].item] # "not_started"
  /\ \A i \in Items : prov[i] # "not_started" /\ Carries(w, i)' => Carries(w, i)

LEMMA CarriersFinite ==
  ASSUME NEW T \in SUBSET Workers
  PROVE  /\ IsFiniteSet(T) /\ Cardinality(T) \in Nat
         /\ Cardinality(T) <= Cardinality(Workers)
         /\ Cardinality(Workers) \in Nat
  BY ConstantsAssumption, FS_Subset, FS_CardinalityType

LEMMA OthersLogged ==
  ASSUME Inv, LoggedStarted, NEW w \in Workers, OthersWait(w), StaysStarted,
         pc'[w] = "log" => prov'[loc'[w].item] # "not_started"
  PROVE  LoggedStarted'
<1> SUFFICES ASSUME NEW v \in Workers, pc'[v] = "log"
             PROVE  prov'[loc'[v].item] # "not_started"
  BY DEF LoggedStarted
<1>1. CASE v = w
  BY <1>1
<1>2. CASE v # w
  <2>1. pc[v] = "log" /\ loc'[v] = loc[v] /\ loc[v].item \in Items
    BY <1>2 DEF OthersWait, Inv, LocalsAgree, PipelineKnown
  <2> QED BY <2>1 DEF LoggedStarted, StaysStarted
<1> QED BY <1>1, <1>2

\* The logged pipelines stay the same and a started item gains no carrier.
LEMMA CountKept ==
  ASSUME NEW i \in Items, CountOK(i), Confirmed(i)' = Confirmed(i),
         prov[i] # "not_started" =>
           prov'[i] # "not_started" /\ Carriers(i)' \subseteq Carriers(i)
  PROVE  CountOK(i)'
<1>1. Carriers(i) \subseteq Workers /\ Carriers(i)' \subseteq Workers
  BY DEF Carriers
<1>2. /\ Cardinality(Carriers(i)) \in Nat /\ Cardinality(Carriers(i)') \in Nat
      /\ Cardinality(Carriers(i)') <= Cardinality(Workers)
      /\ Cardinality(Workers) \in Nat /\ Cardinality(Confirmed(i)) \in Nat
  BY <1>1, CarriersFinite, FS_CardinalityType DEF CountOK
<1>3. CASE prov[i] = "not_started"
  <2>1. Confirmed(i) = {} /\ Cardinality(Confirmed(i)) = 0
    BY <1>3, FS_EmptySet DEF CountOK
  <2> QED BY <1>2, <2>1 DEF CountOK
<1>4. CASE prov[i] # "not_started"
  <2>1. Cardinality(Carriers(i)') <= Cardinality(Carriers(i))
    BY <1>1, <1>4, CarriersFinite, FS_Subset
  <2> QED BY <1>2, <1>4, <2>1 DEF CountOK
<1> QED BY <1>3, <1>4

LEMMA FreshSteps ==
  ASSUME Inv, CountInv, NEW w \in Workers, TakesFresh(w),
         \A i \in Items : Confirmed(i)' = Confirmed(i)
  PROVE  CountInv'
<1>1. LoggedStarted'
  BY OthersLogged DEF CountInv, TakesFresh
<1>2. ASSUME NEW i \in Items PROVE CountOK(i)'
  <2>1. ASSUME prov[i] # "not_started" PROVE Carriers(i)' \subseteq Carriers(i)
    BY <2>1 DEF TakesFresh, Carriers, Carries, OthersWait
  <2> QED BY <2>1, CountKept DEF CountInv, TakesFresh, StaysStarted
<1> QED BY <1>1, <1>2 DEF CountInv

\* Steps of w that end elsewhere than on the way to the log.
LEMMA ElsewhereFresh ==
  ASSUME Inv, NEW w \in Workers, OthersWait(w), StaysStarted,
         \/ pc'[w] \notin {"dispatch", "trigger", "record", "log", "log_item"}
         \/ pc'[w] = "dispatch" /\ loc'[w].seen = "none"
  PROVE  TakesFresh(w)
  BY DEF TakesFresh, Carries

LEMMA AfterItemFresh ==
  ASSUME ControlOK, NEW w \in Workers, AfterItem(w)
  PROVE  /\ OthersWait(w)
         /\ pc'[w] = "idle" \/ (pc'[w] = "dispatch" /\ loc'[w].seen = "none")
<1> DEFINE next == [NoLoc EXCEPT !.call = "submit", !.todo = loc[w].todo]
<1>1. next.seen = "none"
  BY DEF NoLoc
<1>2. Goto(w, "dispatch", next) \/ Reply(w, "ok")
  BY DEF AfterItem
<1> HIDE DEF next
<1> QED BY <1>1, <1>2, Moves

\* An aggregation writes what polling found, never "not_started".
LEMMA AggregateStarted ==
  ASSUME Inv, NEW w \in Workers, Aggregate(w)
  PROVE  StaysStarted
<1>1. /\ loc[w].item \in Items /\ loc[w].new # "not_started"
      /\ prov \in [Items -> ProvisioningStatus]
  BY DEF Aggregate, Inv, LocalsAgree, PollKnown, PipelineKnown, TypeOK, TablesOK
<1>2. UNCHANGED prov \/ prov' = [prov EXCEPT ![loc[w].item] = loc[w].new]
  BY DEF Aggregate, CommitItem
<1> QED BY <1>1, <1>2 DEF StaysStarted

LEMMA SavedStarted ==
  ASSUME Inv, NEW w \in Workers, pc[w] \in {"record", "log_item"}, SaveItem(w)
  PROVE  StaysStarted /\ prov'[loc[w].item] # "not_started"
<1>1. loc[w].item \in Items /\ prov \in [Items -> ProvisioningStatus]
  BY DEF Inv, LocalsAgree, PipelineKnown, TypeOK, TablesOK
<1> QED BY <1>1 DEF SaveItem, StaysStarted

LEMMA SubmissionsCount ==
  ASSUME Inv, CountInv, NEW w \in Workers, Evaluate(w) \/ DispatchNext(w)
  PROVE  CountInv'
<1>1. /\ ControlOK /\ loc[w] \in Local /\ UNCHANGED <<prov, logs>>
  BY DEF Inv, TypeOK, ControlOK, Evaluate, DispatchNext, dbVars
<1>2. StaysStarted /\ \A i \in Items : Confirmed(i)' = Confirmed(i)
  BY <1>1 DEF StaysStarted, Confirmed
<1>3. CASE Evaluate(w)
  <2> DEFINE fresh  == {i \in Items : prov[i] = "not_started"}
             loaded == [loc[w] EXCEPT !.seen = status, !.todo = fresh]
  <2>1. CASE Goto(w, "dispatch", loaded)
    <3>1. loaded.todo = fresh
      BY <1>1 DEF Local
    <3> HIDE DEF loaded
    <3>2. pc'[w] = "dispatch" /\ loc'[w].todo = fresh /\ OthersWait(w)
      BY <1>1, <2>1, <3>1, Moves
    <3>3. TakesFresh(w)
      BY <1>2, <3>2 DEF TakesFresh, Carries
    <3> QED BY <1>2, <3>3, FreshSteps
  <2>2. CASE Goto(w, "create_request", loc[w]) \/ Goto(w, "notify", loc[w])
    <3>1. pc'[w] \in {"create_request", "notify"} /\ OthersWait(w)
      BY <1>1, <2>2, Moves
    <3> QED BY <1>2, <3>1, ElsewhereFresh, FreshSteps
  <2> QED BY <1>3, <2>1, <2>2 DEF Evaluate
<1>4. CASE DispatchNext(w)
  <2> DEFINE todo == Undispatched(w)
             next == [loc[w] EXCEPT !.item = First(todo), !.todo = todo \ {First(todo)}]
  <2>1. CASE todo = {}
    <3>1. pc'[w] = "notify" /\ OthersWait(w)
      BY <1>1, <1>4, <2>1, Moves DEF DispatchNext
    <3> QED BY <1>2, <3>1, ElsewhereFresh, FreshSteps
  <2>2. CASE todo # {}
    <3>1. /\ todo \subseteq loc[w].todo /\ todo \subseteq Items
          /\ \A i \in todo : prov[i] = "not_started" \/ loc[w].seen # "none"
      BY <1>1 DEF Undispatched, Local
    <3>2. First(todo) \in todo
      BY <2>2, <3>1, FirstInSet
    <3>3. Goto(w, "trigger", next) /\ next.item = First(todo)
      BY <1>1, <1>4, <2>2 DEF DispatchNext, Local
    <3> HIDE DEF next, todo
    <3>4. /\ pc'[w] = "trigger" /\ loc'[w].item = First(todo) /\ OthersWait(w)
          /\ pc[w] = "dispatch"
      BY <1>1, <1>4, <3>3, Moves DEF DispatchNext
    <3>5. TakesFresh(w)
      BY <1>2, <3>1, <3>2, <3>4 DEF TakesFresh, Carries
    <3> QED BY <1>2, <3>5, FreshSteps
  <2> QED BY <2>1, <2>2
<1> QED BY <1>3, <1>4

LEMMA AdminCount ==
  ASSUME Inv, CountInv, NEW w \in Workers, NEW i \in Items, AdminDispatch(w, i)
  PROVE  CountInv'
<1>1. ControlOK /\ UNCHANGED <<prov, logs>>
  BY DEF Inv, TypeOK, AdminDispatch, dbVars
<1>2. StaysStarted /\ \A j \in Items : Confirmed(j)' = Confirmed(j)
  BY <1>1 DEF StaysStarted, Confirmed
<1> DEFINE next == [NoLoc EXCEPT !.call = "dispatch", !.item = i]
<1>3. CASE Start(w, "trigger", next) /\ prov[i] = "not_started"
  <2>1. next.item = i
    BY DEF NoLoc
  <2> HIDE DEF next
  <2>2. pc'[w] = "trigger" /\ loc'[w].item = i /\ OthersWait(w)
    BY <1>1, <1>3, <2>1, Moves
  <2>3. TakesFresh(w)
    BY <1>2, <1>3, <2>2 DEF TakesFresh, Carries
  <2> QED BY <1>2, <2>3, FreshSteps
<1>4. CASE Reply(w, "ok")
  <2>1. pc'[w] = "idle" /\ OthersWait(w)
    BY <1>1, <1>4, Moves
  <2> QED BY <1>2, <2>1, ElsewhereFresh, FreshSteps
<1> QED BY <1>3, <1>4 DEF AdminDispatch

LEMMA TriggerCount ==
  ASSUME Inv, CountInv, NEW w \in Workers, Trigger(w) \/ RecordDispatch(w)
  PROVE  CountInv'
<1>1. ControlOK /\ loc[w] \in Local /\ UNCHANGED logs
  BY DEF Inv, TypeOK, ControlOK, Trigger, RecordDispatch, dbVars
<1>2. \A i \in Items : Confirmed(i)' = Confirmed(i)
  BY <1>1 DEF Confirmed
<1>3. CASE Trigger(w)
  <2> DEFINE next == [loc[w] EXCEPT !.job = Len(pipelines) + 1]
  <2>1. pc[w] = "trigger" /\ UNCHANGED prov
    BY <1>3 DEF Trigger, dbVars
  <2>2. CASE Goto(w, "record", next)
    <3>1. next.item = loc[w].item
      BY <1>1 DEF Local
    <3> HIDE DEF next
    <3>2. pc'[w] = "record" /\ loc'[w].item = loc[w].item /\ OthersWait(w)
      BY <1>1, <2>2, <3>1, Moves
    <3>3. TakesFresh(w)
      BY <2>1, <3>2 DEF TakesFresh, Carries, StaysStarted
    <3> QED BY <1>2, <3>3, FreshSteps
  <2>3. CASE Goto(w, "log_failure", loc[w])
    <3>1. pc'[w] = "log_failure" /\ OthersWait(w) /\ StaysStarted
      BY <1>1, <2>1, <2>3, Moves DEF StaysStarted
    <3> QED BY <1>2, <3>1, ElsewhereFresh, FreshSteps
  <2> QED BY <1>3, <2>2, <2>3 DEF Trigger
<1>4. CASE RecordDispatch(w)
  <2>1. pc[w] = "record"
    BY <1>4 DEF RecordDispatch
  <2>2. /\ pc'[w] \in {"log", "log_item"} /\ loc'[w] = loc[w] /\ OthersWait(w)
        /\ pc'[w] = "log" => SaveItem(w)
        /\ SaveItem(w) \/ UNCHANGED prov
    BY <1>1, <1>4, Moves DEF RecordDispatch
  <2>3. /\ StaysStarted
        /\ pc'[w] = "log" => prov'[loc'[w].item] # "not_started"
    BY <2>1, <2>2, SavedStarted DEF StaysStarted
  <2>4. TakesFresh(w)
    BY <2>1, <2>2, <2>3 DEF TakesFresh, Carries
  <2> QED BY <1>2, <2>4, FreshSteps
<1> QED BY <1>3, <1>4

\* The log gains one pipeline, and its item loses the carrier who logs it.
LEMMA LogCount ==
  ASSUME Inv, CountInv, NEW w \in Workers, LogSuccess(w)
  PROVE  CountInv'
<1>0. loc[w].item \in Items
  BY DEF LogSuccess, Inv, LocalsAgree, PipelineKnown
<1> PICK i \in Items : i = loc[w].item
  BY <1>0
<1> PICK e : e = <<i, loc[w].job>>
  OBVIOUS
<1>1. /\ pc[w] \in {"log", "log_item"} /\ AfterItem(w) /\ i = loc[w].item
      /\ logs' = logs \cup {e} /\ e = <<i, loc[w].job>>
  BY DEF LogSuccess
<1>2. /\ OthersWait(w)
      /\ pc'[w] = "idle" \/ (pc'[w] = "dispatch" /\ loc'[w].seen = "none")
  BY <1>1, AfterItemFresh DEF Inv, TypeOK
<1>3. StaysStarted /\ prov'[i] # "not_started"
  <2>1. CASE pc[w] = "log_item"
    BY <1>1, <2>1, SavedStarted DEF LogSuccess
  <2>2. CASE pc[w] = "log"
    BY <1>1, <2>2 DEF LogSuccess, StaysStarted, CountInv, LoggedStarted
  <2> QED BY <1>1, <2>1, <2>2
<1>4. \A j \in Items : Carriers(j)' \subseteq Carriers(j) \ {w}
  BY <1>2 DEF Carriers, Carries, OthersWait
<1>5. LoggedStarted'
  BY <1>2, <1>3, OthersLogged DEF CountInv
<1>6. ASSUME NEW j \in Items, j # i PROVE CountOK(j)'
  <2>1. Confirmed(j)' = Confirmed(j)
    BY <1>1, <1>6 DEF Confirmed
  <2> QED BY <1>3, <1>4, <2>1, CountKept DEF CountInv, StaysStarted
<1>7. CountOK(i)'
  <2>1. w \in Carriers(i) /\ CountOK(i)
    BY <1>1 DEF Carriers, Carries, CountInv
  <2>2. Confirmed(i)' \subseteq Confirmed(i) \cup {e}
    BY <1>1 DEF Confirmed
  <2> DEFINE C  == Confirmed(i)
             CC == Confirmed(i)'
             D  == Carriers(i)
             DD == Carriers(i)'
  <2>3. /\ IsFiniteSet(C) /\ Cardinality(C) \in Nat
        /\ IsFiniteSet(C \cup {e}) /\ Cardinality(C \cup {e}) \in Nat
        /\ Cardinality(C \cup {e}) <= Cardinality(C) + 1
    <3>1. IsFiniteSet(C)
      BY <2>1 DEF CountOK
    <3> HIDE DEF C
    <3>2. Cardinality(C) \in Nat
      BY <3>1, FS_CardinalityType
    <3>3. /\ IsFiniteSet(C \cup {e})
          /\ Cardinality(C \cup {e}) =
               IF e \in C THEN Cardinality(C) ELSE Cardinality(C) + 1
      BY <3>1, FS_AddElement
    <3> QED BY <3>1, <3>2, <3>3
  <2>4. /\ IsFiniteSet(CC) /\ Cardinality(CC) \in Nat
        /\ Cardinality(CC) <= Cardinality(C) + 1
    <3>1. CC \in SUBSET (C \cup {e})
      BY <2>2
    <3> HIDE DEF C, CC
    <3>2. /\ IsFiniteSet(CC) /\ Cardinality(CC) <= Cardinality(C \cup {e})
      BY <2>3, <3>1, FS_Subset
    <3> QED BY <2>3, <3>2, FS_CardinalityType
  <2>5. /\ IsFiniteSet(D) /\ Cardinality(D) \in Nat
        /\ Cardinality(D \ {w}) = Cardinality(D) - 1
        /\ IsFiniteSet(D \ {w})
    <3>1. D \in SUBSET Workers
      BY DEF Carriers
    <3>2. IsFiniteSet(D) /\ Cardinality(D) \in Nat
      BY <3>1, CarriersFinite
    <3> HIDE DEF D
    <3> QED BY <2>1, <3>2, FS_RemoveElement DEF D
  <2>6. Cardinality(DD) \in Nat /\ Cardinality(DD) <= Cardinality(D) - 1
    <3>1. DD \in SUBSET (D \ {w})
      BY <1>4
    <3> HIDE DEF D, DD
    <3> QED BY <2>5, <3>1, FS_Subset, FS_CardinalityType
  <2>7. Cardinality(C) + Cardinality(D) <= Cardinality(Workers)
    BY <2>1 DEF CountOK
  <2>8. Cardinality(Workers) \in Nat
    BY CarriersFinite
  <2>9. Cardinality(CC) + Cardinality(DD) <= Cardinality(Workers)
    <3> HIDE DEF C, CC, D, DD
    <3> QED BY <2>3, <2>4, <2>5, <2>6, <2>7, <2>8
  <2> QED BY <1>3, <2>4, <2>9 DEF CountOK
<1>8. \A j \in Items : CountOK(j)'
  BY <1>6, <1>7
<1> QED BY <1>5, <1>8 DEF CountInv

\* A failed attempt is logged without a pipeline.
LEMMA FailureCount ==
  ASSUME Inv, CountInv, NEW w \in Workers, LogFailure(w)
  PROVE  CountInv'
<1>1. logs' = logs \cup {<<loc[w].item, 0>>} /\ AfterItem(w) /\ UNCHANGED prov
  BY DEF LogFailure
<1>2. \A i \in Items : Confirmed(i)' = Confirmed(i)
  BY <1>1 DEF Confirmed
<1>3. TakesFresh(w)
  BY <1>1, AfterItemFresh, ElsewhereFresh DEF StaysStarted, Inv, TypeOK
<1> QED BY <1>2, <1>3, FreshSteps

LEMMA CountStep == Inv /\ CountInv /\ [Next]_vars => CountInv'
<1> SUFFICES ASSUME Inv, CountInv, [Next]_vars PROVE CountInv'
  OBVIOUS
<1>1. ControlOK
  BY DEF Inv, TypeOK
<1>2. ASSUME NEW w \in Workers,
             \/ SubmitRead(w) \/ SubmitWrite(w) \/ CreateRequest(w)
             \/ SetPendingApproval(w) \/ Notify(w) \/ Subscribe(w)
             \/ \E user \in Approvers, verdict \in {"approved", "rejected"} :
                  DecisionRead(w, user, verdict)
             \/ Decide(w) \/ WriteDecision(w) \/ TimeoutRead(w)
             \/ TimeoutDecide(w) \/ \E i \in Items : SyncRead(w, i)
             \/ Poll(w) \/ \E p \in DOMAIN pipelines : Webhook(w, p)
             \/ Crash(w)
      PROVE  CountInv'
  <2>1. /\ UNCHANGED <<prov, logs>> /\ OthersWait(w)
        /\ pc'[w] \notin {"dispatch", "trigger", "record", "log", "log_item"}
    <3>1. CASE \/ SubmitRead(w) \/ SubmitWrite(w) \/ CreateRequest(w)
               \/ SetPendingApproval(w) \/ Notify(w) \/ Subscribe(w)
      BY <1>1, <3>1, Moves DEF SubmitRead, SubmitWrite, CreateRequest,
         SetPendingApproval, Notify, Subscribe, dbVars
    <3>2. CASE \E user \in Approvers, verdict \in {"approved", "rejected"} :
                 DecisionRead(w, user, verdict)
      BY <1>1, <3>2, Moves DEF DecisionRead, dbVars
    <3>3. CASE Decide(w) \/ WriteDecision(w)
      BY <1>1, <3>3, Moves DEF Decide, WriteDecision
    <3>4. CASE TimeoutRead(w) \/ TimeoutDecide(w)
      BY <1>1, <3>4, Moves DEF TimeoutRead, TimeoutDecide, dbVars
    <3>5. CASE \E i \in Items : SyncRead(w, i)
      BY <1>1, <3>5, Moves DEF SyncRead, dbVars
    <3>6. CASE Poll(w) \/ Crash(w) \/ \E p \in DOMAIN pipelines : Webhook(w, p)
      BY <1>1, <3>6, Moves DEF Poll, Crash, Webhook, dbVars
    <3> QED BY <1>2, <3>1, <3>2, <3>3, <3>4, <3>5, <3>6
  <2>2. TakesFresh(w)
    BY <2>1, ElsewhereFresh DEF StaysStarted
  <2>3. \A i \in Items : Confirmed(i)' = Confirmed(i)
    BY <2>1 DEF Confirmed
  <2> QED BY <2>2, <2>3, FreshSteps
<1>3. ASSUME NEW w \in Workers, Aggregate(w) PROVE CountInv'
  <2>1. pc'[w] = "idle" /\ OthersWait(w) /\ UNCHANGED logs
    BY <1>1, <1>3, Moves DEF Aggregate
  <2>2. TakesFresh(w)
    BY <1>3, <2>1, AggregateStarted, ElsewhereFresh
  <2>3. \A i \in Items : Confirmed(i)' = Confirmed(i)
    BY <2>1 DEF Confirmed
  <2> QED BY <2>2, <2>3, FreshSteps
<1>4. ASSUME UNCHANGED <<prov, logs, pc, loc>> PROVE CountInv'
  BY <1>4 DEF CountInv, LoggedStarted, CountOK, Confirmed, Carriers, Carries
<1>5. CASE \/ \E p \in DOMAIN pipelines, new \in PipelineStatus :
                PipelineMoves(p, new)
           \/ UNCHANGED vars
  BY <1>4, <1>5 DEF PipelineMoves, dbVars, vars
<1> QED BY <1>2, <1>3, <1>5, SubmissionsCount, AdminCount, TriggerCount,
           LogCount, FailureCount DEF Next, Begin, Proceed

\* However many workers submit, dispatch and poll, wherever they die and
\* whichever answers are lost: an item has at most one logged pipeline for
\* each worker.  A worker that has committed rereads provisioning_status
\* before it triggers again, and nothing resets it to "not_started".
THEOREM DispatchesAreBounded == Spec => []ConfirmedOncePerWorker
<1>1. Init => CountInv
  <2> SUFFICES ASSUME Init PROVE CountInv
    OBVIOUS
  <2>1. LoggedStarted
    BY DEF Init, LoggedStarted
  <2>2. ASSUME NEW i \in Items PROVE CountOK(i)
    <3>1. Confirmed(i) = {} /\ Carriers(i) = {}
      BY DEF Init, Confirmed, Carriers, Carries
    <3> QED BY <3>1, FS_EmptySet, CarriersFinite DEF CountOK
  <2> QED BY <2>1, <2>2 DEF CountInv
<1>2. CountInv => ConfirmedOncePerWorker
  <2> SUFFICES ASSUME CountInv, NEW i \in Items
               PROVE  Cardinality(Confirmed(i)) <= Cardinality(Workers)
    BY DEF ConfirmedOncePerWorker
  <2>1. /\ Cardinality(Confirmed(i)) \in Nat /\ Cardinality(Workers) \in Nat
        /\ Cardinality(Carriers(i)) \in Nat
    BY CarriersFinite, FS_CardinalityType DEF CountInv, CountOK, Carriers
  <2> QED BY <2>1 DEF CountInv, CountOK
<1> QED BY <1>1, <1>2, CountStep, InvHolds, PTL DEF Spec

(***************************************************************************)
(* A submission dispatches nothing that waits for a decision               *)
(***************************************************************************)
Before     == {"submit_write", "evaluate", "create_request"}
Submitting == Before \cup {"set_pending", "notify", "subscribe", "dispatch"}

\* Only s submits; whatever the others do, the order stays submitted once s
\* has written it, so that it is submitted, and its request made, only once.
FreelyOf(s) ==
  /\ \A w \in Workers \ {s} :
       loc[w].call # "submit" /\ pc[w] \notin Submitting
  /\ request.status # "none" => status # "validated"
  /\ pc[s] \in Before => request.status = "none"
  /\ pc[s] \in {"evaluate", "create_request", "set_pending"} =>
       status # "validated"
  /\ loc[s].call = "submit" /\ pc[s] \in Dispatching =>
       request.status = "none" /\ status # "validated"

LEMMA OthersFreely ==
  ASSUME NEW s \in Workers, FreelyOf(s), OthersWait(s)
  PROVE  \A w \in Workers \ {s} :
           loc'[w].call # "submit" /\ pc'[w] \notin Submitting
  BY DEF FreelyOf, OthersWait

\* The submitting worker.
LEMMA FreelySubmits ==
  ASSUME ControlOK, NEW s \in Workers, FreelyOf(s),
         \/ SubmitRead(s) \/ SubmitWrite(s) \/ Evaluate(s) \/ CreateRequest(s)
         \/ SetPendingApproval(s) \/ Notify(s) \/ Subscribe(s)
         \/ DispatchNext(s)
  PROVE  FreelyOf(s)'
<1>1. /\ OthersWait(s)
      /\ pc'[s] \notin {"trigger", "record", "log", "log_item", "log_failure"}
           \/ (DispatchNext(s) /\ loc[s] \in Local)
  BY Moves DEF SubmitRead, SubmitWrite, Evaluate, CreateRequest,
     SetPendingApproval, Notify, Subscribe, DispatchNext, ControlOK
<1>2. CASE SubmitRead(s)
  BY <1>1, <1>2, Moves, OthersFreely
     DEF SubmitRead, FreelyOf, Before, Dispatching, dbVars
<1>3. CASE SubmitWrite(s)
  BY <1>1, <1>3, Moves, OthersFreely DEF SubmitWrite, FreelyOf, Before, Dispatching
<1>4. CASE Evaluate(s)
  BY <1>1, <1>4, Moves, OthersFreely
     DEF Evaluate, FreelyOf, Before, Dispatching, dbVars
<1>5. CASE CreateRequest(s)
  BY <1>1, <1>5, Moves, OthersFreely
     DEF CreateRequest, FreelyOf, Before, Dispatching
<1>6. CASE SetPendingApproval(s) \/ Notify(s) \/ Subscribe(s)
  <2>1. /\ pc'[s] \in {"notify", "subscribe", "idle"} /\ UNCHANGED request
        /\ status' \in {status, "pending_approval"}
    BY <1>6, Moves DEF SetPendingApproval, Notify, Subscribe
  <2> QED BY <1>1, <2>1, OthersFreely DEF FreelyOf, Before, Dispatching
<1>7. CASE DispatchNext(s)
  <2>1. /\ pc[s] = "dispatch" /\ UNCHANGED <<status, request>>
    BY <1>7 DEF DispatchNext, dbVars
  <2>2. pc'[s] = "notify" \/ (pc'[s] = "trigger" /\ loc'[s].call = loc[s].call)
    <3> DEFINE i == First(Undispatched(s))
               next == [loc[s] EXCEPT !.item = i, !.todo = Undispatched(s) \ {i}]
    <3>1. next.call = loc[s].call
      BY DEF ControlOK, Local
    <3>2. \/ \E local : Goto(s, "notify", local)
          \/ Goto(s, "trigger", next)
      BY <1>7 DEF DispatchNext
    <3> HIDE DEF next
    <3> QED BY <3>1, <3>2, Moves
  <2> QED BY <1>1, <2>1, <2>2, OthersFreely DEF FreelyOf, Before, Dispatching
<1> QED BY <1>2, <1>3, <1>4, <1>5, <1>6, <1>7

\* A dispatch goes on as the call that it is.
LEMMA DispatchCall ==
  ASSUME ControlOK, NEW w \in Workers,
         \/ Trigger(w) \/ RecordDispatch(w) \/ LogSuccess(w) \/ LogFailure(w)
  PROVE  /\ OthersWait(w) /\ pc[w] \in Dispatching
         /\ pc'[w] \in Dispatching \cup {"idle"}
         /\ pc'[w] # "idle" => loc'[w].call = loc[w].call
         /\ pc'[w] = "idle" => loc'[w].call = "none"
         /\ pc'[w] = "dispatch" => loc[w].call = "submit"
<1>1. loc[w] \in Local /\ NoLoc.call = "none"
  BY DEF ControlOK, NoLoc
<1>2. CASE Trigger(w)
  <2> DEFINE next == [loc[w] EXCEPT !.job = Len(pipelines) + 1]
  <2>1. next.call = loc[w].call
    BY <1>1 DEF Local
  <2>2. Goto(w, "record", next) \/ Goto(w, "log_failure", loc[w])
    BY <1>2 DEF Trigger
  <2> HIDE DEF next
  <2> QED BY <1>2, <2>1, <2>2, Moves DEF Trigger, Dispatching
<1>3. CASE RecordDispatch(w)
  BY <1>3, Moves DEF RecordDispatch, Dispatching
<1>4. CASE LogSuccess(w) \/ LogFailure(w)
  <2> DEFINE next == [NoLoc EXCEPT !.call = "submit", !.todo = loc[w].todo]
  <2>1. next.call = "submit"
    BY DEF NoLoc
  <2>2. /\ pc[w] \in {"log", "log_item", "log_failure"}
        /\ \/ loc[w].call = "submit" /\ Goto(w, "dispatch", next)
           \/ Reply(w, "ok")
    BY <1>4 DEF LogSuccess, LogFailure, AfterItem
  <2> HIDE DEF next
  <2> QED BY <1>1, <2>1, <2>2, Moves DEF Dispatching
<1> QED BY <1>2, <1>3, <1>4

LEMMA FreelyDispatches ==
  ASSUME ControlOK, NEW s \in Workers, FreelyOf(s), NEW w \in Workers,
         \/ Trigger(w) \/ RecordDispatch(w) \/ LogSuccess(w) \/ LogFailure(w)
  PROVE  FreelyOf(s)'
<1>1. UNCHANGED request /\ status' \in {status, "provisioning"}
  BY DEF Trigger, RecordDispatch, LogSuccess, LogFailure, dbVars
<1>2. /\ OthersWait(w) /\ pc[w] \in Dispatching
      /\ pc'[w] \in Dispatching \cup {"idle"}
      /\ pc'[w] # "idle" => loc'[w].call = loc[w].call
      /\ pc'[w] = "idle" => loc'[w].call = "none"
      /\ pc'[w] = "dispatch" => loc[w].call = "submit"
  BY DispatchCall
<1>3. CASE w = s
  BY <1>1, <1>2, <1>3 DEF FreelyOf, OthersWait, Submitting, Before,
     Dispatching
<1>4. CASE w # s
  BY <1>1, <1>2, <1>4 DEF FreelyOf, OthersWait, Submitting, Before,
     Dispatching
<1> QED BY <1>3, <1>4

\* Steps of any worker outside of submissions and dispatches, and the
\* beginning of an administrator's dispatch.
LEMMA FreelyElsewhere ==
  ASSUME ControlOK, NEW s \in Workers, FreelyOf(s), NEW w \in Workers,
         OthersWait(w), pc'[w] \notin Submitting,
         loc'[w].call = "submit" =>
           loc[w].call = "submit" /\ pc'[w] \notin Dispatching,
         status' = status \/ status' # "validated",
         request.status = "none" => UNCHANGED request
  PROVE  FreelyOf(s)'
<1>1. request'.status # "none" => request.status # "none"
  OBVIOUS
<1>2. CASE w = s
  BY <1>1, <1>2 DEF FreelyOf, OthersWait, Submitting, Before,
     Dispatching
<1>3. CASE w # s
  BY <1>1, <1>3 DEF FreelyOf, OthersWait, Submitting, Before,
     Dispatching
<1> QED BY <1>2, <1>3

\* Decisions, timeouts, polls, webhooks and crashes, of whatever worker.
LEMMA FreelyDecides ==
  ASSUME ControlOK, NEW s \in Workers, FreelyOf(s), NEW w \in Workers,
         \/ \E user \in Approvers, verdict \in {"approved", "rejected"} :
              DecisionRead(w, user, verdict)
         \/ Decide(w) \/ TimeoutRead(w) \/ TimeoutDecide(w)
         \/ \E i \in Items : AdminDispatch(w, i) \/ SyncRead(w, i)
         \/ Poll(w) \/ \E p \in DOMAIN pipelines : Webhook(w, p)
         \/ Aggregate(w) \/ Crash(w)
  PROVE  FreelyOf(s)'
<1>1. /\ status' \in {status, "done", "failed"}
      /\ request.status = "none" => UNCHANGED request
  BY DEF DecisionRead, Decide, TimeoutRead, TimeoutDecide, AdminDispatch,
     SyncRead, Poll, Webhook, Aggregate, Crash, DecideRequest, dbVars
<1>2. /\ OthersWait(w)
      /\ pc'[w] \in {"idle", "decide", "write_decision", "timeout_decide",
                     "trigger", "poll", "aggregate"}
  BY Moves DEF DecisionRead, Decide, TimeoutRead, TimeoutDecide,
     AdminDispatch, SyncRead, Poll, Webhook, Aggregate, Crash
<1>3. loc'[w].call = "submit" =>
        loc[w].call = "submit" /\ pc'[w] \notin Dispatching
  <2>1. NoLoc.call # "submit" /\ loc[w] \in Local
    BY DEF NoLoc, ControlOK
  <2>2. ASSUME NEW user \in Approvers, NEW verdict \in {"approved", "rejected"},
               DecisionRead(w, user, verdict)
        PROVE  loc'[w].call # "submit"
    <3> DEFINE next == [NoLoc EXCEPT !.call = "decide", !.who = user,
                                     !.verdict = verdict]
    <3>1. next.call = "decide" /\ (Reply(w, "conflict") \/ Start(w, "decide", next))
      BY <2>2 DEF NoLoc, DecisionRead
    <3> HIDE DEF next
    <3> QED BY <2>1, <3>1, Moves
  <2>3. ASSUME NEW i \in Items, AdminDispatch(w, i)
        PROVE  loc'[w].call # "submit"
    <3> DEFINE next == [NoLoc EXCEPT !.call = "dispatch", !.item = i]
    <3>1. next.call = "dispatch" /\ (Reply(w, "ok") \/ Start(w, "trigger", next))
      BY <2>3 DEF NoLoc, AdminDispatch
    <3> HIDE DEF next
    <3> QED BY <2>1, <3>1, Moves
  <2>4. ASSUME NEW i \in Items, SyncRead(w, i) PROVE loc'[w].call # "submit"
    <3> DEFINE next == [NoLoc EXCEPT !.call = "sync", !.item = i,
                                     !.job = job[i], !.old = prov[i]]
    <3>1. next.call = "sync" /\ Start(w, "poll", next)
      BY <2>4 DEF NoLoc, SyncRead
    <3> HIDE DEF next
    <3> QED BY <2>1, <3>1, Moves
  <2>5. CASE Poll(w)
    <3> DEFINE next == [loc[w] EXCEPT
                          !.new = MapPipelineStatus(
                                    pipelines[loc[w].job].status, loc[w].old)]
    <3>1. /\ next.call = loc[w].call
          /\ Reply(w, "error") \/ Goto(w, "aggregate", next)
      BY <2>1, <2>5 DEF Local, Poll
    <3> HIDE DEF next
    <3> QED BY <2>1, <3>1, Moves DEF Dispatching
  <2>8. CASE TimeoutRead(w)
    <3> DEFINE next == [NoLoc EXCEPT !.call = "timeout"]
    <3>1. next.call = "timeout" /\ Start(w, "timeout_decide", next)
      BY <2>8 DEF NoLoc, TimeoutRead
    <3> HIDE DEF next
    <3> QED BY <2>1, <3>1, Moves
  <2>6. CASE Decide(w)
    BY <2>1, <2>6, Moves DEF Decide, Dispatching
  <2>7. CASE \/ TimeoutDecide(w) \/ Aggregate(w) \/ Crash(w)
             \/ \E p \in DOMAIN pipelines : Webhook(w, p)
    BY <2>1, <2>7, Moves DEF TimeoutDecide, Aggregate, Crash, Webhook
  <2> QED BY <2>2, <2>3, <2>4, <2>5, <2>6, <2>7, <2>8
<1> QED BY <1>1, <1>2, <1>3, FreelyElsewhere DEF Submitting, Before

LEMMA FreelyStep ==
  ASSUME NEW s \in Workers, \A w \in Workers \ {s} : "submit" \notin Calls[w]
  PROVE  Inv /\ FreelyOf(s) /\ [Next]_vars => FreelyOf(s)'
<1> SUFFICES ASSUME Inv, FreelyOf(s), [Next]_vars PROVE FreelyOf(s)'
  OBVIOUS
<1>1. ControlOK
  BY DEF Inv, TypeOK
<1>2. ASSUME NEW w \in Workers,
             \/ SubmitRead(w) \/ SubmitWrite(w) \/ Evaluate(w)
             \/ CreateRequest(w) \/ SetPendingApproval(w) \/ Notify(w)
             \/ Subscribe(w) \/ DispatchNext(w)
      PROVE  FreelyOf(s)'
  <2>1. w = s
    BY <1>2 DEF SubmitRead, SubmitWrite, Evaluate, CreateRequest,
       SetPendingApproval, Notify, Subscribe, DispatchNext, Gets, FreelyOf,
       Submitting, Before
  <2> QED BY <1>1, <1>2, <2>1, FreelySubmits
<1>3. ASSUME NEW w \in Workers, WriteDecision(w) PROVE FreelyOf(s)'
  <2>1. /\ status' \in {"approved", "rejected"} /\ UNCHANGED request
        /\ OthersWait(w) /\ pc'[w] = "idle" /\ loc'[w] = NoLoc
    BY <1>1, <1>3, Moves DEF WriteDecision, Inv, LocalsAgree, DecisionKnown
  <2>2. loc'[w].call # "submit"
    BY <2>1 DEF NoLoc
  <2> QED BY <1>1, <2>1, <2>2, FreelyElsewhere DEF Submitting, Before
<1>4. CASE \/ \E p \in DOMAIN pipelines, new \in PipelineStatus :
                PipelineMoves(p, new)
           \/ UNCHANGED vars
  BY <1>4 DEF PipelineMoves, dbVars, vars, FreelyOf
<1> QED BY <1>1, <1>2, <1>3, <1>4, FreelyDecides, FreelyDispatches
        DEF Next, Begin, Proceed

\* Provided the submissions of the order do not overlap, and whatever
\* administrators dispatch, in whichever status, whoever decides, polls and
\* dies: submit_order reads the status before a request can exist, so that
\* post_submit hands nothing to GitLab that an approver was asked about.
THEOREM SubmissionsAreFree ==
  ASSUME NEW s \in Workers, \A w \in Workers \ {s} : "submit" \notin Calls[w]
  PROVE  Spec => []SubmissionsDispatchFreely
<1>1. Init => FreelyOf(s)
  BY DEF Init, FreelyOf, NoLoc, Before, Submitting, Dispatching
<1>2. FreelyOf(s) => SubmissionsDispatchFreely
  BY DEF FreelyOf, SubmissionsDispatchFreely
<1> QED BY <1>1, <1>2, FreelyStep, InvHolds, PTL DEF Spec

(***************************************************************************)
(* The status moves along the table                                        *)
(***************************************************************************)
\* Without an overlapping call or a crash nobody decides between the two
\* commits of a submission that needs approval.
RequestComesFirst(s) == pc[s] = "set_pending" => status = "submitted"

LEMMA RequestStep ==
  ASSUME NEW s \in Workers, Workers = {s}
  PROVE  OperatorInv(s) /\ RequestComesFirst(s) /\ [Next]_vars =>
           RequestComesFirst(s)'
<1> SUFFICES ASSUME OperatorInv(s), RequestComesFirst(s), [Next]_vars
             PROVE  RequestComesFirst(s)'
  OBVIOUS
<1>1. ControlOK
  BY DEF OperatorInv, Inv, TypeOK
<1>2. CASE CreateRequest(s)
  BY <1>2 DEF CreateRequest, OperatorInv, OperatorAt, RequestComesFirst
<1>3. ASSUME Begin(s) \/ Crash(s) PROVE pc'[s] # "set_pending"
  <2>1. ASSUME NEW user \in Approvers, NEW verdict \in {"approved", "rejected"},
               DecisionRead(s, user, verdict)
        PROVE  pc'[s] # "set_pending"
    BY <1>1, <2>1, Moves DEF DecisionRead
  <2>2. ASSUME NEW i \in Items, AdminDispatch(s, i) \/ SyncRead(s, i)
        PROVE  pc'[s] # "set_pending"
    BY <1>1, <2>2, Moves DEF AdminDispatch, SyncRead
  <2>3. ASSUME \/ SubmitRead(s) \/ TimeoutRead(s) \/ Crash(s)
               \/ \E p \in DOMAIN pipelines : Webhook(s, p)
        PROVE  pc'[s] # "set_pending"
    BY <1>1, <2>3, Moves DEF SubmitRead, TimeoutRead, Crash, Webhook
  <2> QED BY <1>3, <2>1, <2>2, <2>3 DEF Begin
<1>4. ASSUME Proceed(s), ~CreateRequest(s) PROVE pc'[s] # "set_pending"
  <2>1. ASSUME \/ SubmitWrite(s) \/ Evaluate(s) \/ SetPendingApproval(s)
               \/ Notify(s) \/ Subscribe(s) \/ Decide(s) \/ WriteDecision(s)
               \/ TimeoutDecide(s) \/ Poll(s) \/ Aggregate(s)
        PROVE  pc'[s] # "set_pending"
    BY <1>1, <2>1, Moves DEF SubmitWrite, Evaluate, SetPendingApproval, Notify,
       Subscribe, Decide, WriteDecision, TimeoutDecide, Poll, Aggregate
  <2>2. ASSUME \/ DispatchNext(s) \/ Trigger(s) \/ RecordDispatch(s)
               \/ LogSuccess(s) \/ LogFailure(s)
        PROVE  pc'[s] # "set_pending"
    BY <1>1, <2>2, Moves DEF DispatchNext, Trigger, RecordDispatch, LogSuccess,
       LogFailure, AfterItem
  <2> QED BY <1>4, <2>1, <2>2 DEF Proceed
<1>5. ASSUME NEW p \in DOMAIN pipelines, NEW new \in PipelineStatus,
             PipelineMoves(p, new)
      PROVE  RequestComesFirst(s)'
  BY <1>5 DEF PipelineMoves, dbVars, RequestComesFirst
<1>6. CASE UNCHANGED vars
  BY <1>6 DEF vars, RequestComesFirst
<1> QED BY <1>2, <1>3, <1>4, <1>5, <1>6 DEF Next, RequestComesFirst

LEMMA Allows ==
  /\ CanTransition("validated", "submitted")
  /\ CanTransition("submitted", "pending_approval")
  /\ CanTransition("submitted", "provisioning")
  /\ CanTransition("pending_approval", "approved")
  /\ CanTransition("pending_approval", "rejected")
  /\ CanTransition("approved", "provisioning")
  /\ CanTransition("provisioning", "done")
  /\ CanTransition("provisioning", "failed")
  BY DEF CanTransition, Transitions

LEMMA LegalStep ==
  ASSUME NEW s \in Workers, Workers = {s}, ~MayCrash
  PROVE  OperatorInv(s) /\ RequestComesFirst(s) /\ [Next]_vars =>
           [CanTransition(status, status')]_status
<1> SUFFICES ASSUME OperatorInv(s), RequestComesFirst(s), [Next]_vars,
                    status' # status
             PROVE  CanTransition(status, status')
  OBVIOUS
<1>1. OperatorAt(s) /\ VerdictsOK /\ DecisionKnown(s)
  BY DEF OperatorInv, Inv, LocalsAgree
<1>2. CASE SubmitWrite(s) \/ SetPendingApproval(s)
  BY <1>1, <1>2, Allows
     DEF SubmitWrite, SetPendingApproval, OperatorAt, RequestComesFirst
<1>3. CASE RecordDispatch(s)
  <2>1. status' = "provisioning" /\ status \in {"submitted", "approved"}
    BY <1>1, <1>3 DEF RecordDispatch, OperatorAt, Dispatching
  <2> QED BY <2>1, Allows
<1>4. CASE WriteDecision(s)
  <2>1. /\ pc[s] = "write_decision" /\ status' = loc[s].verdict
        /\ status \in {"submitted", "pending_approval"}
        /\ loc[s].verdict \in {"approved", "rejected"}
        /\ request.status = loc[s].verdict
    BY <1>1, <1>4 DEF WriteDecision, VerdictsOK, DecisionKnown
  <2>2. status = "pending_approval"
    BY <1>1, <2>1 DEF OperatorAt
  <2> QED BY <2>1, <2>2, Allows
<1>5. CASE Aggregate(s)
  <2>1. status = "provisioning" /\ status' \in {"done", "failed"}
    BY <1>5, AggregateWrites
  <2> QED BY <2>1, Allows
<1>6. SubmitWrite(s) \/ SetPendingApproval(s) \/ RecordDispatch(s)
      \/ WriteDecision(s) \/ Aggregate(s)
  BY DEF Next, vars, Begin, Proceed, dbVars, SubmitRead, DecisionRead,
     TimeoutRead, AdminDispatch, SyncRead, Webhook, Evaluate, CreateRequest,
     Notify, Subscribe, DispatchNext, Trigger, LogSuccess, LogFailure, Decide,
     TimeoutDecide, Poll, Crash, PipelineMoves
<1> QED BY <1>2, <1>3, <1>4, <1>5, <1>6

\* As long as calls follow each other and none is cut off, the status moves
\* along the table of app/domain/order.py, which no handler consults.
THEOREM StatusMovesLegally ==
  ASSUME Sequential, DispatchesReleased, ~MayCrash
  PROVE  Spec => LegalTransitions
<1>1. PICK s \in Workers : Workers = {s} /\ Operates(s)
  BY DEF Sequential, Operates
<1>2. Spec => []OperatorInv(s)
  BY <1>1, OperatorHolds
<1>3. Init => RequestComesFirst(s)
  BY DEF Init, RequestComesFirst
<1>4. OperatorInv(s) /\ RequestComesFirst(s) /\ [Next]_vars =>
        RequestComesFirst(s)'
  BY <1>1, RequestStep
<1>5. OperatorInv(s) /\ RequestComesFirst(s) /\ [Next]_vars =>
        [CanTransition(status, status')]_status
  BY <1>1, LegalStep
<1> QED BY <1>2, <1>3, <1>4, <1>5, PTL DEF Spec, LegalTransitions

(***************************************************************************)
(* Two promises that hold for any assignment of calls to workers           *)
(***************************************************************************)
LEMMA Replies ==
  ASSUME ControlOK, NEW w \in Workers
  PROVE  /\ \A label, local : Start(w, label, local) => reply'[w] = "none"
         /\ \A label, local : Goto(w, label, local) => reply'[w] = reply[w]
         /\ \A answer : Reply(w, answer) => reply'[w] = answer
         /\ \/ \E label, local : Start(w, label, local) \/ Goto(w, label, local)
            \/ \E answer : Reply(w, answer)
            => \A v \in Workers \ {w} : reply'[v] = reply[v]
  BY DEF ControlOK, Start, Goto, Reply
\* Calls add subscriptions and notifications, and never take them away.
SubmissionsGrow == subs \subseteq subs' /\ (notified => notified')

LEMMA SubmissionKept ==
  ASSUME SubmissionsOK, TypeOK', SubmissionsGrow, NEW w \in Workers,
         OthersWait(w), \A v \in Workers \ {w} : reply'[v] = reply[v],
         pc'[w] = "subscribe" =>
           notified' /\ Items \subseteq subs' \cup loc'[w].todo,
         reply'[w] = "submitted" =>
           reply[w] = "submitted" \/ (notified' /\ Items \subseteq subs')
  PROVE  SubmissionsOK'
<1>1. \A v \in Workers : pc'[v] = "subscribe" =>
        notified' /\ Items \subseteq subs' \cup loc'[v].todo
  BY DEF SubmissionsOK, SubmissionsGrow, OthersWait
<1>2. \A v \in Workers : reply'[v] = "submitted" =>
        notified' /\ Items \subseteq subs'
  BY DEF SubmissionsOK, SuccessMeansComplete, SubmissionsGrow
<1>3. subs' \subseteq Items
  BY DEF TypeOK, TablesOK
<1> QED BY <1>1, <1>2, <1>3 DEF SubmissionsOK, SuccessMeansComplete

\* Steps that start a call, go on in one, or end one without success.
LEMMA SubmissionQuiet ==
  ASSUME SubmissionsOK, TypeOK, TypeOK', NEW w \in Workers,
         UNCHANGED <<subs, notified>>, NEW label, NEW local, NEW answer,
         label # "subscribe", answer # "submitted",
         Start(w, label, local) \/ Goto(w, label, local) \/ Reply(w, answer)
  PROVE  SubmissionsOK'
<1>1. /\ OthersWait(w) /\ pc'[w] # "subscribe"
      /\ reply'[w] = "submitted" => reply[w] = "submitted"
      /\ \A v \in Workers \ {w} : reply'[v] = reply[v]
  BY Moves, Replies DEF TypeOK
<1> QED BY <1>1, SubmissionKept DEF SubmissionsGrow

LEMMA NotifyCompletes ==
  ASSUME SubmissionsOK, TypeOK, TypeOK', NEW w \in Workers, Notify(w)
  PROVE  SubmissionsOK'
<1> DEFINE next == [NoLoc EXCEPT !.call = "submit", !.todo = Items]
<1>1. Goto(w, "subscribe", next) /\ notified' /\ UNCHANGED subs
      /\ next.todo = Items
  BY DEF Notify, NoLoc
<1> HIDE DEF next
<1>2. /\ OthersWait(w) /\ loc'[w].todo = Items /\ reply'[w] = reply[w]
      /\ \A v \in Workers \ {w} : reply'[v] = reply[v]
  BY <1>1, Moves, Replies DEF TypeOK
<1> QED BY <1>1, <1>2, SubmissionKept DEF SubmissionsGrow

LEMMA SubscribeCompletes ==
  ASSUME SubmissionsOK, TypeOK, TypeOK', NEW w \in Workers, Subscribe(w)
  PROVE  SubmissionsOK'
<1>1. /\ ControlOK /\ loc[w] \in Local /\ pc[w] = "subscribe"
      /\ notified /\ notified' = notified
      /\ Items \subseteq subs \cup loc[w].todo
  BY DEF Subscribe, TypeOK, ControlOK, SubmissionsOK
<1>2. CASE loc[w].todo = {} /\ Reply(w, "submitted") /\ UNCHANGED subs
  <2>1. /\ OthersWait(w) /\ pc'[w] = "idle"
        /\ \A v \in Workers \ {w} : reply'[v] = reply[v]
    BY <1>1, <1>2, Moves, Replies
  <2> QED BY <1>1, <1>2, <2>1, SubmissionKept DEF SubmissionsGrow
<1>3. CASE Reply(w, "error") /\ UNCHANGED subs
  BY <1>1, <1>3, SubmissionQuiet
<1> DEFINE i    == First(loc[w].todo)
           next == [loc[w] EXCEPT !.todo = @ \ {i}]
<1>4. CASE subs' = subs \cup {i} /\ Goto(w, "subscribe", next)
  <2>1. next.todo = loc[w].todo \ {i}
    BY <1>1 DEF Local
  <2> HIDE DEF next, i
  <2>2. /\ OthersWait(w) /\ loc'[w].todo = loc[w].todo \ {i}
        /\ reply'[w] = reply[w]
        /\ \A v \in Workers \ {w} : reply'[v] = reply[v]
    BY <1>1, <1>4, <2>1, Moves, Replies
  <2> QED BY <1>1, <1>4, <2>2, SubmissionKept DEF SubmissionsGrow
<1> QED BY <1>2, <1>3, <1>4 DEF Subscribe

LEMMA SubmissionStep == Inv /\ SubmissionsOK /\ [Next]_vars => SubmissionsOK'
<1> SUFFICES ASSUME Inv, SubmissionsOK, [Next]_vars PROVE SubmissionsOK'
  OBVIOUS
<1>1. TypeOK /\ TypeOK'
  BY StepInv DEF Inv
<1>2. ASSUME NEW w \in Workers, Begin(w) \/ Crash(w) PROVE SubmissionsOK'
  <2>1. ASSUME NEW user \in Approvers, NEW verdict \in {"approved", "rejected"},
               DecisionRead(w, user, verdict)
        PROVE  SubmissionsOK'
    BY <1>1, <2>1, SubmissionQuiet DEF DecisionRead, dbVars
  <2>2. ASSUME NEW i \in Items, AdminDispatch(w, i) \/ SyncRead(w, i)
        PROVE  SubmissionsOK'
    BY <1>1, <2>2, SubmissionQuiet DEF AdminDispatch, SyncRead, dbVars
  <2>3. ASSUME \/ SubmitRead(w) \/ TimeoutRead(w) \/ Crash(w)
               \/ \E p \in DOMAIN pipelines : Webhook(w, p)
        PROVE  SubmissionsOK'
    BY <1>1, <2>3, SubmissionQuiet
       DEF SubmitRead, TimeoutRead, Crash, Webhook, dbVars
  <2> QED BY <1>2, <2>1, <2>2, <2>3 DEF Begin
<1>3. ASSUME NEW w \in Workers,
             \/ SubmitWrite(w) \/ Evaluate(w) \/ CreateRequest(w)
             \/ SetPendingApproval(w) \/ Decide(w) \/ WriteDecision(w)
             \/ TimeoutDecide(w) \/ Poll(w) \/ Aggregate(w)
      PROVE  SubmissionsOK'
  BY <1>1, <1>3, SubmissionQuiet DEF SubmitWrite, Evaluate, CreateRequest,
     SetPendingApproval, Decide, WriteDecision, TimeoutDecide, Poll, Aggregate,
     dbVars
<1>4. ASSUME NEW w \in Workers,
             \/ DispatchNext(w) \/ Trigger(w) \/ RecordDispatch(w)
             \/ LogSuccess(w) \/ LogFailure(w)
      PROVE  SubmissionsOK'
  BY <1>1, <1>4, SubmissionQuiet DEF DispatchNext, Trigger, RecordDispatch,
     LogSuccess, LogFailure, AfterItem, dbVars
<1>5. ASSUME NEW w \in Workers, Notify(w) \/ Subscribe(w) PROVE SubmissionsOK'
  BY <1>1, <1>5, NotifyCompletes, SubscribeCompletes
<1>6. ASSUME NEW p \in DOMAIN pipelines, NEW new \in PipelineStatus,
             PipelineMoves(p, new)
      PROVE  SubmissionsOK'
  BY <1>6 DEF PipelineMoves, dbVars, SubmissionsOK, SuccessMeansComplete
<1>7. CASE UNCHANGED vars
  BY <1>7 DEF vars, SubmissionsOK, SuccessMeansComplete
<1> QED BY <1>2, <1>3, <1>4, <1>5, <1>6, <1>7 DEF Next, Proceed

\* An order is reported as submitted only if its requester was notified and
\* all of its items have subscriptions, however many submissions overlap and
\* whatever fails in post_submit, whose exceptions are swallowed.
THEOREM SuccessIsComplete == Spec => []SuccessMeansComplete
<1>1. Init => SubmissionsOK
  BY DEF Init, SubmissionsOK, SuccessMeansComplete
<1>2. SubmissionsOK => SuccessMeansComplete
  BY DEF SubmissionsOK
<1> QED BY <1>1, <1>2, SubmissionStep, InvHolds, PTL DEF Spec
Logging == {"record", "log", "log_item"}

\* Steps of workers that have no pipeline to log.
LEMMA LogKept ==
  ASSUME EveryPipelineLogged, NEW w \in Workers, OthersWait(w),
         pc[w] \notin Logging, logs \subseteq logs', UNCHANGED pipelines
  PROVE  EveryPipelineLogged'
<1> SUFFICES ASSUME NEW p \in DOMAIN pipelines
             PROVE  \/ <<pipelines[p].item, p>> \in logs'
                    \/ \E v \in Workers :
                         pc'[v] \in Logging /\ loc'[v].job = p
                         /\ loc'[v].item = pipelines[p].item
  BY DEF EveryPipelineLogged, Logging
<1>1. CASE <<pipelines[p].item, p>> \in logs
  BY <1>1
<1>2. ASSUME NEW v \in Workers, pc[v] \in Logging, loc[v].job = p,
             loc[v].item = pipelines[p].item
      PROVE  /\ pc'[v] \in Logging /\ loc'[v].job = p
             /\ loc'[v].item = pipelines[p].item
  BY <1>2 DEF OthersWait
<1> QED BY <1>1, <1>2 DEF EveryPipelineLogged, Logging

LEMMA TriggerLogs ==
  ASSUME Inv, EveryPipelineLogged, NothingLost, NEW w \in Workers, Trigger(w)
  PROVE  EveryPipelineLogged'
<1>1. /\ ControlOK /\ loc[w] \in Local /\ pipelines \in Seq(Pipeline)
      /\ pc[w] = "trigger" /\ UNCHANGED logs /\ loc[w].item \in Items
  BY DEF Inv, TypeOK, ControlOK, TablesOK, Trigger, dbVars, LocalsAgree,
     PipelineKnown
<1> DEFINE next == [loc[w] EXCEPT !.job = Len(pipelines) + 1]
           new  == [item |-> loc[w].item, status |-> "pending"]
<1>2. CASE pipelines' = Append(pipelines, new) /\ Goto(w, "record", next)
  <2>1. next.job = Len(pipelines) + 1 /\ next.item = loc[w].item
    BY <1>1 DEF Local
  <2> HIDE DEF next
  <2>2. pc'[w] = "record" /\ loc'[w] = next /\ OthersWait(w)
    BY <1>1, <1>2, Moves
  <2>3. new \in Pipeline /\ new.item = loc[w].item
    BY <1>1, Statuses DEF Pipeline
  <2> HIDE DEF new
  <2>4. /\ \A p \in DOMAIN pipelines' :
             \/ p = Len(pipelines) + 1 /\ pipelines'[p] = new
             \/ p \in DOMAIN pipelines /\ pipelines'[p] = pipelines[p]
    BY <1>1, <1>2, <2>3, AppendProperties
  <2> SUFFICES ASSUME NEW p \in DOMAIN pipelines'
               PROVE  \/ <<pipelines'[p].item, p>> \in logs'
                      \/ \E v \in Workers :
                           pc'[v] \in Logging /\ loc'[v].job = p
                           /\ loc'[v].item = pipelines'[p].item
    BY DEF EveryPipelineLogged, Logging
  <2>5. CASE p = Len(pipelines) + 1 /\ pipelines'[p] = new
    BY <2>1, <2>2, <2>3, <2>5 DEF Logging
  <2>6. CASE p \in DOMAIN pipelines /\ pipelines'[p] = pipelines[p]
    <3>1. CASE <<pipelines[p].item, p>> \in logs
      BY <1>1, <2>6, <3>1
    <3>2. ASSUME NEW v \in Workers, pc[v] \in Logging, loc[v].job = p,
                 loc[v].item = pipelines[p].item
          PROVE  /\ pc'[v] \in Logging /\ loc'[v].job = p
                 /\ loc'[v].item = pipelines'[p].item
      BY <1>1, <2>2, <2>6, <3>2 DEF OthersWait, Logging
    <3> QED BY <2>6, <3>1, <3>2 DEF EveryPipelineLogged, Logging
  <2> QED BY <2>4, <2>5, <2>6
<1>3. CASE UNCHANGED pipelines /\ Goto(w, "log_failure", loc[w])
  <2>1. OthersWait(w)
    BY <1>1, <1>3, Moves
  <2> QED BY <1>1, <1>3, <2>1, LogKept DEF Logging
<1> QED BY <1>2, <1>3 DEF Trigger, NothingLost

LEMMA RecordLogs ==
  ASSUME Inv, EveryPipelineLogged, NEW w \in Workers,
         RecordDispatch(w) \/ LogSuccess(w)
  PROVE  EveryPipelineLogged'
<1>1. /\ ControlOK /\ UNCHANGED pipelines /\ pc[w] \in Logging
      /\ pipelines[loc[w].job].item = loc[w].item
  BY DEF Inv, TypeOK, LocalsAgree, PipelineKnown, RecordDispatch, LogSuccess,
     Logging
<1>2. /\ OthersWait(w) /\ logs \subseteq logs'
      /\ \/ pc'[w] \in Logging /\ loc'[w] = loc[w]
         \/ <<loc[w].item, loc[w].job>> \in logs'
  <2>1. CASE RecordDispatch(w)
    BY <1>1, <2>1, Moves DEF RecordDispatch, Logging
  <2>2. CASE LogSuccess(w)
    BY <1>1, <2>2, Moves DEF LogSuccess, AfterItem
  <2> QED BY <2>1, <2>2
<1> SUFFICES ASSUME NEW p \in DOMAIN pipelines
             PROVE  \/ <<pipelines[p].item, p>> \in logs'
                    \/ \E v \in Workers :
                         pc'[v] \in Logging /\ loc'[v].job = p
                         /\ loc'[v].item = pipelines[p].item
  BY <1>1 DEF EveryPipelineLogged, Logging
<1>3. CASE <<pipelines[p].item, p>> \in logs
  BY <1>2, <1>3
<1>4. ASSUME NEW v \in Workers, pc[v] \in Logging, loc[v].job = p,
             loc[v].item = pipelines[p].item
      PROVE  \/ <<pipelines[p].item, p>> \in logs'
             \/ /\ pc'[v] \in Logging /\ loc'[v].job = p
                /\ loc'[v].item = pipelines[p].item
  <2>1. CASE v = w
    BY <1>2, <1>4, <2>1
  <2>2. CASE v # w
    BY <1>2, <1>4, <2>2 DEF OthersWait
  <2> QED BY <2>1, <2>2
<1> QED BY <1>3, <1>4 DEF EveryPipelineLogged, Logging

LEMMA LogStep ==
  ASSUME NothingLost
  PROVE  Inv /\ EveryPipelineLogged /\ [Next]_vars => EveryPipelineLogged'
<1> SUFFICES ASSUME Inv, EveryPipelineLogged, [Next]_vars
             PROVE  EveryPipelineLogged'
  OBVIOUS
<1>1. ControlOK
  BY DEF Inv, TypeOK
<1>2. ASSUME NEW w \in Workers, Begin(w) PROVE EveryPipelineLogged'
  <2>1. UNCHANGED <<logs, pipelines>> /\ pc[w] \notin Logging
    BY <1>2 DEF Begin, SubmitRead, DecisionRead, TimeoutRead, AdminDispatch,
       SyncRead, Webhook, Gets, dbVars, Logging
  <2>2. OthersWait(w)
    <3>1. ASSUME NEW user \in Approvers,
                 NEW verdict \in {"approved", "rejected"},
                 DecisionRead(w, user, verdict)
          PROVE  OthersWait(w)
      BY <1>1, <3>1, Moves DEF DecisionRead
    <3>2. ASSUME NEW i \in Items, AdminDispatch(w, i) \/ SyncRead(w, i)
          PROVE  OthersWait(w)
      BY <1>1, <3>2, Moves DEF AdminDispatch, SyncRead
    <3>3. ASSUME \/ SubmitRead(w) \/ TimeoutRead(w)
                 \/ \E p \in DOMAIN pipelines : Webhook(w, p)
          PROVE  OthersWait(w)
      BY <1>1, <3>3, Moves DEF SubmitRead, TimeoutRead, Webhook
    <3> QED BY <1>2, <3>1, <3>2, <3>3 DEF Begin
  <2> QED BY <2>1, <2>2, LogKept
<1>3. ASSUME NEW w \in Workers,
             \/ SubmitWrite(w) \/ Evaluate(w) \/ CreateRequest(w)
             \/ SetPendingApproval(w) \/ Notify(w) \/ Subscribe(w)
             \/ Decide(w) \/ WriteDecision(w) \/ TimeoutDecide(w) \/ Poll(w)
             \/ Aggregate(w)
      PROVE  EveryPipelineLogged'
  <2>1. UNCHANGED <<logs, pipelines>> /\ pc[w] \notin Logging
    BY <1>3 DEF SubmitWrite, Evaluate, CreateRequest, SetPendingApproval,
       Notify, Subscribe, Decide, WriteDecision, TimeoutDecide, Poll,
       Aggregate, dbVars, Logging
  <2>2. OthersWait(w)
    BY <1>1, <1>3, Moves DEF SubmitWrite, Evaluate, CreateRequest,
       SetPendingApproval, Notify, Subscribe, Decide, WriteDecision,
       TimeoutDecide, Poll, Aggregate
  <2> QED BY <2>1, <2>2, LogKept
<1>4. ASSUME NEW w \in Workers, DispatchNext(w) \/ LogFailure(w)
      PROVE  EveryPipelineLogged'
  <2>1. /\ UNCHANGED pipelines /\ logs \subseteq logs' /\ pc[w] \notin Logging
        /\ OthersWait(w)
    BY <1>1, <1>4, Moves
       DEF DispatchNext, LogFailure, AfterItem, dbVars, Logging
  <2> QED BY <2>1, LogKept
<1>5. ASSUME NEW p \in DOMAIN pipelines, NEW new \in PipelineStatus,
             PipelineMoves(p, new)
      PROVE  EveryPipelineLogged'
  <2>1. /\ UNCHANGED <<logs, pc, loc>> /\ DOMAIN pipelines' = DOMAIN pipelines
        /\ \A q \in DOMAIN pipelines : pipelines'[q].item = pipelines[q].item
    BY <1>5, EndedPipelines DEF PipelineMoves, dbVars
  <2> QED BY <2>1 DEF EveryPipelineLogged
<1>6. CASE UNCHANGED vars
  BY <1>6 DEF vars, EveryPipelineLogged
<1> QED BY <1>2, <1>3, <1>4, <1>5, <1>6, TriggerLogs, RecordLogs
        DEF Next, Proceed, Crash, NothingLost

\* Unless a crash or a lost answer comes between, each pipeline is in the
\* dispatch log or on its way there, whoever dispatches, polls and submits at
\* the same time (_dispatch_single_item logs after its commit).
THEOREM PipelinesAreLogged ==
  ASSUME NothingLost
  PROVE  Spec => []EveryPipelineLogged
<1>1. Init => EveryPipelineLogged
  BY DEF Init, EveryPipelineLogged
<1> QED BY <1>1, LogStep, InvHolds, PTL DEF Spec
===============================================================================
