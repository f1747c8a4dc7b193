------------------------- MODULE OrderWorkflowProofs -------------------------
(***************************************************************************)
(* Safety of OrderWorkflow for any number of workers, items, approvers and *)
(* pipelines, any assignment of calls to workers, with or without crashes. *)
(***************************************************************************)
EXTENDS OrderWorkflow, WellFoundedInduction, SequenceTheorems, TLAPS

LEMMA Statuses ==
  /\ OrderStatus = {"draft", "validated", "submitted", "pending_approval",
                    "approved", "provisioning", "done", "failed", "rejected"}
  /\ ProvisioningStatus = {"not_started", "pending", "provisioning", "done",
                           "failed"}
  /\ PipelineStatus = {"pending", "running", "success", "failed", "canceled"}
  BY DEF OrderStatus, Transitions, ProvisioningStatus, ItemTransitions,
         PipelineStatus, GitlabStatusMap

\* sync_item_status keeps the item's status or takes a mapped one, and never
\* returns an item to "not_started".
LEMMA MappedStatus ==
  ASSUME NEW p \in PipelineStatus,
         NEW old \in ProvisioningStatus \ {"not_started"}
  PROVE  MapPipelineStatus(p, old) \in ProvisioningStatus \ {"not_started"}
  BY Statuses DEF MapPipelineStatus, GitlabStatusMap

LEMMA PipelineType ==
  ASSUME TablesOK
  PROVE  /\ Len(pipelines) \in Nat /\ DOMAIN pipelines = 1 .. Len(pipelines)
         /\ \A p \in DOMAIN pipelines :
              pipelines[p] \in Pipeline
  BY ElementOfSeq, LenProperties DEF TablesOK

LEMMA NoLocType == NoLoc \in Local
  BY DEF NoLoc, Local

LEMMA FirstInSet ==
  ASSUME NEW S \in SUBSET Items, S # {}
  PROVE  First(S) \in S
<1>1. S \subseteq Nat
  BY DEF Items
<1> DEFINE pairs == {ss \in Nat \X Nat : ss[1] < ss[2]}
<1>2. PICK i \in S : \A j \in S : <<j, i>> \notin pairs
  <2> DEFINE less == OpToRel(<, Nat)
  <2>1. IsWellFoundedOn(less, Nat)
    BY NatLessThanWellFounded
  <2>2. less = pairs
    BY DEF OpToRel
  <2> HIDE DEF less, pairs
  <2> QED BY <1>1, <2>1, <2>2, WFMin
<1>3. ASSUME NEW j \in S PROVE i <= j
  <2>1. i \in Nat /\ j \in Nat
    BY <1>1
  <2>2. ~(<<j, i>>[1] < <<j, i>>[2])
    BY <1>2, <2>1
  <2> QED BY <2>1, <2>2
<1> QED BY <1>3 DEF First

\* The updates of a worker's local state keep its type.
LEMMA LocalUpdates ==
  ASSUME NEW l \in Local
  PROVE  /\ \A S \in SUBSET Items :
              [l EXCEPT !.todo = S] \in Local
         /\ \A s \in OrderStatus, S \in SUBSET Items :
              [l EXCEPT !.seen = s, !.todo = S] \in Local
         /\ \A i \in Items, S \in SUBSET Items :
              [l EXCEPT !.item = i, !.todo = S] \in Local
         /\ \A n \in Nat :
              [l EXCEPT !.job = n] \in Local
         /\ \A p \in ProvisioningStatus :
              [l EXCEPT !.new = p] \in Local
  BY DEF Local

Call == {"submit", "decide", "timeout", "dispatch", "sync"}

LEMMA NewLocals ==
  /\ \A c \in Call :
       [NoLoc EXCEPT !.call = c] \in Local
  /\ \A c \in Call, S \in SUBSET Items :
       [NoLoc EXCEPT !.call = c, !.todo = S] \in Local
  /\ \A c \in Call, i \in Items :
       [NoLoc EXCEPT !.call = c, !.item = i] \in Local
  /\ \A c \in Call, u \in Approvers, v \in {"approved", "rejected"} :
       [NoLoc EXCEPT !.call = c, !.who = u, !.verdict = v] \in Local
  /\ \A c \in Call, i \in Items, n \in Nat, p \in ProvisioningStatus :
       [NoLoc EXCEPT !.call = c, !.item = i, !.job = n, !.old = p] \in Local
  BY DEF Local, Call, NoLoc

OthersWait(w) ==
  \A v \in Workers \ {w} : pc'[v] = pc[v] /\ loc'[v] = loc[v]

LEMMA StartOK ==
  ASSUME ControlOK, NEW w \in Workers, NEW label \in PC, NEW local \in Local,
         Start(w, label, local)
  PROVE  ControlOK' /\ OthersWait(w) /\ pc'[w] = label /\ loc'[w] = local
  BY DEF ControlOK, Start, OthersWait

LEMMA GotoOK ==
  ASSUME ControlOK, NEW w \in Workers, NEW label \in PC, NEW local \in Local,
         Goto(w, label, local)
  PROVE  ControlOK' /\ OthersWait(w) /\ pc'[w] = label /\ loc'[w] = local
  BY DEF ControlOK, Goto, OthersWait

LEMMA ReplyOK ==
  ASSUME ControlOK, NEW w \in Workers,
         NEW answer \in {"submitted", "ok", "conflict", "error"},
         Reply(w, answer)
  PROVE  ControlOK' /\ OthersWait(w) /\ pc'[w] = "idle" /\ loc'[w] = NoLoc
  BY NoLocType DEF ControlOK, Reply, PC, OthersWait

(***************************************************************************)
(* The inductive invariant, and what every step leaves standing            *)
(***************************************************************************)
Inv == TypeOK /\ LocalsAgree /\ ItemMatchesJob /\ OrderFollowsDecision

\* Facts that other workers rely on between two of their steps.
Kept ==
  /\ request.status \in {"approved", "rejected"} => request' = request
  /\ \A p \in DOMAIN pipelines : /\ p \in DOMAIN pipelines'
                                 /\ pipelines'[p].item = pipelines[p].item
  /\ \A i \in Items : job[i] # 0 => job'[i] # 0

Good(w) == DecisionKnown(w) /\ PipelineKnown(w) /\ PollKnown(w)

\* The worker at hand does its part, the tables stay consistent.
StepOK(w) == /\ TypeOK' /\ Kept /\ OthersWait(w) /\ Good(w)'
             /\ ItemMatchesJob' /\ OrderFollowsDecision'

\* A worker that waits keeps what it knows as long as others only add facts.
LEMMA WaitingKeeps ==
  ASSUME Inv, Kept, NEW v \in Workers, pc'[v] = pc[v], loc'[v] = loc[v]
  PROVE  Good(v)'
<1>1. DecisionKnown(v)'
  BY DEF Kept, Inv, LocalsAgree, DecisionKnown
<1>2. PipelineKnown(v)'
  BY DEF Kept, Inv, LocalsAgree, PipelineKnown
<1>3. PollKnown(v)'
  BY DEF Kept, Inv, LocalsAgree, PollKnown, PipelineKnown
<1> QED BY <1>1, <1>2, <1>3 DEF Good

LEMMA Frame ==
  ASSUME Inv, NEW w \in Workers, StepOK(w)
  PROVE  Inv'
<1>1. ASSUME NEW v \in Workers \ {w} PROVE Good(v)'
  BY <1>1, WaitingKeeps DEF StepOK, OthersWait
<1> QED BY <1>1 DEF StepOK, Good, Inv, LocalsAgree

\* Steps that leave the tables and GitLab alone.
LEMMA QuietStep ==
  ASSUME Inv, NEW w \in Workers, UNCHANGED <<dbVars, pipelines>>,
         ControlOK', OthersWait(w), Good(w)'
  PROVE  Inv'
<1>1. TypeOK' /\ Kept
  BY DEF Inv, TypeOK, TablesOK, Kept, dbVars
<1>2. ItemMatchesJob' /\ OrderFollowsDecision'
  BY DEF Inv, ItemMatchesJob, OrderFollowsDecision, dbVars
<1> QED BY <1>1, <1>2, Frame DEF StepOK

\* An idle worker knows nothing that could become wrong.
LEMMA IdleGood ==
  ASSUME NEW w \in Workers, pc'[w] = "idle"
  PROVE  Good(w)'
  BY DEF Good, DecisionKnown, PipelineKnown, PollKnown

LEMMA InitInv == Init => Inv
<1> SUFFICES ASSUME Init PROVE Inv
  OBVIOUS
<1>1. TypeOK
  <2>1. TablesOK
    <3>1. status \in OrderStatus /\ prov \in [Items -> ProvisioningStatus]
      BY Statuses DEF Init
    <3>2. /\ request \in [status : {"none", "pending", "approved", "rejected"},
                          by : Approvers \cup {NoUser, System}]
          /\ job \in [Items -> Nat]
          /\ logs \subseteq Items \X Nat /\ subs \subseteq Items
          /\ notified \in BOOLEAN
      BY DEF Init
    <3>3. pipelines \in Seq(Pipeline)
      BY DEF Init
    <3> QED BY <3>1, <3>2, <3>3 DEF TablesOK
  <2>2. ControlOK
    BY NoLocType DEF Init, ControlOK, PC
  <2> QED BY <2>1, <2>2 DEF TypeOK
<1>2. LocalsAgree
  BY DEF Init, LocalsAgree, DecisionKnown, PipelineKnown, PollKnown
<1>3. ItemMatchesJob /\ OrderFollowsDecision
  BY DEF Init, ItemMatchesJob, OrderFollowsDecision
<1> QED BY <1>1, <1>2, <1>3 DEF Inv

(***************************************************************************)
(* Steps that change what their worker knows, and nothing else             *)
(***************************************************************************)
LEMMA SubmitReadStep ==
  ASSUME Inv, NEW w \in Workers, SubmitRead(w)
  PROVE  Inv'
<1> DEFINE local == [NoLoc EXCEPT !.call = "submit"]
<1>1. local \in Local /\ "submit_write" \in PC
  BY NoLocType DEF Local, PC, NoLoc
<1>2. /\ ControlOK' /\ OthersWait(w)
      /\ pc'[w] \in {"submit_write", "idle"}
  BY <1>1, StartOK, ReplyOK DEF SubmitRead, Inv, TypeOK
<1>3. Good(w)'
  BY <1>2 DEF Good, DecisionKnown, PipelineKnown, PollKnown
<1> QED BY <1>2, <1>3, QuietStep DEF SubmitRead

LEMMA EvaluateStep ==
  ASSUME Inv, NEW w \in Workers, Evaluate(w)
  PROVE  Inv'
<1> DEFINE fresh  == {i \in Items : prov[i] = "not_started"}
           loaded == [loc[w] EXCEPT !.seen = status, !.todo = fresh]
<1>1. /\ loc[w] \in Local
      /\ {"create_request", "dispatch", "notify"} \subseteq PC
  BY DEF Inv, TypeOK, ControlOK, PC
<1>2. loaded \in Local
  <2>1. status \in OrderStatus /\ fresh \in SUBSET Items
    BY DEF Inv, TypeOK, TablesOK
  <2> HIDE DEF fresh
  <2> QED BY <1>1, <2>1 DEF Local
<1>3. /\ ControlOK' /\ OthersWait(w)
      /\ pc'[w] \in {"create_request", "dispatch", "notify"}
  <2>1. CASE Goto(w, "dispatch", loaded)
    BY <2>1, <1>1, <1>2, GotoOK DEF Inv, TypeOK
  <2>2. ASSUME NEW label \in {"create_request", "notify"},
               Goto(w, label, loc[w])
        PROVE  /\ ControlOK' /\ OthersWait(w)
               /\ pc'[w] \in {"create_request", "dispatch", "notify"}
    BY <2>2, <1>1, GotoOK DEF Inv, TypeOK
  <2> QED BY <2>1, <2>2 DEF Evaluate
<1>4. Good(w)'
  BY <1>3 DEF Good, DecisionKnown, PipelineKnown, PollKnown
<1> QED BY <1>3, <1>4, QuietStep DEF Evaluate

LEMMA DispatchNextStep ==
  ASSUME Inv, NEW w \in Workers, DispatchNext(w)
  PROVE  Inv'
<1> DEFINE i    == First(Undispatched(w))
           next == [loc[w] EXCEPT !.item = i, !.todo = Undispatched(w) \ {i}]
           over == [NoLoc EXCEPT !.call = "submit"]
<1>1. loc[w] \in Local /\ {"notify", "trigger"} \subseteq PC
  BY DEF Inv, TypeOK, ControlOK, PC
<1>2. CASE Undispatched(w) = {}
  <2>1. Goto(w, "notify", over) /\ over \in Local
    BY <1>2, NewLocals DEF DispatchNext, Call
  <2>2. ControlOK' /\ OthersWait(w) /\ pc'[w] = "notify"
    BY <2>1, <1>1, GotoOK DEF Inv, TypeOK
  <2>3. Good(w)'
    BY <2>2 DEF Good, DecisionKnown, PipelineKnown, PollKnown
  <2> QED BY <2>2, <2>3, QuietStep DEF DispatchNext
<1>3. CASE Undispatched(w) # {}
  <2>1. Undispatched(w) \subseteq Items
    BY <1>1 DEF Undispatched, Local
  <2>2. i \in Items
    BY <1>3, <2>1, FirstInSet
  <2>3. next \in Local
    BY <1>1, <2>1, <2>2, LocalUpdates
  <2>4. Goto(w, "trigger", next)
    BY <1>3 DEF DispatchNext
  <2>5. /\ ControlOK' /\ OthersWait(w) /\ pc'[w] = "trigger" /\ loc'[w] = next
    BY <2>3, <2>4, <1>1, GotoOK DEF Inv, TypeOK
  <2>6. loc'[w].item = i
    BY <2>5, <1>1 DEF Local
  <2>7. Good(w)'
    BY <2>2, <2>5, <2>6 DEF Good, DecisionKnown, PipelineKnown, PollKnown
  <2> QED BY <2>5, <2>7, QuietStep DEF DispatchNext
<1> QED BY <1>2, <1>3

LEMMA AdminDispatchStep ==
  ASSUME Inv, NEW w \in Workers, NEW i \in Items, AdminDispatch(w, i)
  PROVE  Inv'
<1> DEFINE local == [NoLoc EXCEPT !.call = "dispatch", !.item = i]
<1>1. local \in Local /\ local.item = i /\ "trigger" \in PC
  BY NoLocType DEF Local, NoLoc, PC
<1>2. CASE Start(w, "trigger", local)
  <2>1. ControlOK' /\ OthersWait(w) /\ pc'[w] = "trigger" /\ loc'[w] = local
    BY <1>1, <1>2, StartOK DEF Inv, TypeOK
  <2>2. Good(w)'
    BY <1>1, <2>1 DEF Good, DecisionKnown, PipelineKnown, PollKnown
  <2> QED BY <2>1, <2>2, QuietStep DEF AdminDispatch
<1>3. CASE Reply(w, "ok")
  BY <1>3, ReplyOK, IdleGood, QuietStep DEF AdminDispatch, Inv, TypeOK
<1> QED BY <1>2, <1>3 DEF AdminDispatch

LEMMA DecisionReadStep ==
  ASSUME Inv, NEW w \in Workers, NEW user \in Approvers,
         NEW verdict \in {"approved", "rejected"},
         DecisionRead(w, user, verdict)
  PROVE  Inv'
<1> DEFINE local == [NoLoc EXCEPT !.call = "decide", !.who = user,
                                  !.verdict = verdict]
<1>1. /\ local \in Local /\ local.who = user /\ local.verdict = verdict
      /\ "decide" \in PC
  BY NewLocals DEF Call, NoLoc, PC
<1>2. CASE Start(w, "decide", local)
  <2>1. ControlOK' /\ OthersWait(w) /\ pc'[w] = "decide" /\ loc'[w] = local
    BY <1>1, <1>2, StartOK DEF Inv, TypeOK
  <2>2. Good(w)'
    BY <1>1, <2>1 DEF Good, DecisionKnown, PipelineKnown, PollKnown
  <2> QED BY <2>1, <2>2, QuietStep DEF DecisionRead
<1>3. CASE Reply(w, "conflict")
  BY <1>3, ReplyOK, IdleGood, QuietStep DEF DecisionRead, Inv, TypeOK
<1> QED BY <1>2, <1>3 DEF DecisionRead

LEMMA TimeoutReadStep ==
  ASSUME Inv, NEW w \in Workers, TimeoutRead(w)
  PROVE  Inv'
<1> DEFINE local == [NoLoc EXCEPT !.call = "timeout"]
<1>1. local \in Local /\ "timeout_decide" \in PC
  BY NoLocType DEF Local, PC, NoLoc
<1>2. ControlOK' /\ OthersWait(w) /\ pc'[w] = "timeout_decide"
  BY <1>1, StartOK DEF TimeoutRead, Inv, TypeOK
<1>3. Good(w)'
  BY <1>2 DEF Good, DecisionKnown, PipelineKnown, PollKnown
<1> QED BY <1>2, <1>3, QuietStep DEF TimeoutRead

LEMMA SyncReadStep ==
  ASSUME Inv, NEW w \in Workers, NEW i \in Items, SyncRead(w, i)
  PROVE  Inv'
<1> DEFINE local == [NoLoc EXCEPT !.call = "sync", !.item = i,
                                  !.job = job[i], !.old = prov[i]]
<1>1. job[i] \in Nat /\ prov[i] \in ProvisioningStatus
  BY DEF Inv, TypeOK, TablesOK
<1>2. local \in Local /\ "poll" \in PC
  BY <1>1, NewLocals DEF Call, PC
<1>3. local.item = i /\ local.job = job[i] /\ local.old = prov[i]
  BY DEF NoLoc
<1>4. ControlOK' /\ OthersWait(w) /\ pc'[w] = "poll" /\ loc'[w] = local
  BY <1>2, StartOK DEF SyncRead, Inv, TypeOK
<1>5. /\ job[i] # 0 /\ job[i] \in DOMAIN pipelines
      /\ pipelines[job[i]].item = i /\ prov[i] # "not_started"
  BY DEF SyncRead, Inv, ItemMatchesJob
<1>6. Good(w)'
  BY <1>1, <1>3, <1>4, <1>5
     DEF Good, DecisionKnown, PipelineKnown, PollKnown, SyncRead, dbVars
<1> QED BY <1>4, <1>6, QuietStep DEF SyncRead

LEMMA PollStep ==
  ASSUME Inv, NEW w \in Workers, Poll(w)
  PROVE  Inv'
<1> DEFINE new   == MapPipelineStatus(pipelines[loc[w].job].status, loc[w].old)
           local == [loc[w] EXCEPT !.new = new]
<1>1. /\ pc[w] = "poll" /\ loc[w] \in Local
      /\ loc[w].item \in Items /\ job[loc[w].item] # 0
      /\ loc[w].old \in ProvisioningStatus \ {"not_started"}
      /\ loc[w].job \in DOMAIN pipelines
  BY DEF Poll, Inv, LocalsAgree, PipelineKnown, PollKnown, TypeOK, ControlOK
<1>2. CASE Goto(w, "aggregate", local)
  <2>1. pipelines[loc[w].job].status \in PipelineStatus
    <3>1. pipelines[loc[w].job] \in Pipeline
      BY <1>1, PipelineType DEF Inv, TypeOK
    <3> QED BY <3>1 DEF Pipeline
  <2>2. new \in ProvisioningStatus \ {"not_started"}
    BY <1>1, <2>1, MappedStatus
  <2> HIDE DEF new
  <2>3. /\ local \in Local /\ local.item = loc[w].item /\ local.new = new
        /\ local.old = loc[w].old /\ "aggregate" \in PC
    BY <1>1, <2>2 DEF Local, PC
  <2>4. ControlOK' /\ OthersWait(w) /\ pc'[w] = "aggregate" /\ loc'[w] = local
    BY <1>2, <2>3, GotoOK DEF Inv, TypeOK
  <2>5. Good(w)'
    BY <1>1, <2>2, <2>3, <2>4
       DEF Good, DecisionKnown, PipelineKnown, PollKnown, Poll, dbVars
  <2> QED BY <2>4, <2>5, QuietStep DEF Poll
<1>3. CASE Reply(w, "error")
  BY <1>3, ReplyOK, IdleGood, QuietStep DEF Poll, Inv, TypeOK
<1> QED BY <1>2, <1>3 DEF Poll

\* A webhook call and the death of a worker: back to idle, nothing written.
LEMMA EndStep ==
  ASSUME Inv, NEW w \in Workers,
         Crash(w) \/ \E p \in DOMAIN pipelines : Webhook(w, p)
  PROVE  Inv'
  BY ReplyOK, IdleGood, QuietStep DEF Crash, Webhook, Inv, TypeOK

(***************************************************************************)
(* Steps that write                                                        *)
(***************************************************************************)
LEMMA SubmitWriteStep ==
  ASSUME Inv, NEW w \in Workers, SubmitWrite(w)
  PROVE  Inv'
<1>1. loc[w] \in Local /\ "evaluate" \in PC
  BY DEF Inv, TypeOK, ControlOK, PC
<1>2. ControlOK' /\ OthersWait(w) /\ pc'[w] = "evaluate"
  BY <1>1, GotoOK DEF SubmitWrite, Inv, TypeOK
<1>3. TablesOK'
  BY Statuses DEF SubmitWrite, Inv, TypeOK, TablesOK
<1>4. Kept /\ ItemMatchesJob' /\ OrderFollowsDecision'
  BY DEF SubmitWrite, Inv, Kept, ItemMatchesJob, OrderFollowsDecision
<1>5. Good(w)'
  BY <1>2 DEF Good, DecisionKnown, PipelineKnown, PollKnown
<1> QED BY <1>2, <1>3, <1>4, <1>5, Frame DEF StepOK, TypeOK

LEMMA CreateRequestStep ==
  ASSUME Inv, NEW w \in Workers, CreateRequest(w)
  PROVE  Inv'
<1>1. /\ loc[w] \in Local /\ "set_pending" \in PC
  BY DEF Inv, TypeOK, ControlOK, PC
<1>2. ControlOK' /\ OthersWait(w) /\ pc'[w] \in {"set_pending", "idle"}
  BY <1>1, GotoOK, ReplyOK DEF CreateRequest, Inv, TypeOK
<1>3. TablesOK'
  BY DEF CreateRequest, Inv, TypeOK, TablesOK
<1>4. Kept /\ ItemMatchesJob' /\ OrderFollowsDecision'
  BY DEF CreateRequest, Inv, Kept, ItemMatchesJob, OrderFollowsDecision
<1>5. Good(w)'
  BY <1>2 DEF Good, DecisionKnown, PipelineKnown, PollKnown
<1> QED BY <1>2, <1>3, <1>4, <1>5, Frame DEF StepOK, TypeOK

LEMMA SetPendingApprovalStep ==
  ASSUME Inv, NEW w \in Workers, SetPendingApproval(w)
  PROVE  Inv'
<1>1. loc[w] \in Local /\ "notify" \in PC
  BY DEF Inv, TypeOK, ControlOK, PC
<1>2. ControlOK' /\ OthersWait(w) /\ pc'[w] = "notify"
  BY <1>1, GotoOK DEF SetPendingApproval, Inv, TypeOK
<1>3. TablesOK'
  BY Statuses DEF SetPendingApproval, Inv, TypeOK, TablesOK
<1>4. Kept /\ ItemMatchesJob' /\ OrderFollowsDecision'
  BY DEF SetPendingApproval, Inv, Kept, ItemMatchesJob, OrderFollowsDecision
<1>5. Good(w)'
  BY <1>2 DEF Good, DecisionKnown, PipelineKnown, PollKnown
<1> QED BY <1>2, <1>3, <1>4, <1>5, Frame DEF StepOK, TypeOK

LEMMA NotifyStep ==
  ASSUME Inv, NEW w \in Workers, Notify(w)
  PROVE  Inv'
<1> DEFINE local == [NoLoc EXCEPT !.call = "submit", !.todo = Items]
<1>1. local \in Local /\ "subscribe" \in PC
  BY NewLocals DEF Call, PC
<1>2. ControlOK' /\ OthersWait(w) /\ pc'[w] = "subscribe"
  BY <1>1, GotoOK DEF Notify, Inv, TypeOK
<1>3. TablesOK'
  BY DEF Notify, Inv, TypeOK, TablesOK
<1>4. Kept /\ ItemMatchesJob' /\ OrderFollowsDecision'
  BY DEF Notify, Inv, Kept, ItemMatchesJob, OrderFollowsDecision
<1>5. Good(w)'
  BY <1>2 DEF Good, DecisionKnown, PipelineKnown, PollKnown
<1> QED BY <1>2, <1>3, <1>4, <1>5, Frame DEF StepOK, TypeOK

LEMMA SubscribeStep ==
  ASSUME Inv, NEW w \in Workers, Subscribe(w)
  PROVE  Inv'
<1> DEFINE i    == First(loc[w].todo)
           rest == [loc[w] EXCEPT !.todo = @ \ {i}]
<1>1. loc[w] \in Local /\ loc[w].todo \in SUBSET Items /\ "subscribe" \in PC
  BY DEF Inv, TypeOK, ControlOK, Local, PC
<1>2. rest \in Local
  BY <1>1, LocalUpdates
<1>3. ControlOK' /\ OthersWait(w) /\ pc'[w] \in {"subscribe", "idle"}
  BY <1>1, <1>2, GotoOK, ReplyOK DEF Subscribe, Inv, TypeOK
<1>4. subs' \subseteq Items
  <2>1. CASE loc[w].todo # {} /\ subs' = subs \cup {i}
    <3>1. i \in Items
      BY <1>1, <2>1, FirstInSet
    <3> HIDE DEF i
    <3> QED BY <2>1, <3>1 DEF Inv, TypeOK, TablesOK
  <2>2. CASE UNCHANGED subs
    BY <2>2 DEF Inv, TypeOK, TablesOK
  <2> QED BY <2>1, <2>2 DEF Subscribe
<1>5. TablesOK'
  BY <1>4 DEF Subscribe, Inv, TypeOK, TablesOK
<1>6. Kept /\ ItemMatchesJob' /\ OrderFollowsDecision'
  BY DEF Subscribe, Inv, Kept, ItemMatchesJob, OrderFollowsDecision
<1>7. Good(w)'
  BY <1>3 DEF Good, DecisionKnown, PipelineKnown, PollKnown
<1> QED BY <1>3, <1>5, <1>6, <1>7, Frame DEF StepOK, TypeOK

LEMMA TriggerStep ==
  ASSUME Inv, NEW w \in Workers, Trigger(w)
  PROVE  Inv'
<1> DEFINE new   == [item |-> loc[w].item, status |-> "pending"]
           n     == Len(pipelines) + 1
           local == [loc[w] EXCEPT !.job = n]
<1>1. /\ pc[w] = "trigger" /\ loc[w] \in Local /\ loc[w].item \in Items
      /\ {"record", "log_failure"} \subseteq PC
  BY DEF Trigger, Inv, TypeOK, ControlOK, LocalsAgree, PipelineKnown, PC
<1>2. new \in Pipeline /\ new.item = loc[w].item
  BY <1>1, Statuses DEF Pipeline
<1>3. TablesOK /\ Len(pipelines) \in Nat
  BY PipelineType DEF Inv, TypeOK
<1>4. local \in Local /\ local.item = loc[w].item /\ local.job = n
  <2>1. n \in Nat
    BY <1>3
  <2> HIDE DEF n
  <2>2. local \in Local
    BY <1>1, <2>1, LocalUpdates
  <2> QED BY <1>1, <2>2 DEF Local
<1>5. CASE pipelines' = Append(pipelines, new)
  <2> HIDE DEF new
  <2>1. /\ pipelines' \in Seq(Pipeline)
        /\ n \in DOMAIN pipelines' /\ pipelines'[n] = new
        /\ \A p \in DOMAIN pipelines : /\ p \in DOMAIN pipelines'
                                       /\ pipelines'[p] = pipelines[p]
    BY <1>2, <1>3, <1>5, PipelineType DEF TablesOK
  <2>2. TablesOK'
    BY <1>3, <2>1 DEF Trigger, TablesOK, dbVars
  <2>3. Kept
    BY <2>1 DEF Trigger, dbVars, Kept
  <2>4. ItemMatchesJob' /\ OrderFollowsDecision'
    BY <2>1 DEF Trigger, dbVars, Inv, ItemMatchesJob, OrderFollowsDecision
  <2>5. CASE Goto(w, "record", local)
    <3>1. ControlOK' /\ OthersWait(w) /\ pc'[w] = "record" /\ loc'[w] = local
      BY <1>1, <1>4, <2>5, GotoOK DEF Inv, TypeOK
    <3>2. Good(w)'
      BY <1>1, <1>2, <1>4, <2>1, <3>1
         DEF Good, DecisionKnown, PipelineKnown, PollKnown
    <3> QED BY <2>2, <2>3, <2>4, <3>1, <3>2, Frame DEF StepOK, TypeOK
  <2>6. CASE Goto(w, "log_failure", loc[w])
    <3>1. /\ ControlOK' /\ OthersWait(w)
          /\ pc'[w] = "log_failure" /\ loc'[w] = loc[w]
      BY <1>1, <2>6, GotoOK DEF Inv, TypeOK
    <3>2. Good(w)'
      BY <1>1, <3>1 DEF Good, DecisionKnown, PipelineKnown, PollKnown
    <3> QED BY <2>2, <2>3, <2>4, <3>1, <3>2, Frame DEF StepOK, TypeOK
  <2> QED BY <1>5, <2>5, <2>6 DEF Trigger, new
<1>6. CASE UNCHANGED pipelines /\ Goto(w, "log_failure", loc[w])
  <2>1. /\ ControlOK' /\ OthersWait(w)
        /\ pc'[w] = "log_failure" /\ loc'[w] = loc[w]
    BY <1>1, <1>6, GotoOK DEF Inv, TypeOK
  <2>2. Good(w)'
    BY <1>1, <2>1 DEF Good, DecisionKnown, PipelineKnown, PollKnown
  <2> QED BY <1>6, <2>1, <2>2, QuietStep DEF Trigger
<1> QED BY <1>5, <1>6 DEF Trigger

LEMMA AfterItemOK ==
  ASSUME ControlOK, NEW w \in Workers, AfterItem(w)
  PROVE  ControlOK' /\ OthersWait(w) /\ pc'[w] \in {"dispatch", "idle"}
<1> DEFINE local == [NoLoc EXCEPT !.call = "submit", !.todo = loc[w].todo]
<1>1. loc[w].todo \in SUBSET Items
  BY DEF ControlOK, Local
<1>2. local \in Local /\ "dispatch" \in PC
  BY <1>1, NewLocals DEF Call, PC
<1>3. CASE Goto(w, "dispatch", local)
  BY <1>2, <1>3, GotoOK
<1>4. CASE Reply(w, "ok")
  BY <1>4, ReplyOK
<1> QED BY <1>3, <1>4 DEF AfterItem

\* job_id and provisioning_status are set together, to the pipeline that was
\* triggered for the item.
LEMMA SaveItemOK ==
  ASSUME Inv, NEW w \in Workers, pc[w] \in {"record", "log_item"},
         SaveItem(w), UNCHANGED pipelines
  PROVE  /\ prov' \in [Items -> ProvisioningStatus] /\ job' \in [Items -> Nat]
         /\ \A i \in Items : job[i] # 0 => job'[i] # 0
         /\ ItemMatchesJob'
<1>1. /\ loc[w].item \in Items /\ loc[w].job \in DOMAIN pipelines
      /\ pipelines[loc[w].job].item = loc[w].item
  BY DEF Inv, LocalsAgree, PipelineKnown
<1>2. loc[w].job \in Nat \ {0}
  BY <1>1, PipelineType DEF Inv, TypeOK
<1>3. /\ prov \in [Items -> ProvisioningStatus] /\ job \in [Items -> Nat]
      /\ "pending" \in ProvisioningStatus
  BY Statuses DEF Inv, TypeOK, TablesOK
<1>4. prov' \in [Items -> ProvisioningStatus] /\ job' \in [Items -> Nat]
  BY <1>1, <1>2, <1>3 DEF SaveItem
<1>5. \A i \in Items : job[i] # 0 => job'[i] # 0
  BY <1>1, <1>2, <1>3 DEF SaveItem
<1>6. ItemMatchesJob'
  BY <1>1, <1>2, <1>3 DEF SaveItem, Inv, ItemMatchesJob
<1> QED BY <1>4, <1>5, <1>6

LEMMA RecordDispatchStep ==
  ASSUME Inv, NEW w \in Workers, RecordDispatch(w)
  PROVE  Inv'
<1>1. /\ pc[w] = "record" /\ loc[w] \in Local /\ {"log", "log_item"} \subseteq PC
      /\ PipelineKnown(w)
  BY DEF RecordDispatch, Inv, TypeOK, ControlOK, LocalsAgree, PC
<1>2. /\ ControlOK' /\ OthersWait(w) /\ pc'[w] \in {"log", "log_item"}
      /\ loc'[w] = loc[w]
  BY <1>1, GotoOK DEF RecordDispatch, Inv, TypeOK
<1>3. Good(w)'
  BY <1>1, <1>2 DEF RecordDispatch, Good, DecisionKnown, PipelineKnown, PollKnown
<1>4. CASE status' = "provisioning" /\ SaveItem(w)
  <2>1. /\ prov' \in [Items -> ProvisioningStatus] /\ job' \in [Items -> Nat]
        /\ \A i \in Items : job[i] # 0 => job'[i] # 0
        /\ ItemMatchesJob'
    BY <1>1, <1>4, SaveItemOK DEF RecordDispatch
  <2>2. TablesOK'
    BY <1>4, <2>1, Statuses DEF RecordDispatch, Inv, TypeOK, TablesOK
  <2>3. Kept /\ OrderFollowsDecision'
    BY <1>4, <2>1 DEF RecordDispatch, Kept, OrderFollowsDecision
  <2> QED BY <1>2, <1>3, <2>1, <2>2, <2>3, Frame DEF StepOK, TypeOK
<1>5. CASE UNCHANGED <<status, job, prov>>
  BY <1>2, <1>3, <1>5, QuietStep DEF RecordDispatch, dbVars
<1> QED BY <1>4, <1>5 DEF RecordDispatch

LEMMA LogSuccessStep ==
  ASSUME Inv, NEW w \in Workers, LogSuccess(w)
  PROVE  Inv'
<1>1. ControlOK' /\ OthersWait(w) /\ pc'[w] \in {"dispatch", "idle"}
  BY AfterItemOK DEF LogSuccess, Inv, TypeOK
<1>2. Good(w)'
  BY <1>1 DEF Good, DecisionKnown, PipelineKnown, PollKnown
<1>3. loc[w].item \in Items /\ loc[w].job \in Nat
  BY DEF LogSuccess, Inv, LocalsAgree, PipelineKnown, TypeOK, ControlOK, Local
<1>4. /\ prov' \in [Items -> ProvisioningStatus] /\ job' \in [Items -> Nat]
      /\ \A i \in Items : job[i] # 0 => job'[i] # 0
      /\ ItemMatchesJob'
  <2>1. CASE pc[w] = "log_item"
    BY <2>1, SaveItemOK DEF LogSuccess
  <2>2. CASE pc[w] # "log_item"
    BY <2>2 DEF LogSuccess, Inv, TypeOK, TablesOK, ItemMatchesJob
  <2> QED BY <2>1, <2>2
<1>5. TablesOK'
  BY <1>3, <1>4 DEF LogSuccess, Inv, TypeOK, TablesOK
<1>6. Kept /\ OrderFollowsDecision'
  BY <1>4 DEF LogSuccess, Inv, Kept, OrderFollowsDecision
<1> QED BY <1>1, <1>2, <1>4, <1>5, <1>6, Frame DEF StepOK, TypeOK

LEMMA LogFailureStep ==
  ASSUME Inv, NEW w \in Workers, LogFailure(w)
  PROVE  Inv'
<1>1. ControlOK' /\ OthersWait(w) /\ pc'[w] \in {"dispatch", "idle"}
  BY AfterItemOK DEF LogFailure, Inv, TypeOK
<1>2. Good(w)'
  BY <1>1 DEF Good, DecisionKnown, PipelineKnown, PollKnown
<1>3. loc[w].item \in Items
  BY DEF LogFailure, Inv, LocalsAgree, PipelineKnown
<1>4. TablesOK'
  BY <1>3 DEF LogFailure, Inv, TypeOK, TablesOK
<1>5. Kept /\ ItemMatchesJob' /\ OrderFollowsDecision'
  BY DEF LogFailure, Inv, Kept, ItemMatchesJob, OrderFollowsDecision
<1> QED BY <1>1, <1>2, <1>4, <1>5, Frame DEF StepOK, TypeOK

\* Only a pending request is decided, so no verdict another worker relies on
\* changes; the loser of the race goes back to idle without a verdict.
LEMMA DecideStep ==
  ASSUME Inv, NEW w \in Workers, Decide(w)
  PROVE  Inv'
<1>1. /\ pc[w] = "decide" /\ loc[w] \in Local /\ "write_decision" \in PC
      /\ loc[w].verdict \in {"approved", "rejected"} /\ loc[w].who \in Approvers
  BY DEF Decide, Inv, TypeOK, ControlOK, LocalsAgree, DecisionKnown, PC
<1>2. TablesOK'
  BY <1>1 DEF Decide, DecideRequest, Inv, TypeOK, TablesOK
<1>3. Kept /\ ItemMatchesJob' /\ OrderFollowsDecision'
  BY DEF Decide, DecideRequest, Inv, Kept, ItemMatchesJob, OrderFollowsDecision
<1>4. CASE request.status = "pending"
  <2>1. /\ ControlOK' /\ OthersWait(w)
        /\ pc'[w] = "write_decision" /\ loc'[w] = loc[w]
    BY <1>1, <1>4, GotoOK DEF Decide, Inv, TypeOK
  <2>2. Good(w)'
    BY <1>1, <1>4, <2>1
       DEF Decide, DecideRequest, Good, DecisionKnown, PipelineKnown, PollKnown
  <2> QED BY <1>2, <1>3, <2>1, <2>2, Frame DEF StepOK, TypeOK
<1>5. CASE request.status # "pending"
  <2>1. Reply(w, "conflict")
    BY <1>5 DEF Decide
  <2>2. ControlOK' /\ OthersWait(w) /\ pc'[w] = "idle"
    BY <2>1, ReplyOK DEF Inv, TypeOK
  <2> QED BY <1>2, <1>3, <2>2, IdleGood, Frame DEF StepOK, TypeOK
<1> QED BY <1>4, <1>5

LEMMA WriteDecisionStep ==
  ASSUME Inv, NEW w \in Workers, WriteDecision(w)
  PROVE  Inv'
<1>1. /\ loc[w].verdict \in {"approved", "rejected"} /\ loc[w].who \in Approvers
      /\ request = [status |-> loc[w].verdict, by |-> loc[w].who]
  BY DEF WriteDecision, Inv, LocalsAgree, DecisionKnown
<1>2. ControlOK' /\ OthersWait(w) /\ pc'[w] = "idle"
  BY ReplyOK DEF WriteDecision, Inv, TypeOK
<1>3. TablesOK'
  BY <1>1, Statuses DEF WriteDecision, Inv, TypeOK, TablesOK
<1>4. Kept /\ ItemMatchesJob'
  BY DEF WriteDecision, Inv, Kept, ItemMatchesJob
<1>5. OrderFollowsDecision'
  BY <1>1, ConstantsAssumption DEF WriteDecision, OrderFollowsDecision
<1> QED BY <1>2, <1>3, <1>4, <1>5, IdleGood, Frame DEF StepOK, TypeOK

LEMMA TimeoutDecideStep ==
  ASSUME Inv, NEW w \in Workers, TimeoutDecide(w)
  PROVE  Inv'
<1>1. ControlOK' /\ OthersWait(w) /\ pc'[w] = "idle"
  BY ReplyOK DEF TimeoutDecide, Inv, TypeOK
<1>2. TablesOK'
  BY DEF TimeoutDecide, DecideRequest, Inv, TypeOK, TablesOK
<1>3. Kept /\ ItemMatchesJob' /\ OrderFollowsDecision'
  BY DEF TimeoutDecide, DecideRequest, Inv, Kept, ItemMatchesJob,
         OrderFollowsDecision
<1> QED BY <1>1, <1>2, <1>3, IdleGood, Frame DEF StepOK, TypeOK

LEMMA AggregateStep ==
  ASSUME Inv, NEW w \in Workers, Aggregate(w)
  PROVE  Inv'
<1>1. /\ loc[w].item \in Items /\ job[loc[w].item] # 0
      /\ loc[w].new \in ProvisioningStatus \ {"not_started"}
  BY DEF Aggregate, Inv, LocalsAgree, PipelineKnown, PollKnown
<1>2. ControlOK' /\ OthersWait(w) /\ pc'[w] = "idle"
  BY ReplyOK DEF Aggregate, Inv, TypeOK
<1>3. /\ prov' = [prov EXCEPT ![loc[w].item] = loc[w].new] \/ UNCHANGED prov
      /\ status' \in {"done", "failed"} \/ UNCHANGED status
      /\ UNCHANGED <<request, job, logs, subs, notified, pipelines>>
  BY DEF Aggregate, CommitItem
<1>4. TablesOK'
  <2>1. prov' \in [Items -> ProvisioningStatus] /\ status' \in OrderStatus
    BY <1>1, <1>3, Statuses DEF Inv, TypeOK, TablesOK
  <2> QED BY <1>3, <2>1 DEF Inv, TypeOK, TablesOK
<1>5. ItemMatchesJob'
  <2>1. prov \in [Items -> ProvisioningStatus]
    BY DEF Inv, TypeOK, TablesOK
  <2> QED BY <1>1, <1>3, <2>1 DEF Inv, ItemMatchesJob
<1>6. Kept /\ OrderFollowsDecision'
  BY <1>3 DEF Inv, Kept, OrderFollowsDecision
<1> QED BY <1>2, <1>4, <1>5, <1>6, IdleGood, Frame DEF StepOK, TypeOK

LEMMA PipelineMovesStep ==
  ASSUME Inv, NEW p \in DOMAIN pipelines, NEW new \in PipelineStatus,
         PipelineMoves(p, new)
  PROVE  Inv'
<1>1. /\ Len(pipelines) \in Nat /\ DOMAIN pipelines = 1 .. Len(pipelines)
      /\ \A q \in DOMAIN pipelines : pipelines[q] \in Pipeline
      /\ pipelines \in Seq(Pipeline)
  BY PipelineType DEF Inv, TypeOK, TablesOK
<1>2. [pipelines[p] EXCEPT !.status = new] \in Pipeline
  BY <1>1 DEF Pipeline
<1>3. /\ pipelines' \in Seq(Pipeline) /\ DOMAIN pipelines' = DOMAIN pipelines
      /\ \A q \in DOMAIN pipelines : pipelines'[q].item = pipelines[q].item
  <2>1. pipelines' = [pipelines EXCEPT ![p] = [pipelines[p] EXCEPT !.status = new]]
    BY DEF PipelineMoves
  <2>2. pipelines' \in Seq(Pipeline) /\ DOMAIN pipelines' = DOMAIN pipelines
    BY <1>1, <1>2, <2>1, ExceptSeq
  <2>3. [pipelines[p] EXCEPT !.status = new].item = pipelines[p].item
    BY <1>1 DEF Pipeline
  <2> QED BY <1>1, <2>1, <2>2, <2>3
<1>4. TypeOK'
  BY <1>3 DEF PipelineMoves, dbVars, Inv, TypeOK, TablesOK, ControlOK
<1>5. Kept
  BY <1>3 DEF PipelineMoves, dbVars, Kept
<1>6. ItemMatchesJob' /\ OrderFollowsDecision'
  BY <1>3 DEF PipelineMoves, dbVars, Inv, ItemMatchesJob, OrderFollowsDecision
<1>7. \A v \in Workers : Good(v)'
  BY <1>5, WaitingKeeps DEF PipelineMoves
<1> QED BY <1>4, <1>6, <1>7 DEF Inv, LocalsAgree, Good

(***************************************************************************)
(* The theorems                                                            *)
(***************************************************************************)
LEMMA StepInv == Inv /\ [Next]_vars => Inv'
<1> SUFFICES ASSUME Inv, [Next]_vars PROVE Inv'
  OBVIOUS
<1>1. ASSUME NEW w \in Workers, Begin(w) PROVE Inv'
  BY <1>1, SubmitReadStep, DecisionReadStep, TimeoutReadStep,
     AdminDispatchStep, SyncReadStep, EndStep DEF Begin
<1>2. ASSUME NEW w \in Workers, Proceed(w) PROVE Inv'
  BY <1>2, SubmitWriteStep, EvaluateStep, CreateRequestStep,
     SetPendingApprovalStep, NotifyStep, SubscribeStep, DispatchNextStep,
     TriggerStep, RecordDispatchStep, LogSuccessStep, LogFailureStep,
     DecideStep, WriteDecisionStep, TimeoutDecideStep, PollStep, AggregateStep
     DEF Proceed
<1>3. ASSUME NEW w \in Workers, Crash(w) PROVE Inv'
  BY <1>3, EndStep
<1>4. ASSUME NEW p \in DOMAIN pipelines, NEW new \in PipelineStatus,
             PipelineMoves(p, new)
      PROVE  Inv'
  BY <1>4, PipelineMovesStep
<1>5. CASE UNCHANGED vars
  BY <1>5 DEF vars, Inv, TypeOK, TablesOK, ControlOK, LocalsAgree,
     DecisionKnown, PipelineKnown, PollKnown, ItemMatchesJob,
     OrderFollowsDecision
<1> QED BY <1>1, <1>2, <1>3, <1>4, <1>5 DEF Next

THEOREM InvHolds == Spec => []Inv
<1> QED BY InitInv, StepInv, PTL DEF Spec

\* Whatever the calls do to each other, columns and locals keep their types.
THEOREM TypeCorrect == Spec => []TypeOK
<1>1. Inv => TypeOK
  BY DEF Inv
<1> QED BY <1>1, InvHolds, PTL

\* An order that says "approved" or "rejected" says what a user decided on its
\* request, with any number of approvers racing with each other, the timeout
\* job and crashes (approve_request, reject_request, process_timeouts).
THEOREM DecisionsAreFollowed == Spec => []OrderFollowsDecision
<1>1. Inv => OrderFollowsDecision
  BY DEF Inv
<1> QED BY <1>1, InvHolds, PTL

\* job_id is set exactly when provisioning has started, and names a pipeline
\* of this item, however dispatch and polling interleave and whatever GitLab
\* answers (_dispatch_single_item, sync_item_status).
THEOREM ItemsMatchJobs == Spec => []ItemMatchesJob
<1>1. Inv => ItemMatchesJob
  BY DEF Inv
<1> QED BY <1>1, InvHolds, PTL

\* What a worker carries over other workers' commits is still right when used.
THEOREM LocalsStayRight == Spec => []LocalsAgree
<1>1. Inv => LocalsAgree
  BY DEF Inv
<1> QED BY <1>1, InvHolds, PTL

\* No step changes a request once it is decided (decide_request).
THEOREM DecisionsAreFinal == Spec => DecisionIsFinal
<1>1. ASSUME Inv, Next
      PROVE  request.status \in {"approved", "rejected"} => UNCHANGED request
  BY <1>1 DEF Next, Begin, Proceed, dbVars, SubmitRead, DecisionRead,
     TimeoutRead, AdminDispatch, SyncRead, Webhook, SubmitWrite, Evaluate,
     CreateRequest, SetPendingApproval, Notify, Subscribe, DispatchNext,
     Trigger, RecordDispatch, LogSuccess, LogFailure, Decide, DecideRequest,
     WriteDecision, TimeoutDecide, Poll, Aggregate, Crash, PipelineMoves
<1>2. ASSUME UNCHANGED vars PROVE UNCHANGED request
  BY <1>2 DEF vars
<1>3. Inv /\ [Next]_vars =>
        [request.status \in {"approved", "rejected"} => UNCHANGED request]_request
  BY <1>1, <1>2
<1> QED BY <1>3, InvHolds, PTL DEF Spec, DecisionIsFinal
=============================================================================
