---------------------------- MODULE Subscriptions ----------------------------
(***************************************************************************)
(* The subscriptions of one order: created with the submission, changed    *)
(* and cancelled by their owner, decided by whoever approves               *)
(* (subscription_service.py, subscription_repository.py,                   *)
(* api/v1/subscriptions.py).                                               *)
(*                                                                         *)
(* Every commit is an action, and so is every read that a later commit     *)
(* relies on.  Of the parameters only the keys that changes bring in are   *)
(* kept: merging two dictionaries is the union of what was merged.         *)
(***************************************************************************)
EXTENDS Handlers, Naturals, FiniteSets

CONSTANTS
  SubCount,  \* items of the order, each with its subscription
  Grouped,   \* those that belong to an order group
  Changes,   \* parameter changes an owner may ask for
  NoChange,  \* the empty dictionary: a change of nothing
  Cancel,    \* {"cancel_reason": ...}, what request_cancel leaves as change
  None,      \* no pending changes
  MayDie     \* may workers die?

Subs == 1 .. SubCount

SubscriptionPC ==
  {"idle", "sub_create", "sub_assign", "ask_pending", "ask_status",
   "grant_apply", "refuse_clear", "decide_status"}

SubStatus == {"absent", "ordered", "active", "change_pending",
              "cancel_pending", "cancelled"}
Pending   == {"change_pending", "cancel_pending"}

ASSUME SubscriptionAssumption ==
  /\ SubCount \in Nat
  /\ Grouped \subseteq Subs
  /\ {NoChange, Cancel, None} \cap Changes = {}
  /\ NoChange # Cancel /\ NoChange # None /\ Cancel # None
  /\ MayDie \in BOOLEAN

VARIABLES
  subs,   \* rows of subscriptions
  subLoc  \* what a worker's session and local variables hold

subVars == <<pc, subs, subLoc>>

NoSub == [status |-> "absent", pending |-> None, params |-> {},
          group |-> FALSE]

\* sub: the row at hand; row: its attributes as loaded; value: what is to be
\* written next (pending changes or a status)
NoSubLoc == [sub |-> 0, row |-> NoSub, wish |-> None, status |-> "absent"]

SubscriptionInit ==
  /\ PcInit
  /\ subs = [s \in Subs |-> NoSub]
  /\ subLoc = [w \in Workers |-> NoSubLoc]

Hold(w, local) == subLoc' = [subLoc EXCEPT ![w] = local]

EndSub(w) == Reply(w) /\ Hold(w, NoSubLoc)

(***************************************************************************)
(* create_from_order, called by post_submit                                *)
(***************************************************************************)
\* A group subscription is committed first; what counts here is which
\* subscriptions come to belong to it.
CreateGroups(w) ==
  /\ Begin(w, "create")
  /\ SubCount > 0
  /\ Goto(w, "sub_create")
  /\ Hold(w, [NoSubLoc EXCEPT !.sub = 1])
  /\ UNCHANGED subs

\* Go on with the next item, or end with the last.
NextItem(w) ==
  IF subLoc[w].sub < SubCount
    THEN Goto(w, "sub_create") /\ Hold(w, [NoSubLoc EXCEPT !.sub = subLoc[w].sub + 1])
    ELSE EndSub(w)

\* order_item_id is unique: a subscription that is there already ends the call.
CreateSub(w) ==
  LET s == subLoc[w].sub IN
  /\ At(w, "sub_create")
  /\ IF subs[s].status # "absent"
       THEN EndSub(w) /\ UNCHANGED subs
       ELSE /\ subs' = [subs EXCEPT ![s] = [NoSub EXCEPT !.status = "ordered"]]
            /\ IF s \in Grouped THEN Goto(w, "sub_assign") /\ UNCHANGED subLoc
                                ELSE NextItem(w)

AssignToGroup(w) ==
  /\ At(w, "sub_assign")
  /\ subs' = [subs EXCEPT ![subLoc[w].sub].group = TRUE]
  /\ NextItem(w)

\* update_status(id, "active") on an ordered subscription: the call of a job
\* that learns of the end of provisioning.
Activate(w, s) ==
  /\ Begin(w, "activate")
  /\ subs[s].status = "ordered"
  /\ subs' = [subs EXCEPT ![s].status = "active"]
  /\ UNCHANGED <<pc, subLoc>>

(***************************************************************************)
(* POST /subscriptions/<id>/change and /cancel                             *)
(***************************************************************************)
\* Mutant of AskRead: a pending request may be replaced by another.
AskReadAnyTime(w, s, call, wish) ==
  /\ Begin(w, call)
  /\ subs[s].status \in Pending \cup {"active"}
  /\ Goto(w, "ask_pending")
  /\ Hold(w, [sub |-> s, row |-> subs[s], wish |-> wish,
              status |-> IF call = "cancel" THEN "cancel_pending"
                                            ELSE "change_pending"])
  /\ UNCHANGED subs

\* The endpoint lets an administrator pass, the service only the owner.
AskRead(w, s, call, wish) ==
  /\ Begin(w, call)
  /\ subs[s].status = "active"
  /\ Goto(w, "ask_pending")
  /\ Hold(w, [sub |-> s, row |-> subs[s], wish |-> wish,
              status |-> IF call = "cancel" THEN "cancel_pending"
                                            ELSE "change_pending"])
  /\ UNCHANGED subs

\* The endpoints lay down what is asked for; a change may be of nothing.
RequestChange(w, s, c) == AskRead(w, s, "change", c)
RequestCancel(w, s)    == AskRead(w, s, "cancel", Cancel)

\* An attribute that is given the value it was loaded with is not written.
Written(loaded, value, current) == IF value = loaded THEN current ELSE value

StorePending(w) ==
  LET l == subLoc[w] IN
  /\ At(w, "ask_pending")
  /\ subs' = [subs EXCEPT ![l.sub].pending = Written(l.row.pending, l.wish, @)]
  /\ Goto(w, "ask_status")
  /\ UNCHANGED subLoc

\* update_status reads the row again and writes.
StoreStatus(w, label) ==
  /\ At(w, label)
  /\ subs' = [subs EXCEPT ![subLoc[w].sub].status = subLoc[w].status]
  /\ EndSub(w)

(***************************************************************************)
(* approve_change and reject_change; no endpoint calls them yet            *)
(***************************************************************************)
GrantRead(w, s) ==
  /\ Begin(w, "grant")
  /\ subs[s].status \in Pending
  /\ IF subs[s].status = "change_pending"
       THEN /\ Goto(w, "grant_apply")
            /\ Hold(w, [NoSubLoc EXCEPT !.sub = s, !.row = subs[s],
                                        !.status = "active"])
       ELSE /\ Goto(w, "decide_status")
            /\ Hold(w, [NoSubLoc EXCEPT !.sub = s, !.row = subs[s],
                                        !.status = "cancelled"])
  /\ UNCHANGED subs

\* Mutant of ApplyPending: the pending changes stay.
ApplyAndKeep(w) ==
  LET l == subLoc[w] IN
  /\ At(w, "grant_apply")
  /\ subs' = IF l.row.pending \in {None, NoChange} THEN subs
             ELSE [subs EXCEPT ![l.sub].params = l.row.params \cup {l.row.pending}]
  /\ Goto(w, "decide_status")
  /\ UNCHANGED subLoc

\* apply_pending_changes merges what was loaded when the call began; nothing is
\* merged, and nothing cleared, if that was empty.
ApplyPending(w) ==
  LET l == subLoc[w] IN
  /\ At(w, "grant_apply")
  /\ subs' = IF l.row.pending \in {None, NoChange} THEN subs
             ELSE [subs EXCEPT ![l.sub].params = l.row.params \cup {l.row.pending},
                               ![l.sub].pending = None]
  /\ Goto(w, "decide_status")
  /\ UNCHANGED subLoc

RefuseRead(w, s) ==
  /\ Begin(w, "refuse")
  /\ subs[s].status \in Pending
  /\ Goto(w, "refuse_clear")
  /\ Hold(w, [NoSubLoc EXCEPT !.sub = s, !.row = subs[s], !.status = "active"])
  /\ UNCHANGED subs

ClearPending(w) ==
  LET l == subLoc[w] IN
  /\ At(w, "refuse_clear")
  /\ subs' = [subs EXCEPT ![l.sub].pending = Written(l.row.pending, None, @)]
  /\ Goto(w, "decide_status")
  /\ UNCHANGED subLoc

\* The worker is killed: what it had committed stays.
SubCrash(w) ==
  /\ MayDie
  /\ pc[w] \in SubscriptionPC \ {"idle"}
  /\ EndSub(w)
  /\ UNCHANGED subs

SubscriptionNext ==
  \E w \in Workers :
    \/ CreateGroups(w) \/ CreateSub(w) \/ AssignToGroup(w)
    \/ \E s \in Subs :
         \/ Activate(w, s)
         \/ \E c \in Changes \cup {NoChange} : RequestChange(w, s, c)
         \/ RequestCancel(w, s)
         \/ GrantRead(w, s) \/ RefuseRead(w, s)
    \/ StorePending(w) \/ StoreStatus(w, "ask_status")
    \/ ApplyPending(w) \/ ClearPending(w) \/ StoreStatus(w, "decide_status")
    \/ SubCrash(w)

SubscriptionSpec == SubscriptionInit /\ [][SubscriptionNext]_subVars

(***************************************************************************)
(* Properties                                                              *)
(***************************************************************************)
\* The columns of the rows and the workers' locals have their types.
SubscriptionTypeOK ==
  /\ \A s \in Subs :
       subs[s] \in [status : SubStatus, pending : Changes \cup {NoChange, Cancel, None},
                    params : SUBSET (Changes \cup {Cancel}), group : BOOLEAN]
  /\ \A w \in Workers : pc[w] \in SubscriptionPC => subLoc[w].sub \in Subs \cup {0}

\* One worker asks and one decides: then the status hands the row from the
\* one to the other.
OneAsksOneDecides ==
  /\ \A v, w \in Workers : Calls[v] \cap {"change", "cancel"} # {}
       /\ Calls[w] \cap {"change", "cancel"} # {} => v = w
  /\ \A v, w \in Workers : Calls[v] \cap {"grant", "refuse"} # {}
       /\ Calls[w] \cap {"grant", "refuse"} # {} => v = w

\* If the requests of an owner follow each other, and so do the decisions on
\* them (OneAsksOneDecides), the reason of a cancellation never becomes a
\* parameter of the service: what apply_pending_changes merges is a change the
\* owner asked for, although cancellations travel in the same column and each
\* request is two commits, between which the owner's worker may die
\* (subscription_service.py:46 and 66).  A change and a cancellation asked for
\* in two windows at once break it.
CancelReasonStaysOut == \A s \in Subs : Cancel \notin subs[s].params

\* A cancellation that awaits its decision lies in the column as one, or was
\* cleared by a refusal that died before it took back the status; a change
\* that awaits its decision is no cancellation.
PendingFitsStatus ==
  \A s \in Subs :
    /\ subs[s].status = "cancel_pending" => subs[s].pending \in {Cancel, None}
    /\ subs[s].status = "change_pending" => subs[s].pending # Cancel

\* What an observer of SubscriptionLifecycle sees: a change counts as decided
\* when its parameters are merged or cleared, whatever the status still says.
StateSeen(s) ==
  CASE subs[s].status = "change_pending" ->
         IF subs[s].pending = None THEN "active" ELSE "changing"
    [] subs[s].status = "cancel_pending" -> "cancelling"
    [] subs[s].status = "cancelled" -> "over"
    [] OTHER -> subs[s].status

Lifecycle == INSTANCE SubscriptionLifecycle WITH
  state   <- [s \in Subs |-> StateSeen(s)],
  wish    <- [s \in Subs |-> IF StateSeen(s) = "changing" THEN subs[s].pending
                                                          ELSE None],
  applied <- [s \in Subs |-> subs[s].params]

\* The calls of one owner and one approver, overlapping and dying anywhere,
\* look like requests and decisions in single steps.
ImplementsSubscription == Lifecycle!ALSpec
==============================================================================
