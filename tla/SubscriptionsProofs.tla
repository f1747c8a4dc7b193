------------------------- MODULE SubscriptionsProofs -------------------------
(***************************************************************************)
(* Changes and cancellations, for any number of subscriptions and changes, *)
(* one worker that asks and one that decides (they may be the same), any   *)
(* number of others, and crashes anywhere.                                 *)
(***************************************************************************)
EXTENDS Subscriptions, TLAPS

Wishes == Changes \cup {NoChange, Cancel, None}

Rows == [status : SubStatus, pending : Wishes, params : SUBSET Changes, group : BOOLEAN]

SubLocals == [sub : Subs \cup {0}, row : Rows, wish : Wishes, status : SubStatus]

Types ==
  /\ pc \in [Workers -> SubscriptionPC]
  /\ subs \in [Subs -> Rows]
  /\ subLoc \in [Workers -> SubLocals]

Asking   == {"ask_pending", "ask_status"}
Deciding == {"grant_apply", "refuse_clear", "decide_status"}

\* A worker that asks holds an active row, one that decides a row with a
\* pending status: the status is the lock between the two.  While they hold
\* it, the row is as they have loaded or written it.
AskFits(w, label, l) ==
  label \in Asking =>
    /\ Calls[w] \cap {"change", "cancel"} # {}
    /\ subs[l.sub].status = "active"
    /\ \/ l.status = "cancel_pending" /\ l.wish = Cancel
       \/ l.status = "change_pending" /\ l.wish \in Changes \cup {NoChange}
    /\ label = "ask_pending" => l.row.pending = subs[l.sub].pending
    /\ label = "ask_status" => subs[l.sub].pending = l.wish

DecideFits(w, label, l) ==
  label \in Deciding =>
    /\ Calls[w] \cap {"grant", "refuse"} # {}
    /\ subs[l.sub].status \in Pending
    /\ label # "decide_status" => l.status = "active" /\ l.row.pending = subs[l.sub].pending
    /\ label = "grant_apply" => l.row.params = subs[l.sub].params
                                /\ subs[l.sub].status = "change_pending"
    /\ label = "decide_status" =>
         \/ /\ l.status = "active"
            /\ subs[l.sub].status = "change_pending" => subs[l.sub].pending \in {None, NoChange}
         \/ l.status = "cancelled" /\ subs[l.sub].status = "cancel_pending"

Fits(w, label, l) ==
  /\ label # "idle" => l.sub \in Subs
  /\ AskFits(w, label, l)
  /\ DecideFits(w, label, l)

\* A row that fits its status.
RowFits(r) ==
  /\ r.status = "cancel_pending" => r.pending \in {Cancel, None}
  /\ r.status = "change_pending" => r.pending # Cancel
  /\ r.status = "absent" => r.params = {}

\* Nobody but w can tell row r from subscription s.
Unseen(w, s, r) ==
  \A v \in Workers \ {w} : pc[v] \in Asking \cup Deciding /\ subLoc[v].sub = s =>
    r.status = subs[s].status /\ r.pending = subs[s].pending /\ r.params = subs[s].params

NewIsEmpty == \A s \in Subs : subs[s].status = "absent" => subs[s].params = {}

SubInv ==
  /\ Types
  /\ PendingFitsStatus
  /\ NewIsEmpty
  /\ \A w \in Workers : Fits(w, pc[w], subLoc[w])

LEMMA SubInitInv == SubscriptionInit => SubInv
<1> SUFFICES ASSUME SubscriptionInit PROVE SubInv
  OBVIOUS
<1>1. NoSub \in Rows /\ NoSubLoc \in SubLocals
  BY DEF NoSub, NoSubLoc, Rows, SubLocals, Wishes, SubStatus
<1>2. Types /\ NewIsEmpty /\ PendingFitsStatus
  BY <1>1, SubscriptionAssumption DEF SubscriptionInit, PcInit, Types, SubscriptionPC,
     NewIsEmpty, PendingFitsStatus, NoSub
<1>3. \A w \in Workers : Fits(w, pc[w], subLoc[w])
  BY DEF SubscriptionInit, PcInit, Fits, AskFits, DecideFits, Asking, Deciding
<1> QED BY <1>2, <1>3 DEF SubInv

\* A worker moves on without a write.
LEMMA MoveStep ==
  ASSUME SubInv, NEW w \in Workers, NEW label \in SubscriptionPC, NEW l \in SubLocals,
         pc' = [pc EXCEPT ![w] = label], subLoc' = [subLoc EXCEPT ![w] = l],
         subs' = subs, Fits(w, label, l)
  PROVE  SubInv'
<1>1. Types' /\ PendingFitsStatus' /\ NewIsEmpty'
  BY DEF SubInv, Types, PendingFitsStatus, NewIsEmpty
<1>2. ASSUME NEW v \in Workers PROVE Fits(v, pc[v], subLoc[v])'
  <2>1. CASE v = w
    <3>1. pc'[v] = label /\ subLoc'[v] = l
      BY <2>1 DEF SubInv, Types
    <3> QED BY <2>1, <3>1 DEF Fits, AskFits, DecideFits
  <2>2. CASE v # w
    <3>1. pc'[v] = pc[v] /\ subLoc'[v] = subLoc[v]
      BY <2>2 DEF SubInv, Types
    <3> QED BY <3>1 DEF SubInv, Fits, AskFits, DecideFits
  <2> QED BY <2>1, <2>2
<1> QED BY <1>1, <1>2 DEF SubInv

\* A worker writes a row that nobody else has in hand and moves on.
LEMMA WriteStep ==
  ASSUME SubInv, NEW w \in Workers, NEW label \in SubscriptionPC, NEW l \in SubLocals,
         NEW s \in Subs, NEW r \in Rows,
         pc' = [pc EXCEPT ![w] = label], subLoc' = [subLoc EXCEPT ![w] = l],
         subs' = [subs EXCEPT ![s] = r],
         RowFits(r), Fits(w, label, l)', Unseen(w, s, r)
  PROVE  SubInv'
<1>1. /\ subs'[s] = r
      /\ \A t \in Subs \ {s} : subs'[t] = subs[t]
  BY DEF SubInv, Types
<1>2. Types'
  BY DEF SubInv, Types
<1>3. PendingFitsStatus' /\ NewIsEmpty'
  BY <1>1 DEF SubInv, PendingFitsStatus, NewIsEmpty, RowFits
<1>4. ASSUME NEW v \in Workers PROVE Fits(v, pc[v], subLoc[v])'
  <2>1. CASE v = w
    <3>1. pc'[v] = label /\ subLoc'[v] = l
      BY <2>1 DEF SubInv, Types
    <3> QED BY <2>1, <3>1 DEF Fits, AskFits, DecideFits
  <2>2. CASE v # w
    <3>1. pc'[v] = pc[v] /\ subLoc'[v] = subLoc[v] /\ Fits(v, pc[v], subLoc[v])
      BY <2>2 DEF SubInv, Types
    <3>2. pc[v] # "idle" => subLoc[v].sub \in Subs
      BY <3>1 DEF Fits
    <3>3. pc[v] \in Asking \cup Deciding =>
            /\ subs'[subLoc[v].sub].status = subs[subLoc[v].sub].status
            /\ subs'[subLoc[v].sub].pending = subs[subLoc[v].sub].pending
            /\ subs'[subLoc[v].sub].params = subs[subLoc[v].sub].params
      <4> SUFFICES ASSUME pc[v] \in Asking \cup Deciding
                   PROVE  /\ subs'[subLoc[v].sub].status = subs[subLoc[v].sub].status
                          /\ subs'[subLoc[v].sub].pending = subs[subLoc[v].sub].pending
                          /\ subs'[subLoc[v].sub].params = subs[subLoc[v].sub].params
        OBVIOUS
      <4>1. CASE subLoc[v].sub = s
        BY <4>1, <2>2, <1>1 DEF Unseen
      <4>2. CASE subLoc[v].sub # s
        BY <4>2, <1>1, <3>2 DEF Asking, Deciding
      <4> QED BY <4>1, <4>2
    <3> QED BY <3>1, <3>2, <3>3 DEF Fits, AskFits, DecideFits
  <2> QED BY <2>1, <2>2
<1> QED BY <1>2, <1>3, <1>4 DEF SubInv

\* Nobody decides on an active row, and nobody asks about a pending one.
LEMMA OneAtARow ==
  ASSUME SubInv, OneAsksOneDecides, NEW v \in Workers, NEW w \in Workers, v # w,
         pc[v] \in Asking \cup Deciding, pc[w] \in Asking \cup Deciding
  PROVE  subLoc[v].sub # subLoc[w].sub
<1>1. Fits(v, pc[v], subLoc[v]) /\ Fits(w, pc[w], subLoc[w])
  BY DEF SubInv
<1>2. CASE pc[v] \in Asking /\ pc[w] \in Asking
  BY <1>1, <1>2 DEF Fits, AskFits, OneAsksOneDecides
<1>3. CASE pc[v] \in Deciding /\ pc[w] \in Deciding
  BY <1>1, <1>3 DEF Fits, DecideFits, OneAsksOneDecides
<1>4. CASE pc[v] \in Asking /\ pc[w] \in Deciding
  BY <1>1, <1>4 DEF Fits, AskFits, DecideFits, Pending
<1>5. CASE pc[v] \in Deciding /\ pc[w] \in Asking
  BY <1>1, <1>5 DEF Fits, AskFits, DecideFits, Pending
<1> QED BY <1>2, <1>3, <1>4, <1>5

\* What a worker at work holds.
LEMMA AtWork ==
  ASSUME SubInv, NEW w \in Workers, pc[w] # "idle"
  PROVE  /\ subLoc[w] \in SubLocals /\ subLoc[w].sub \in Subs
         /\ subs[subLoc[w].sub] \in Rows
         /\ AskFits(w, pc[w], subLoc[w]) /\ DecideFits(w, pc[w], subLoc[w])
BY DEF SubInv, Types, Fits

\* The locals of an idle worker.
LEMMA IdleFits ==
  ASSUME NEW w \in Workers
  PROVE  /\ NoSubLoc \in SubLocals /\ "idle" \in SubscriptionPC
         /\ Fits(w, "idle", NoSubLoc)
BY DEF NoSubLoc, NoSub, SubLocals, Rows, Wishes, SubStatus, SubscriptionPC, Fits,
   AskFits, DecideFits, Asking, Deciding

\* A row that is neither active nor pending is in nobody's hands.
LEMMA NobodyHolds ==
  ASSUME SubInv, NEW s \in Subs, subs[s].status \notin Pending \cup {"active"},
         NEW v \in Workers, pc[v] \in Asking \cup Deciding
  PROVE  subLoc[v].sub # s
BY DEF SubInv, Fits, AskFits, DecideFits

(***************************************************************************)
(* Creation and activation                                                 *)
(***************************************************************************)
LEMMA CreateGroupsStep ==
  ASSUME SubInv, NEW w \in Workers, CreateGroups(w) PROVE SubInv'
<1> DEFINE l == [NoSubLoc EXCEPT !.sub = 1]
<1>1. 1 \in Subs
  BY SubscriptionAssumption DEF CreateGroups, Subs
<1>2. l \in SubLocals /\ l.sub = 1
  BY <1>1, IdleFits DEF SubLocals
<1>3. Fits(w, "sub_create", l)
  BY <1>1, <1>2 DEF Fits, AskFits, DecideFits, Asking, Deciding
<1> QED BY <1>2, <1>3, MoveStep DEF CreateGroups, Goto, Hold, SubscriptionPC

\* The next item's locals, or the end of the call.
LEMMA NextItemLocals ==
  ASSUME SubInv, NEW w \in Workers, pc[w] # "idle", NextItem(w)
  PROVE  \E label \in {"sub_create", "idle"}, l \in SubLocals :
           /\ pc' = [pc EXCEPT ![w] = label]
           /\ subLoc' = [subLoc EXCEPT ![w] = l]
           /\ label # "idle" => l.sub \in Subs
<1>1. CASE subLoc[w].sub < SubCount
  <2> DEFINE l == [NoSubLoc EXCEPT !.sub = subLoc[w].sub + 1]
  <2>1. subLoc[w].sub + 1 \in Subs
    BY <1>1, AtWork, SubscriptionAssumption DEF Subs
  <2>2. l \in SubLocals /\ l.sub \in Subs
    BY <2>1, IdleFits DEF SubLocals
  <2> QED BY <1>1, <2>2 DEF NextItem, Goto, Hold
<1>2. CASE ~(subLoc[w].sub < SubCount)
  BY <1>2, IdleFits DEF NextItem, EndSub, Reply, Goto, Hold
<1> QED BY <1>1, <1>2

LEMMA CreateSubStep ==
  ASSUME SubInv, NEW w \in Workers, CreateSub(w) PROVE SubInv'
<1> DEFINE s == subLoc[w].sub
           r == [NoSub EXCEPT !.status = "ordered"]
<1>1. pc[w] = "sub_create" /\ s \in Subs /\ subLoc[w] \in SubLocals
  BY AtWork DEF CreateSub, At
<1>2. CASE subs[s].status # "absent"
  BY <1>2, IdleFits, MoveStep DEF CreateSub, EndSub, Reply, Goto, Hold
<1>3. CASE subs[s].status = "absent"
  <2>1. r \in Rows /\ r.status = "ordered"
    BY DEF NoSub, Rows, SubStatus, Wishes
  <2>2. PICK label \in {"sub_create", "sub_assign", "idle"}, l \in SubLocals :
          /\ pc' = [pc EXCEPT ![w] = label]
          /\ subLoc' = [subLoc EXCEPT ![w] = l]
          /\ label # "idle" => l.sub \in Subs
    <3>1. CASE s \in Grouped
      <4>1. subLoc' = [subLoc EXCEPT ![w] = subLoc[w]]
        BY <1>3, <3>1 DEF CreateSub, SubInv, Types
      <4>2. pc' = [pc EXCEPT ![w] = "sub_assign"]
        BY <1>3, <3>1 DEF CreateSub, Goto
      <4> QED BY <1>1, <4>1, <4>2
    <3>2. CASE s \notin Grouped
      BY <1>1, <1>3, <3>2, NextItemLocals DEF CreateSub
    <3> QED BY <3>1, <3>2
  <2>3. subs' = [subs EXCEPT ![s] = r]
    BY <1>3 DEF CreateSub
  <2>4. Fits(w, label, l)'
    BY <2>2 DEF Fits, AskFits, DecideFits, Asking, Deciding
  <2>5. Unseen(w, s, r)
    BY <1>1, <1>3, NobodyHolds DEF Pending, Unseen
  <2>6. label \in SubscriptionPC
    BY DEF SubscriptionPC
  <2>7. RowFits(r)
    BY <2>1 DEF RowFits
  <2> HIDE DEF r, s
  <2> QED BY <1>1, <2>1, <2>2, <2>3, <2>4, <2>5, <2>6, <2>7, WriteStep
<1> QED BY <1>2, <1>3

LEMMA AssignStep ==
  ASSUME SubInv, NEW w \in Workers, AssignToGroup(w) PROVE SubInv'
<1> DEFINE s == subLoc[w].sub
           r == [subs[s] EXCEPT !.group = TRUE]
<1>1. pc[w] = "sub_assign" /\ s \in Subs /\ subs[s] \in Rows
  BY AtWork DEF AssignToGroup, At
<1>2. r \in Rows /\ r.status = subs[s].status /\ r.pending = subs[s].pending
      /\ r.params = subs[s].params
  BY <1>1 DEF Rows
<1>3. PICK label \in {"sub_create", "idle"}, l \in SubLocals :
        /\ pc' = [pc EXCEPT ![w] = label]
        /\ subLoc' = [subLoc EXCEPT ![w] = l]
        /\ label # "idle" => l.sub \in Subs
  BY <1>1, NextItemLocals DEF AssignToGroup
<1>4. subs' = [subs EXCEPT ![s] = r]
  BY DEF AssignToGroup
<1>5. Fits(w, label, l)'
  BY <1>3 DEF Fits, AskFits, DecideFits, Asking, Deciding
<1>6. label \in SubscriptionPC
  BY DEF SubscriptionPC
<1>7. RowFits(r)
  BY <1>1, <1>2 DEF SubInv, PendingFitsStatus, NewIsEmpty, RowFits
<1>8. Unseen(w, s, r)
  BY <1>2 DEF Unseen
<1> HIDE DEF r
<1> QED BY <1>1, <1>2, <1>3, <1>4, <1>5, <1>6, <1>7, <1>8, WriteStep

LEMMA ActivateStep ==
  ASSUME SubInv, NEW w \in Workers, NEW s \in Subs, Activate(w, s) PROVE SubInv'
<1> DEFINE r == [subs[s] EXCEPT !.status = "active"]
<1>1. /\ pc[w] = "idle" /\ subs[s] \in Rows /\ subs[s].status = "ordered"
      /\ subLoc[w] \in SubLocals
  BY DEF Activate, Begin, SubInv, Types
<1>2. r \in Rows /\ r.status = "active"
  BY <1>1 DEF Rows, SubStatus
<1> PICK l \in SubLocals : l = subLoc[w]
  BY <1>1
<1>3. /\ pc' = [pc EXCEPT ![w] = "idle"] /\ subLoc' = [subLoc EXCEPT ![w] = l]
      /\ subs' = [subs EXCEPT ![s] = r]
  BY <1>1 DEF Activate, SubInv, Types
<1>4. Fits(w, "idle", l)'
  BY DEF Fits, AskFits, DecideFits, Asking, Deciding
<1>5. Unseen(w, s, r)
  BY <1>1, NobodyHolds DEF Pending, Unseen
<1>6. "idle" \in SubscriptionPC
  BY DEF SubscriptionPC
<1>7. RowFits(r)
  BY <1>2 DEF RowFits
<1> HIDE DEF r
<1> QED BY <1>1, <1>2, <1>3, <1>4, <1>5, <1>6, <1>7, WriteStep

(***************************************************************************)
(* Asking                                                                  *)
(***************************************************************************)
LEMMA AskReadStep ==
  ASSUME SubInv, NEW w \in Workers, NEW s \in Subs,
         NEW call \in {"change", "cancel"}, NEW wish \in Wishes,
         IF call = "cancel" THEN wish = Cancel ELSE wish \in Changes \cup {NoChange},
         AskRead(w, s, call, wish)
  PROVE  SubInv'
<1> DEFINE st == IF call = "cancel" THEN "cancel_pending" ELSE "change_pending"
<1>1. /\ pc[w] = "idle" /\ call \in Calls[w] /\ subs[s].status = "active"
      /\ pc' = [pc EXCEPT ![w] = "ask_pending"] /\ subs' = subs
      /\ subs[s] \in Rows
  BY DEF AskRead, Begin, Goto, SubInv, Types
<1> PICK l \in SubLocals : l = [sub |-> s, row |-> subs[s], wish |-> wish, status |-> st]
  BY <1>1 DEF SubLocals, SubStatus
<1>2. subLoc' = [subLoc EXCEPT ![w] = l]
  BY DEF AskRead, Hold
<1>3. /\ l.sub = s /\ l.row = subs[s] /\ l.wish = wish /\ l.status = st
      /\ "ask_pending" \in SubscriptionPC
  BY DEF SubscriptionPC
<1>4. Fits(w, "ask_pending", l)
  BY <1>1, <1>3 DEF Fits, AskFits, DecideFits, Asking, Deciding
<1> QED BY <1>1, <1>2, <1>3, <1>4, MoveStep

LEMMA StorePendingStep ==
  ASSUME SubInv, OneAsksOneDecides, NEW w \in Workers, StorePending(w)
  PROVE  SubInv'
<1> PICK s \in Subs, l \in SubLocals : s = subLoc[w].sub /\ l = subLoc[w]
  BY AtWork DEF StorePending, At
<1>1. /\ pc[w] = "ask_pending" /\ subs[s] \in Rows
      /\ AskFits(w, "ask_pending", l)
  BY AtWork DEF StorePending, At
<1>2. /\ pc' = [pc EXCEPT ![w] = "ask_status"] /\ subLoc' = [subLoc EXCEPT ![w] = l]
      /\ "ask_status" \in SubscriptionPC
  BY DEF StorePending, Goto, SubInv, Types, SubscriptionPC
<1>3. /\ subs[s].status = "active" /\ Calls[w] \cap {"change", "cancel"} # {}
      /\ l.row.pending = subs[s].pending
      /\ \/ l.status = "cancel_pending" /\ l.wish = Cancel
         \/ l.status = "change_pending" /\ l.wish \in Changes \cup {NoChange}
  BY <1>1 DEF AskFits, Asking
<1>4. Written(l.row.pending, l.wish, subs[s].pending) = l.wish /\ l.wish \in Wishes
  BY <1>3 DEF Written, SubLocals
<1>5. PICK r \in Rows :
        /\ subs' = [subs EXCEPT ![s] = r]
        /\ r.status = "active" /\ r.pending = l.wish /\ r.params = subs[s].params
  <2> DEFINE r == [subs[s] EXCEPT !.pending = l.wish]
  <2>1. subs' = [subs EXCEPT ![s] = r]
    BY <1>4 DEF StorePending, SubInv, Types
  <2>2. r \in Rows /\ r.status = "active" /\ r.pending = l.wish /\ r.params = subs[s].params
    BY <1>1, <1>3, <1>4 DEF Rows
  <2> QED BY <2>1, <2>2
<1>6. subs'[s] = r
  BY <1>5 DEF SubInv, Types
<1>7. Fits(w, "ask_status", l)'
  BY <1>3, <1>5, <1>6 DEF Fits, AskFits, DecideFits, Asking, Deciding
<1>8. Unseen(w, s, r)
  BY <1>1, OneAtARow DEF Asking, Unseen
<1>9. RowFits(r)
  BY <1>5 DEF RowFits
<1> QED BY <1>2, <1>5, <1>7, <1>8, <1>9, WriteStep

LEMMA AskStatusStep ==
  ASSUME SubInv, OneAsksOneDecides, NEW w \in Workers, StoreStatus(w, "ask_status")
  PROVE  SubInv'
<1> PICK s \in Subs, l \in SubLocals : s = subLoc[w].sub /\ l = subLoc[w]
  BY AtWork DEF StoreStatus, At
<1> DEFINE r == [subs[s] EXCEPT !.status = l.status]
<1>1. /\ pc[w] = "ask_status" /\ subs[s] \in Rows
      /\ AskFits(w, "ask_status", l)
  BY AtWork DEF StoreStatus, At
<1>2. /\ pc' = [pc EXCEPT ![w] = "idle"] /\ subLoc' = [subLoc EXCEPT ![w] = NoSubLoc]
      /\ subs' = [subs EXCEPT ![s] = r]
  BY DEF StoreStatus, EndSub, Reply, Goto, Hold
<1>3. /\ subs[s].pending = l.wish
      /\ \/ l.status = "cancel_pending" /\ l.wish = Cancel
         \/ l.status = "change_pending" /\ l.wish \in Changes \cup {NoChange}
  BY <1>1 DEF AskFits, Asking
<1>4. r \in Rows /\ r.status = l.status /\ r.pending = l.wish
  BY <1>1, <1>3 DEF Rows, SubLocals
<1> HIDE DEF r
<1>5. Fits(w, "idle", NoSubLoc)'
  BY DEF Fits, AskFits, DecideFits, Asking, Deciding
<1>6. Unseen(w, s, r)
  BY <1>1, OneAtARow DEF Asking, Unseen
<1>7. RowFits(r)
  BY <1>3, <1>4, SubscriptionAssumption DEF RowFits
<1> QED BY <1>2, <1>4, <1>5, <1>6, <1>7, IdleFits, WriteStep

(***************************************************************************)
(* Deciding                                                                *)
(***************************************************************************)
LEMMA DecideReadStep ==
  ASSUME SubInv, NEW w \in Workers, NEW s \in Subs, GrantRead(w, s) \/ RefuseRead(w, s)
  PROVE  SubInv'
<1>1. /\ pc[w] = "idle" /\ Calls[w] \cap {"grant", "refuse"} # {}
      /\ subs[s].status \in Pending /\ subs' = subs /\ subs[s] \in Rows
  BY DEF GrantRead, RefuseRead, Begin, SubInv, Types
<1>2. PICK label \in {"grant_apply", "refuse_clear", "decide_status"},
           st \in {"active", "cancelled"} :
        /\ pc' = [pc EXCEPT ![w] = label]
        /\ subLoc' = [subLoc EXCEPT ![w] =
                        [NoSubLoc EXCEPT !.sub = s, !.row = subs[s], !.status = st]]
        /\ label # "decide_status" => st = "active"
        /\ label = "grant_apply" => subs[s].status = "change_pending"
        /\ label = "decide_status" => st = "cancelled" /\ subs[s].status = "cancel_pending"
  <2>1. CASE RefuseRead(w, s)
    BY <2>1 DEF RefuseRead, Goto, Hold
  <2>2. CASE GrantRead(w, s) /\ subs[s].status = "change_pending"
    BY <2>2 DEF GrantRead, Goto, Hold
  <2>3. CASE GrantRead(w, s) /\ subs[s].status # "change_pending"
    BY <1>1, <2>3 DEF GrantRead, Goto, Hold, Pending
  <2> QED BY <2>1, <2>2, <2>3
<1> PICK l \in SubLocals : l = [NoSubLoc EXCEPT !.sub = s, !.row = subs[s], !.status = st]
  BY <1>1, IdleFits DEF SubLocals, SubStatus
<1>3. l.sub = s /\ l.row = subs[s] /\ l.status = st
  BY IdleFits DEF SubLocals
<1>4. Fits(w, label, l)
  BY <1>1, <1>2, <1>3 DEF Fits, AskFits, DecideFits, Asking, Deciding
<1>5. label \in SubscriptionPC
  BY DEF SubscriptionPC
<1> QED BY <1>1, <1>2, <1>4, <1>5, MoveStep

\* Merging, clearing, or nothing: then the status is decided.
LEMMA ApplyStep ==
  ASSUME SubInv, OneAsksOneDecides, NEW w \in Workers,
         ApplyPending(w) \/ ClearPending(w)
  PROVE  SubInv'
<1> PICK s \in Subs, l \in SubLocals : s = subLoc[w].sub /\ l = subLoc[w]
  BY AtWork DEF ApplyPending, ClearPending, At
<1>1. /\ pc[w] \in {"grant_apply", "refuse_clear"} /\ subs[s] \in Rows
      /\ DecideFits(w, pc[w], l)
      /\ pc' = [pc EXCEPT ![w] = "decide_status"] /\ subLoc' = [subLoc EXCEPT ![w] = l]
      /\ "decide_status" \in SubscriptionPC
  BY AtWork DEF ApplyPending, ClearPending, At, Goto, SubInv, Types, SubscriptionPC
<1>2. /\ Calls[w] \cap {"grant", "refuse"} # {} /\ subs[s].status \in Pending
      /\ l.status = "active" /\ l.row.pending = subs[s].pending
      /\ pc[w] = "grant_apply" => l.row.params = subs[s].params
                                  /\ subs[s].status = "change_pending"
  BY <1>1 DEF DecideFits, Deciding
<1>3. PICK r \in Rows :
        /\ subs' = [subs EXCEPT ![s] = r]
        /\ r.status = subs[s].status
        /\ r.pending \in {None, subs[s].pending}
        /\ r.status = "change_pending" => r.pending \in {None, NoChange}
  <2>1. CASE ApplyPending(w) /\ l.row.pending \in {None, NoChange}
    <3>1. subs' = [subs EXCEPT ![s] = subs[s]]
      BY <2>1 DEF ApplyPending, SubInv, Types
    <3> QED BY <1>1, <1>2, <2>1, <3>1
  <2>2. CASE ApplyPending(w) /\ l.row.pending \notin {None, NoChange}
    <3> DEFINE r == [subs[s] EXCEPT !.params = l.row.params \cup {l.row.pending},
                                    !.pending = None]
    <3>1. subs' = [subs EXCEPT ![s] = r]
      BY <2>2 DEF ApplyPending, SubInv, Types
    <3>2. subs[s].status = "change_pending" /\ subs[s].pending # Cancel
      BY <1>2, <2>2 DEF ApplyPending, At, SubInv, PendingFitsStatus
    <3>3. l.row.params \cup {l.row.pending} \in SUBSET Changes
      BY <1>1, <1>2, <2>2, <3>2 DEF ApplyPending, At, Rows, Wishes
    <3>4. r \in Rows /\ r.status = subs[s].status /\ r.pending = None
      BY <1>1, <3>3 DEF Rows, Wishes
    <3> QED BY <3>1, <3>4
  <2>3. CASE ClearPending(w)
    <3> DEFINE r == [subs[s] EXCEPT !.pending = Written(l.row.pending, None, subs[s].pending)]
    <3>1. subs' = [subs EXCEPT ![s] = r]
      BY <2>3 DEF ClearPending, SubInv, Types
    <3>2. Written(l.row.pending, None, subs[s].pending) = None
      BY <1>2 DEF Written
    <3>3. r \in Rows /\ r.status = subs[s].status /\ r.pending = None
      BY <1>1, <3>2 DEF Rows, Wishes
    <3> QED BY <3>1, <3>3
  <2> QED BY <2>1, <2>2, <2>3
<1>4. subs'[s] = r
  BY <1>3 DEF SubInv, Types
<1>5. Fits(w, "decide_status", l)'
  BY <1>2, <1>3, <1>4 DEF Fits, AskFits, DecideFits, Asking, Deciding
<1>6. Unseen(w, s, r)
  BY <1>1, OneAtARow DEF Deciding, Unseen
<1>7. RowFits(r)
  BY <1>2, <1>3, SubscriptionAssumption DEF SubInv, PendingFitsStatus, Pending, RowFits
<1> QED BY <1>1, <1>3, <1>5, <1>6, <1>7, WriteStep

LEMMA DecideStatusStep ==
  ASSUME SubInv, OneAsksOneDecides, NEW w \in Workers, StoreStatus(w, "decide_status")
  PROVE  SubInv'
<1> PICK s \in Subs, l \in SubLocals : s = subLoc[w].sub /\ l = subLoc[w]
  BY AtWork DEF StoreStatus, At
<1>1. /\ pc[w] = "decide_status" /\ subs[s] \in Rows
      /\ DecideFits(w, "decide_status", l)
  BY AtWork DEF StoreStatus, At
<1>2. /\ pc' = [pc EXCEPT ![w] = "idle"] /\ subLoc' = [subLoc EXCEPT ![w] = NoSubLoc]
  BY DEF StoreStatus, EndSub, Reply, Goto, Hold
<1>3. l.status \in {"active", "cancelled"}
  BY <1>1 DEF DecideFits, Deciding
<1>4. PICK r \in Rows : subs' = [subs EXCEPT ![s] = r] /\ r.status = l.status
  <2> DEFINE r == [subs[s] EXCEPT !.status = l.status]
  <2>1. subs' = [subs EXCEPT ![s] = r]
    BY DEF StoreStatus, SubInv, Types
  <2>2. r \in Rows /\ r.status = l.status
    BY <1>1, <1>3 DEF Rows, SubStatus
  <2> QED BY <2>1, <2>2
<1>5. Fits(w, "idle", NoSubLoc)'
  BY DEF Fits, AskFits, DecideFits, Asking, Deciding
<1>6. Unseen(w, s, r)
  BY <1>1, OneAtARow DEF Deciding, Unseen
<1>7. RowFits(r)
  BY <1>3, <1>4 DEF RowFits
<1> QED BY <1>2, <1>4, <1>5, <1>6, <1>7, IdleFits, WriteStep

(***************************************************************************)
(* Every step                                                              *)
(***************************************************************************)
LEMMA SubNextInv ==
  ASSUME OneAsksOneDecides
  PROVE  SubInv /\ [SubscriptionNext]_subVars => SubInv'
<1> SUFFICES ASSUME SubInv, [SubscriptionNext]_subVars PROVE SubInv'
  OBVIOUS
<1>1. ASSUME NEW w \in Workers, NEW s \in Subs, NEW c \in Changes \cup {NoChange},
             RequestChange(w, s, c)
      PROVE  SubInv'
  BY <1>1, AskReadStep DEF RequestChange, Wishes
<1>2. ASSUME NEW w \in Workers, NEW s \in Subs, RequestCancel(w, s)
      PROVE  SubInv'
  BY <1>2, AskReadStep DEF RequestCancel, Wishes
<1>3. ASSUME NEW w \in Workers, SubCrash(w) PROVE SubInv'
  BY <1>3, IdleFits, MoveStep DEF SubCrash, EndSub, Reply, Goto, Hold
<1>4. ASSUME UNCHANGED subVars PROVE SubInv'
  BY <1>4 DEF subVars, SubInv, Types, PendingFitsStatus, NewIsEmpty, Fits, AskFits,
     DecideFits
<1> QED BY <1>1, <1>2, <1>3, <1>4, CreateGroupsStep, CreateSubStep, AssignStep,
           ActivateStep, StorePendingStep, AskStatusStep, DecideReadStep, ApplyStep,
           DecideStatusStep DEF SubscriptionNext

\* The reason of a cancellation never becomes a parameter, however many
\* subscriptions there are: provided one worker asks and one decides, which
\* several worker processes do not guarantee.
THEOREM ReasonStaysOut ==
  ASSUME OneAsksOneDecides
  PROVE  SubscriptionSpec => []CancelReasonStaysOut
<1>1. SubInv => CancelReasonStaysOut
  BY SubscriptionAssumption DEF SubInv, Types, Rows, CancelReasonStaysOut
<1>2. SubscriptionInit => SubInv
  BY SubInitInv
<1>3. SubInv /\ [SubscriptionNext]_subVars => SubInv'
  BY SubNextInv
<1> QED BY <1>1, <1>2, <1>3, PTL DEF SubscriptionSpec

(***************************************************************************)
(* The calls implement SubscriptionLifecycle                               *)
(***************************************************************************)
SeenRow(r) ==
  CASE r.status = "change_pending" -> IF r.pending = None THEN "active" ELSE "changing"
    [] r.status = "cancel_pending" -> "cancelling"
    [] r.status = "cancelled" -> "over"
    [] OTHER -> r.status

WishRow(r) == IF SeenRow(r) = "changing" THEN r.pending ELSE None

States   == [s \in Subs |-> StateSeen(s)]
WishesIn == [s \in Subs |-> IF StateSeen(s) = "changing" THEN subs[s].pending ELSE None]
Granted  == [s \in Subs |-> subs[s].params]

Seen == <<States, WishesIn, Granted>>

\* What is seen of each row.
LEMMA SeenRows ==
  ASSUME NEW s \in Subs
  PROVE  /\ States[s] = SeenRow(subs[s])
         /\ WishesIn[s] = WishRow(subs[s])
         /\ Granted[s] = subs[s].params
BY DEF States, WishesIn, Granted, StateSeen, SeenRow, WishRow

\* Statuses and what is seen of them.
LEMMA SeenStatuses ==
  ASSUME NEW r
  PROVE  /\ r.status = "change_pending" => SeenRow(r) = IF r.pending = None THEN "active"
                                                                          ELSE "changing"
         /\ r.status = "cancel_pending" => SeenRow(r) = "cancelling"
         /\ r.status = "cancelled" => SeenRow(r) = "over"
         /\ r.status \in {"absent", "ordered", "active"} => SeenRow(r) = r.status
         /\ SeenRow(r) # "changing" => WishRow(r) = None
         /\ SeenRow(r) = "changing" => WishRow(r) = r.pending
BY DEF SeenRow, WishRow

\* Nothing is seen of a step that writes nothing.
LEMMA NothingSeen == ASSUME subs' = subs PROVE UNCHANGED Seen
BY DEF Seen, States, WishesIn, Granted, StateSeen

\* Writing a value that is there already.
LEMMA SameValue ==
  /\ \A s \in Subs : [States EXCEPT ![s] = States[s]] = States
  /\ \A s \in Subs : [WishesIn EXCEPT ![s] = WishesIn[s]] = WishesIn
  /\ \A s \in Subs : [Granted EXCEPT ![s] = Granted[s]] = Granted
<1>1. \A f : f = [t \in Subs |-> f[t]] => \A s \in Subs : [f EXCEPT ![s] = f[s]] = f
  OBVIOUS
<1>2. States = [t \in Subs |-> States[t]]
  BY DEF States
<1>3. WishesIn = [t \in Subs |-> WishesIn[t]]
  BY DEF WishesIn
<1>4. Granted = [t \in Subs |-> Granted[t]]
  BY DEF Granted
<1> QED BY <1>1, <1>2, <1>3, <1>4

\* A write to one row is seen there and nowhere else.
LEMMA OneRowSeen ==
  ASSUME Types, NEW s \in Subs, NEW r \in Rows, subs' = [subs EXCEPT ![s] = r]
  PROVE  /\ States' = [States EXCEPT ![s] = SeenRow(r)]
         /\ WishesIn' = [WishesIn EXCEPT ![s] = WishRow(r)]
         /\ Granted' = [Granted EXCEPT ![s] = r.params]
<1>1. /\ subs'[s] = r
      /\ \A t \in Subs \ {s} : subs'[t] = subs[t]
  BY DEF Types
<1>2. /\ StateSeen(s)' = SeenRow(r)
      /\ \A t \in Subs \ {s} : StateSeen(t)' = StateSeen(t)
  <2>1. \A t \in Subs : StateSeen(t) = SeenRow(subs[t])
    BY DEF StateSeen, SeenRow
  <2>2. \A t \in Subs : StateSeen(t)' = SeenRow(subs'[t])
    BY DEF StateSeen, SeenRow
  <2> QED BY <1>1, <2>1, <2>2
<1>3. States' = [States EXCEPT ![s] = SeenRow(r)]
  BY <1>2 DEF States
<1>4. WishesIn' = [WishesIn EXCEPT ![s] = WishRow(r)]
  <2>1. \A t \in Subs : WishRow(subs[t]) = IF StateSeen(t) = "changing" THEN subs[t].pending
                                                                        ELSE None
    BY DEF StateSeen, SeenRow, WishRow
  <2>2. WishRow(r) = IF StateSeen(s)' = "changing" THEN subs'[s].pending ELSE None
    BY <1>1, <1>2 DEF WishRow
  <2> QED BY <1>1, <1>2, <2>1, <2>2 DEF WishesIn
<1>5. Granted' = [Granted EXCEPT ![s] = r.params]
  <2>1. Granted' = [t \in Subs |-> IF t = s THEN r.params ELSE subs[t].params]
    BY <1>1 DEF Granted
  <2> QED BY <2>1 DEF Granted
<1> QED BY <1>3, <1>4, <1>5

\* A row that looks as before.
LEMMA LooksTheSame ==
  ASSUME Types, NEW s \in Subs, NEW r \in Rows, subs' = [subs EXCEPT ![s] = r],
         SeenRow(r) = SeenRow(subs[s]), WishRow(r) = WishRow(subs[s]),
         r.params = subs[s].params
  PROVE  UNCHANGED Seen
<1>1. /\ States' = [States EXCEPT ![s] = States[s]]
      /\ WishesIn' = [WishesIn EXCEPT ![s] = WishesIn[s]]
      /\ Granted' = [Granted EXCEPT ![s] = Granted[s]]
  <2>1. /\ States' = [States EXCEPT ![s] = SeenRow(r)]
        /\ WishesIn' = [WishesIn EXCEPT ![s] = WishRow(r)]
        /\ Granted' = [Granted EXCEPT ![s] = r.params]
    BY OneRowSeen
  <2>2. States[s] = SeenRow(r) /\ WishesIn[s] = WishRow(r) /\ Granted[s] = r.params
    BY SeenRows
  <2> QED BY <2>1, <2>2
<1> QED BY <1>1, SameValue DEF Seen

\* A row that moves from one state to another; its wish and its granted
\* changes, if they stay.
LEMMA Moves ==
  ASSUME Types, NEW s \in Subs, NEW r \in Rows, subs' = [subs EXCEPT ![s] = r]
  PROVE  States[s] = SeenRow(subs[s]) /\ States' = [States EXCEPT ![s] = SeenRow(r)]
BY OneRowSeen, SeenRows

LEMMA WishStays ==
  ASSUME Types, NEW s \in Subs, NEW r \in Rows, subs' = [subs EXCEPT ![s] = r],
         WishRow(r) = WishRow(subs[s])
  PROVE  WishesIn' = WishesIn
<1>1. WishesIn' = [WishesIn EXCEPT ![s] = WishRow(r)]
  BY OneRowSeen
<1>2. WishesIn[s] = WishRow(subs[s])
  BY SeenRows
<1> QED BY <1>1, <1>2, SameValue

LEMMA GrantedStays ==
  ASSUME Types, NEW s \in Subs, NEW r \in Rows, subs' = [subs EXCEPT ![s] = r],
         r.params = subs[s].params
  PROVE  Granted' = Granted
<1>1. Granted' = [Granted EXCEPT ![s] = r.params]
  BY OneRowSeen
<1>2. Granted[s] = subs[s].params
  BY SeenRows
<1> QED BY <1>1, <1>2, SameValue

\* Abstract steps in terms of what is seen.
LEMMA SeenOrder ==
  ASSUME NEW s \in Subs, States[s] = "absent",
         States' = [States EXCEPT ![s] = "ordered"],
         WishesIn' = WishesIn,
         Granted' = Granted
  PROVE  Lifecycle!Order(s)
BY DEF States, WishesIn, Granted, Lifecycle!Order, Lifecycle!Move

LEMMA SeenActivate ==
  ASSUME NEW s \in Subs, States[s] = "ordered",
         States' = [States EXCEPT ![s] = "active"],
         WishesIn' = WishesIn,
         Granted' = Granted
  PROVE  Lifecycle!Activate(s)
BY DEF States, WishesIn, Granted, Lifecycle!Activate, Lifecycle!Move

LEMMA SeenAskCancel ==
  ASSUME NEW s \in Subs, States[s] = "active",
         States' = [States EXCEPT ![s] = "cancelling"],
         WishesIn' = WishesIn,
         Granted' = Granted
  PROVE  Lifecycle!AskCancel(s)
BY DEF States, WishesIn, Granted, Lifecycle!AskCancel, Lifecycle!Move

LEMMA SeenGrantCancel ==
  ASSUME NEW s \in Subs, States[s] = "cancelling",
         States' = [States EXCEPT ![s] = "over"],
         WishesIn' = WishesIn,
         Granted' = Granted
  PROVE  Lifecycle!GrantCancel(s)
BY DEF States, WishesIn, Granted, Lifecycle!GrantCancel, Lifecycle!Move

LEMMA SeenAskChange ==
  ASSUME NEW s \in Subs, NEW c \in Changes \cup {NoChange}, States[s] = "active",
         States' = [States EXCEPT ![s] = "changing"],
         WishesIn' = [WishesIn EXCEPT ![s] = c],
         Granted' = Granted
  PROVE  Lifecycle!AskChange(s, c)
BY DEF States, WishesIn, Granted, Lifecycle!AskChange, Lifecycle!Move

LEMMA SeenGrantChange ==
  ASSUME NEW s \in Subs, States[s] = "changing",
         States' = [States EXCEPT ![s] = "active"],
         WishesIn' = [WishesIn EXCEPT ![s] = None],
         Granted' = [Granted EXCEPT ![s] = Granted[s] \cup ({WishesIn[s]} \ {NoChange})]
  PROVE  Lifecycle!GrantChange(s)
BY DEF States, WishesIn, Granted, Lifecycle!GrantChange, Lifecycle!Move

LEMMA SeenRefuse ==
  ASSUME NEW s \in Subs, States[s] \in {"changing", "cancelling"},
         States' = [States EXCEPT ![s] = "active"],
         WishesIn' = [WishesIn EXCEPT ![s] = None],
         Granted' = Granted
  PROVE  Lifecycle!Refuse(s)
BY DEF States, WishesIn, Granted, Lifecycle!Refuse, Lifecycle!Move

LEMMA CreateSeen ==
  ASSUME SubInv, NEW w \in Workers, CreateSub(w)
  PROVE  Lifecycle!ALNext \/ UNCHANGED Seen
<1> DEFINE s == subLoc[w].sub
           r == [NoSub EXCEPT !.status = "ordered"]
<1>1. pc[w] = "sub_create" /\ s \in Subs
  BY AtWork DEF CreateSub, At
<1>2. CASE subs[s].status # "absent"
  BY <1>2, NothingSeen DEF CreateSub
<1>3. CASE subs[s].status = "absent"
  <2>1. r \in Rows /\ r.status = "ordered" /\ r.params = {}
    BY DEF NoSub, Rows, SubStatus, Wishes
  <2>2. subs' = [subs EXCEPT ![s] = r] /\ subs[s].params = {}
    BY <1>1, <1>3 DEF CreateSub, SubInv, NewIsEmpty
  <2>3. /\ SeenRow(r) = "ordered" /\ SeenRow(subs[s]) = "absent"
        /\ WishRow(r) = None /\ WishRow(subs[s]) = None
    BY <1>3, <2>1, SeenStatuses
  <2> HIDE DEF r, s
  <2>4. Types /\ r.params = subs[s].params /\ WishRow(r) = WishRow(subs[s])
    BY <2>1, <2>2, <2>3 DEF SubInv
  <2>5. States[s] = "absent" /\ States' = [States EXCEPT ![s] = "ordered"]
    <3>1. States[s] = SeenRow(subs[s]) /\ States' = [States EXCEPT ![s] = SeenRow(r)]
      BY <1>1, <2>1, <2>2, <2>4, Moves
    <3> QED BY <3>1, <2>3
  <2>6. WishesIn' = WishesIn /\ Granted' = Granted
    BY <1>1, <2>1, <2>2, <2>4, WishStays, GrantedStays
  <2>7. Lifecycle!Order(s)
    BY <1>1, <2>5, <2>6, SeenOrder
  <2> QED BY <1>1, <2>7 DEF Lifecycle!ALNext
<1> QED BY <1>2, <1>3

LEMMA AssignSeen ==
  ASSUME SubInv, NEW w \in Workers, AssignToGroup(w)
  PROVE  UNCHANGED Seen
<1> DEFINE s == subLoc[w].sub
           r == [subs[s] EXCEPT !.group = TRUE]
<1>1. s \in Subs /\ subs[s] \in Rows
  BY AtWork DEF AssignToGroup, At
<1>2. r \in Rows /\ r.status = subs[s].status /\ r.pending = subs[s].pending
      /\ r.params = subs[s].params
  BY <1>1 DEF Rows
<1>3. SeenRow(r) = SeenRow(subs[s])
  BY <1>2 DEF SeenRow
<1>4. WishRow(r) = WishRow(subs[s])
  BY <1>2, <1>3 DEF WishRow
<1>5. subs' = [subs EXCEPT ![s] = r]
  BY DEF AssignToGroup
<1> QED BY <1>1, <1>2, <1>3, <1>4, <1>5, LooksTheSame DEF SubInv

LEMMA ActivateSeen ==
  ASSUME SubInv, NEW w \in Workers, NEW s \in Subs, Activate(w, s)
  PROVE  Lifecycle!ALNext
<1> DEFINE r == [subs[s] EXCEPT !.status = "active"]
<1>1. subs[s] \in Rows /\ subs[s].status = "ordered" /\ subs' = [subs EXCEPT ![s] = r]
  BY DEF Activate, SubInv, Types
<1>2. r \in Rows /\ r.status = "active" /\ r.params = subs[s].params
  BY <1>1 DEF Rows, SubStatus
<1>3. /\ SeenRow(r) = "active" /\ SeenRow(subs[s]) = "ordered"
      /\ WishRow(r) = None /\ WishRow(subs[s]) = None
  BY <1>1, <1>2, SeenStatuses
<1> HIDE DEF r
<1>4. Types /\ WishRow(r) = WishRow(subs[s])
  BY <1>3 DEF SubInv
<1>5. States[s] = "ordered" /\ States' = [States EXCEPT ![s] = "active"]
  <2>1. States[s] = SeenRow(subs[s]) /\ States' = [States EXCEPT ![s] = SeenRow(r)]
    BY <1>1, <1>2, <1>4, Moves
  <2> QED BY <2>1, <1>3
<1>6. WishesIn' = WishesIn /\ Granted' = Granted
  BY <1>1, <1>2, <1>4, WishStays, GrantedStays
<1>7. Lifecycle!Activate(s)
  BY <1>5, <1>6, SeenActivate
<1> QED BY <1>7 DEF Lifecycle!ALNext

LEMMA StorePendingSeen ==
  ASSUME SubInv, NEW w \in Workers, StorePending(w)
  PROVE  UNCHANGED Seen
<1> DEFINE s == subLoc[w].sub
           l == subLoc[w]
           p == Written(l.row.pending, l.wish, subs[s].pending)
           r == [subs[s] EXCEPT !.pending = p]
<1>1. /\ s \in Subs /\ subs[s] \in Rows /\ l \in SubLocals
      /\ AskFits(w, "ask_pending", l)
  BY AtWork DEF StorePending, At
<1>2. subs[s].status = "active" /\ p \in Wishes
  BY <1>1 DEF AskFits, Asking, Written, SubLocals, Rows
<1>3. r \in Rows /\ r.status = "active" /\ r.params = subs[s].params
  BY <1>1, <1>2 DEF Rows
<1>4. subs' = [subs EXCEPT ![s] = r]
  BY <1>1 DEF StorePending, SubInv, Types
<1>5. /\ SeenRow(r) = "active" /\ SeenRow(subs[s]) = "active"
      /\ WishRow(r) = None /\ WishRow(subs[s]) = None
  BY <1>2, <1>3, SeenStatuses
<1> HIDE DEF r
<1> QED BY <1>1, <1>3, <1>4, <1>5, LooksTheSame DEF SubInv

LEMMA AskStatusSeen ==
  ASSUME SubInv, NEW w \in Workers, StoreStatus(w, "ask_status")
  PROVE  Lifecycle!ALNext
<1> DEFINE s == subLoc[w].sub
           l == subLoc[w]
           r == [subs[s] EXCEPT !.status = l.status]
<1>1. /\ s \in Subs /\ subs[s] \in Rows /\ l \in SubLocals
      /\ AskFits(w, "ask_status", l)
  BY AtWork DEF StoreStatus, At
<1>2. /\ subs[s].status = "active" /\ subs[s].pending = l.wish
      /\ \/ l.status = "cancel_pending" /\ l.wish = Cancel
         \/ l.status = "change_pending" /\ l.wish \in Changes \cup {NoChange}
  BY <1>1 DEF AskFits, Asking
<1>3. /\ r \in Rows /\ r.status = l.status /\ r.pending = l.wish /\ r.params = subs[s].params
  BY <1>1, <1>2 DEF Rows, SubLocals
<1>4. subs' = [subs EXCEPT ![s] = r]
  BY DEF StoreStatus
<1>5. SeenRow(subs[s]) = "active" /\ WishRow(subs[s]) = None
  BY <1>2, SeenStatuses
<1> HIDE DEF r
<1>6. CASE l.status = "cancel_pending"
  <2>1. SeenRow(r) = "cancelling" /\ WishRow(r) = None
    BY <1>3, <1>6, SeenStatuses
  <2>2. Types /\ WishRow(r) = WishRow(subs[s])
    BY <1>5, <2>1 DEF SubInv
  <2>3. States[s] = "active" /\ States' = [States EXCEPT ![s] = "cancelling"]
    <3>1. States[s] = SeenRow(subs[s]) /\ States' = [States EXCEPT ![s] = SeenRow(r)]
      BY <1>1, <1>3, <1>4, <2>2, Moves
    <3> QED BY <3>1, <1>5, <2>1
  <2>4. WishesIn' = WishesIn /\ Granted' = Granted
    BY <1>1, <1>3, <1>4, <2>2, WishStays, GrantedStays
  <2>5. Lifecycle!AskCancel(s)
    BY <1>1, <2>3, <2>4, SeenAskCancel
  <2> QED BY <1>1, <2>5 DEF Lifecycle!ALNext
<1>7. CASE l.status = "change_pending"
  <2>1. l.wish \in Changes \cup {NoChange} /\ l.wish # None
    BY <1>2, <1>7, SubscriptionAssumption
  <2>2. SeenRow(r) = "changing" /\ WishRow(r) = l.wish
    BY <1>3, <1>7, <2>1, SeenStatuses
  <2>3. Types
    BY DEF SubInv
  <2>4. States[s] = "active" /\ States' = [States EXCEPT ![s] = "changing"]
    <3>1. States[s] = SeenRow(subs[s]) /\ States' = [States EXCEPT ![s] = SeenRow(r)]
      BY <1>1, <1>3, <1>4, <2>3, Moves
    <3> QED BY <3>1, <1>5, <2>2
  <2>5. WishesIn' = [WishesIn EXCEPT ![s] = l.wish]
    BY <1>1, <1>3, <1>4, <2>2, <2>3, OneRowSeen
  <2>6. Granted' = Granted
    BY <1>1, <1>3, <1>4, <2>3, GrantedStays
  <2> PICK c \in Changes \cup {NoChange} : c = l.wish
    BY <2>1
  <2>7. WishesIn' = [WishesIn EXCEPT ![s] = c]
    BY <2>5
  <2> HIDE DEF s, l
  <2>8. Lifecycle!AskChange(s, c)
    BY <1>1, <2>4, <2>6, <2>7, SeenAskChange
  <2> QED BY <1>1, <2>8 DEF Lifecycle!ALNext
<1> QED BY <1>2, <1>6, <1>7

LEMMA ApplySeen ==
  ASSUME SubInv, NEW w \in Workers, ApplyPending(w)
  PROVE  Lifecycle!ALNext \/ UNCHANGED Seen
<1> DEFINE s == subLoc[w].sub
           l == subLoc[w]
           r == [subs[s] EXCEPT !.params = l.row.params \cup {l.row.pending},
                                !.pending = None]
<1>1. /\ s \in Subs /\ subs[s] \in Rows /\ l \in SubLocals
      /\ DecideFits(w, "grant_apply", l)
  BY AtWork DEF ApplyPending, At
<1>2. /\ l.row.pending = subs[s].pending /\ l.row.params = subs[s].params
      /\ subs[s].status = "change_pending"
  BY <1>1 DEF DecideFits, Deciding
<1>3. CASE l.row.pending \in {None, NoChange}
  BY <1>3, NothingSeen DEF ApplyPending
<1>4. CASE l.row.pending \notin {None, NoChange}
  <2>1. subs' = [subs EXCEPT ![s] = r]
    BY <1>4 DEF ApplyPending, SubInv, Types
  <2>2. subs[s].pending \in Changes
    BY <1>1, <1>2, <1>4 DEF Rows, Wishes, SubInv, PendingFitsStatus
  <2>3. /\ r \in Rows /\ r.status = "change_pending" /\ r.pending = None
        /\ r.params = subs[s].params \cup {subs[s].pending}
    BY <1>1, <1>2, <2>2 DEF Rows, Wishes
  <2>4. /\ SeenRow(subs[s]) = "changing" /\ WishRow(subs[s]) = subs[s].pending
        /\ SeenRow(r) = "active" /\ WishRow(r) = None
    BY <1>2, <1>4, <2>3, SeenStatuses
  <2>5. Types
    BY DEF SubInv
  <2> HIDE DEF r
  <2>6. States[s] = "changing" /\ States' = [States EXCEPT ![s] = "active"]
    <3>1. States[s] = SeenRow(subs[s]) /\ States' = [States EXCEPT ![s] = SeenRow(r)]
      BY <1>1, <2>1, <2>3, <2>5, Moves
    <3> QED BY <3>1, <2>4
  <2>7. WishesIn' = [WishesIn EXCEPT ![s] = None]
    <3>1. WishesIn' = [WishesIn EXCEPT ![s] = WishRow(r)]
      BY <1>1, <2>1, <2>3, <2>5, OneRowSeen
    <3> QED BY <3>1, <2>4
  <2>8. Granted' = [Granted EXCEPT ![s] = Granted[s] \cup ({WishesIn[s]} \ {NoChange})]
    <3>1. Granted' = [Granted EXCEPT ![s] = r.params]
      BY <1>1, <2>1, <2>3, <2>5, OneRowSeen
    <3>2. Granted[s] = subs[s].params /\ WishesIn[s] = subs[s].pending
      BY <1>1, <2>4, SeenRows
    <3>3. r.params = Granted[s] \cup ({WishesIn[s]} \ {NoChange})
      BY <1>2, <1>4, <2>3, <3>2
    <3> QED BY <3>1, <3>3
  <2> PICK x \in Subs : x = s
    BY <1>1
  <2>9. /\ States[x] = "changing" /\ States' = [States EXCEPT ![x] = "active"]
        /\ WishesIn' = [WishesIn EXCEPT ![x] = None]
        /\ Granted' = [Granted EXCEPT ![x] = Granted[x] \cup ({WishesIn[x]} \ {NoChange})]
    BY <2>6, <2>7, <2>8
  <2>10. Lifecycle!GrantChange(x)
    BY <2>9, SeenGrantChange
  <2> QED BY <2>10 DEF Lifecycle!ALNext
<1> QED BY <1>3, <1>4

LEMMA ClearSeen ==
  ASSUME SubInv, NEW w \in Workers, ClearPending(w)
  PROVE  Lifecycle!ALNext \/ UNCHANGED Seen
<1> DEFINE s == subLoc[w].sub
           l == subLoc[w]
           r == [subs[s] EXCEPT !.pending = None]
<1>1. /\ s \in Subs /\ subs[s] \in Rows /\ l \in SubLocals
      /\ DecideFits(w, "refuse_clear", l)
  BY AtWork DEF ClearPending, At
<1>2. l.row.pending = subs[s].pending /\ subs[s].status \in Pending
  BY <1>1 DEF DecideFits, Deciding
<1>3. Written(l.row.pending, None, subs[s].pending) = None
  BY <1>2 DEF Written
<1>4. subs' = [subs EXCEPT ![s] = r]
  BY <1>3 DEF ClearPending, SubInv, Types
<1>5. /\ r \in Rows /\ r.status = subs[s].status /\ r.pending = None
      /\ r.params = subs[s].params
  BY <1>1 DEF Rows, Wishes
<1>6. Types
  BY DEF SubInv
<1> HIDE DEF r
<1>7. CASE subs[s].status = "change_pending" /\ subs[s].pending # None
  <2>1. /\ SeenRow(subs[s]) = "changing"
        /\ SeenRow(r) = "active" /\ WishRow(r) = None
    BY <1>5, <1>7, SeenStatuses
  <2>2. States[s] = "changing" /\ States' = [States EXCEPT ![s] = "active"]
    <3>1. States[s] = SeenRow(subs[s]) /\ States' = [States EXCEPT ![s] = SeenRow(r)]
      BY <1>1, <1>4, <1>5, <1>6, Moves
    <3> QED BY <3>1, <2>1
  <2>3. WishesIn' = [WishesIn EXCEPT ![s] = None]
    <3>1. WishesIn' = [WishesIn EXCEPT ![s] = WishRow(r)]
      BY <1>1, <1>4, <1>5, <1>6, OneRowSeen
    <3> QED BY <3>1, <2>1
  <2>4. Granted' = Granted
    BY <1>1, <1>4, <1>5, <1>6, GrantedStays
  <2> PICK x \in Subs : x = s
    BY <1>1
  <2>5. /\ States[x] = "changing" /\ States' = [States EXCEPT ![x] = "active"]
        /\ WishesIn' = [WishesIn EXCEPT ![x] = None]
    BY <2>2, <2>3
  <2>6. Lifecycle!Refuse(x)
    BY <2>4, <2>5, SeenRefuse
  <2> QED BY <2>6 DEF Lifecycle!ALNext
<1>8. CASE ~(subs[s].status = "change_pending" /\ subs[s].pending # None)
  <2>1. SeenRow(r) = SeenRow(subs[s]) /\ WishRow(r) = None /\ WishRow(subs[s]) = None
    BY <1>2, <1>5, <1>8, SeenStatuses DEF Pending
  <2> QED BY <1>1, <1>4, <1>5, <1>6, <2>1, LooksTheSame
<1> QED BY <1>7, <1>8

LEMMA DecideStatusSeen ==
  ASSUME SubInv, NEW w \in Workers, StoreStatus(w, "decide_status")
  PROVE  Lifecycle!ALNext \/ UNCHANGED Seen
<1> DEFINE s == subLoc[w].sub
           l == subLoc[w]
           r == [subs[s] EXCEPT !.status = l.status]
<1>1. /\ s \in Subs /\ subs[s] \in Rows /\ l \in SubLocals
      /\ DecideFits(w, "decide_status", l)
  BY AtWork DEF StoreStatus, At
<1>2. /\ subs[s].status \in Pending
      /\ \/ /\ l.status = "active"
            /\ subs[s].status = "change_pending" => subs[s].pending \in {None, NoChange}
         \/ l.status = "cancelled" /\ subs[s].status = "cancel_pending"
  BY <1>1 DEF DecideFits, Deciding
<1>3. subs' = [subs EXCEPT ![s] = r]
  BY DEF StoreStatus
<1>4. /\ r \in Rows /\ r.status = l.status /\ r.pending = subs[s].pending
      /\ r.params = subs[s].params
  BY <1>1, <1>2 DEF Rows, SubLocals
<1>5. Types
  BY DEF SubInv
<1> HIDE DEF r
<1>6. States[s] = SeenRow(subs[s]) /\ States' = [States EXCEPT ![s] = SeenRow(r)]
  BY <1>1, <1>3, <1>4, <1>5, Moves
<1>7. WishesIn' = [WishesIn EXCEPT ![s] = WishRow(r)]
  BY <1>1, <1>3, <1>4, <1>5, OneRowSeen
<1>8. Granted' = Granted
  BY <1>1, <1>3, <1>4, <1>5, GrantedStays
<1>9. CASE l.status = "cancelled"
  <2>1. /\ SeenRow(subs[s]) = "cancelling" /\ WishRow(subs[s]) = None
        /\ SeenRow(r) = "over" /\ WishRow(r) = None
    BY <1>2, <1>4, <1>9, SeenStatuses
  <2>2. WishesIn' = WishesIn
    BY <1>1, <1>3, <1>4, <1>5, <2>1, WishStays
  <2>3. States[s] = "cancelling" /\ States' = [States EXCEPT ![s] = "over"]
    BY <1>6, <2>1
  <2> HIDE DEF s
  <2>4. Lifecycle!GrantCancel(s)
    BY <1>1, <1>8, <2>2, <2>3, SeenGrantCancel
  <2> QED BY <1>1, <2>4 DEF Lifecycle!ALNext
<1>10. CASE l.status = "active"
  <2>1. SeenRow(r) = "active" /\ WishRow(r) = None
    BY <1>4, <1>10, SeenStatuses
  <2>2. States' = [States EXCEPT ![s] = "active"] /\ WishesIn' = [WishesIn EXCEPT ![s] = None]
    BY <1>6, <1>7, <2>1
  <2>3. CASE subs[s].status = "cancel_pending"
    <3>1. States[s] = "cancelling"
      BY <1>6, <2>3, SeenStatuses
    <3> PICK x \in Subs : x = s
      BY <1>1
    <3>2. /\ States[x] = "cancelling" /\ States' = [States EXCEPT ![x] = "active"]
          /\ WishesIn' = [WishesIn EXCEPT ![x] = None]
      BY <2>2, <3>1
    <3>3. Lifecycle!Refuse(x)
      BY <1>8, <3>2, SeenRefuse
    <3> QED BY <3>3 DEF Lifecycle!ALNext
  <2>4. CASE subs[s].status = "change_pending" /\ subs[s].pending = None
    <3>1. SeenRow(subs[s]) = "active" /\ WishRow(subs[s]) = None
      BY <2>4, SeenStatuses
    <3> QED BY <1>1, <1>3, <1>4, <1>5, <2>1, <3>1, LooksTheSame
  <2>5. CASE subs[s].status = "change_pending" /\ subs[s].pending = NoChange
    <3>1. SeenRow(subs[s]) = "changing" /\ WishRow(subs[s]) = NoChange
      BY <2>5, SeenStatuses, SubscriptionAssumption
    <3>2. States[s] = "changing" /\ WishesIn[s] = NoChange
      BY <1>1, <1>6, <3>1, SeenRows
    <3>3. Granted' = [Granted EXCEPT ![s] = Granted[s] \cup ({WishesIn[s]} \ {NoChange})]
      <4>1. Granted[s] \cup ({WishesIn[s]} \ {NoChange}) = Granted[s]
        BY <3>2
      <4>2. Granted' = [Granted EXCEPT ![s] = Granted[s]]
        BY <1>1, <1>8, SameValue
      <4> QED BY <4>1, <4>2
    <3> PICK x \in Subs : x = s
      BY <1>1
    <3>4. /\ States[x] = "changing" /\ States' = [States EXCEPT ![x] = "active"]
          /\ WishesIn' = [WishesIn EXCEPT ![x] = None]
          /\ Granted' = [Granted EXCEPT ![x] = Granted[x] \cup ({WishesIn[x]} \ {NoChange})]
      BY <2>2, <3>2, <3>3
    <3>5. Lifecycle!GrantChange(x)
      BY <3>4, SeenGrantChange
    <3> QED BY <3>5 DEF Lifecycle!ALNext
  <2> QED BY <1>2, <1>10, <2>3, <2>4, <2>5 DEF Pending
<1> QED BY <1>2, <1>9, <1>10

\* Every step is a step of the lifecycle, or is not seen.
LEMMA StepSeen ==
  ASSUME SubInv, [SubscriptionNext]_subVars
  PROVE  Lifecycle!ALNext \/ UNCHANGED Seen
<1>1. ASSUME NEW w \in Workers, CreateGroups(w) \/ SubCrash(w)
      PROVE  UNCHANGED Seen
  BY <1>1, NothingSeen DEF CreateGroups, SubCrash
<1>2. ASSUME NEW w \in Workers, NEW s \in Subs, NEW c,
             RequestChange(w, s, c) \/ RequestCancel(w, s)
      PROVE  UNCHANGED Seen
  BY <1>2, NothingSeen DEF RequestChange, RequestCancel, AskRead
<1>3. ASSUME NEW w \in Workers, NEW s \in Subs, GrantRead(w, s) \/ RefuseRead(w, s)
      PROVE  UNCHANGED Seen
  BY <1>3, NothingSeen DEF GrantRead, RefuseRead
<1>4. ASSUME UNCHANGED subVars PROVE UNCHANGED Seen
  BY <1>4, NothingSeen DEF subVars
<1> QED BY <1>1, <1>2, <1>3, <1>4, CreateSeen, AssignSeen, ActivateSeen, StorePendingSeen,
           AskStatusSeen, ApplySeen, ClearSeen, DecideStatusSeen DEF SubscriptionNext

\* The calls of one owner and one approver look like requests and decisions in
\* single steps, for any number of subscriptions and changes, wherever the
\* workers die.
THEOREM Refinement ==
  ASSUME OneAsksOneDecides
  PROVE  SubscriptionSpec => ImplementsSubscription
<1>1. SubscriptionInit => Lifecycle!ALInit
  BY DEF SubscriptionInit, Lifecycle!ALInit, StateSeen, NoSub
<1>2. SubInv /\ [SubscriptionNext]_subVars => [Lifecycle!ALNext]_Seen
  BY StepSeen
<1>3. SubscriptionInit => SubInv
  BY SubInitInv
<1>4. SubInv /\ [SubscriptionNext]_subVars => SubInv'
  BY SubNextInv
<1> QED BY <1>1, <1>2, <1>3, <1>4, PTL DEF SubscriptionSpec, ImplementsSubscription,
        Lifecycle!ALSpec, Seen, States, WishesIn, Granted

==============================================================================
