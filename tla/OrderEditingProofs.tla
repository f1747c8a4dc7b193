-------------------------- MODULE OrderEditingProofs --------------------------
(***************************************************************************)
(* Safety of OrderEditing.  For any number of workers that overlap and die *)
(* anywhere: the types, what deleting an order leaves behind, and which    *)
(* writes alone can mark a bad item as valid.  For calls that follow each  *)
(* other and may still die anywhere: the frozen order, its status, and     *)
(* what a submitted order then still has.                                  *)
(***************************************************************************)
EXTENDS OrderEditing, WellFoundedInduction, TLAPS

\* Calls follow each other: one worker handles them all.
Sequential == \E w : Workers = {w}

(***************************************************************************)
(* Types, for any number of workers and a crash anywhere                   *)
(***************************************************************************)
Row    == [row : {"unused", "present", "gone"}, params : Params,
           checked : ItemValidationState]
Status == OrderStatus \cup {"deleted"}
Local  == [item : Items \cup {0}, params : Params,
           checked : ItemValidationState, ok : BOOLEAN, todo : SUBSET Items]

LEMMA Statuses ==
  /\ OrderStatus = {"draft", "validated", "submitted", "pending_approval",
                    "approved", "provisioning", "done", "failed", "rejected"}
  /\ ItemValidationState = {"unchecked", "valid", "invalid"}
  /\ Params = {"good", "bad"}
  BY DEF OrderStatus, Transitions, ItemValidationState, Params

LEMMA TypeParts ==
  TypeOK <=> /\ status \in Status /\ reason \in BOOLEAN
             /\ items \in [Items -> Row] /\ pc \in [Workers -> PC]
             /\ loc \in [Workers -> Local]
  BY DEF TypeOK, Status, Row, Local

\* A set of positions that is not empty has a first one.
LEMMA FirstInSet ==
  ASSUME NEW S \in SUBSET Items, S # {}
  PROVE  First(S) \in S
<1>1. S \subseteq Nat
  BY DEF Items
<1> DEFINE below == {ss \in Nat \X Nat : ss[1] < ss[2]}
<1>2. PICK i \in S : \A j \in S : <<j, i>> \notin below
  <2> DEFINE less == OpToRel(<, Nat)
  <2>1. IsWellFoundedOn(less, Nat)
    BY NatLessThanWellFounded
  <2>2. less = below
    BY DEF OpToRel
  <2> HIDE DEF less, below
  <2> QED BY <1>1, <2>1, <2>2, WFMin
<1>3. ASSUME NEW j \in S PROVE i <= j
  <2>1. i \in Nat /\ j \in Nat /\ ~(<<j, i>>[1] < <<j, i>>[2])
    BY <1>1, <1>2
  <2> QED BY <2>1
<1> QED BY <1>3 DEF First

LEMMA NoLocType == NoLoc \in Local
  BY Statuses DEF NoLoc, Local

LEMMA PresentItems == Present \in SUBSET Items /\ Unused \in SUBSET Items
  BY DEF Present, Unused

\* An item taken in hand is the first of the list, with its values as they are.
LEMMA Loaded ==
  ASSUME TypeOK, NEW S \in SUBSET Items, S # {}
  PROVE  /\ Load(S) \in Local
         /\ Load(S).item = First(S) /\ First(S) \in S
         /\ Load(S).todo = S \ {First(S)} /\ Load(S).ok = TRUE
         /\ Load(S).params = items[First(S)].params
         /\ Load(S).checked = items[First(S)].checked
<1>1. First(S) \in S /\ items[First(S)] \in Row
  BY FirstInSet, TypeParts
<1>2. /\ items[First(S)].params \in Params
      /\ items[First(S)].checked \in ItemValidationState
  BY <1>1 DEF Row
<1> QED BY <1>1, <1>2 DEF Load, NoLoc, Local

LEMMA GotoType ==
  ASSUME TypeOK, NEW w \in Workers, NEW label \in PC, NEW local \in Local,
         Goto(w, label, local)
  PROVE  /\ pc' \in [Workers -> PC] /\ loc' \in [Workers -> Local]
         /\ pc'[w] = label /\ loc'[w] = local
  BY TypeParts DEF Goto

LEMMA ReplyType ==
  ASSUME TypeOK, NEW w \in Workers, Reply(w)
  PROVE  /\ pc' \in [Workers -> PC] /\ loc' \in [Workers -> Local]
         /\ pc'[w] = "idle" /\ loc'[w] = NoLoc
  BY NoLocType, GotoType DEF Reply, PC
LEMMA RowUpdates ==
  ASSUME TypeOK, NEW i \in Items, NEW params \in Params,
         NEW checked \in ItemValidationState
  PROVE  /\ [items EXCEPT ![i] = [row |-> "present", params |-> params,
                                  checked |-> checked]] \in [Items -> Row]
         /\ [items EXCEPT ![i].params = params,
                          ![i].checked = checked] \in [Items -> Row]
         /\ [items EXCEPT ![i].checked = checked] \in [Items -> Row]
         /\ [items EXCEPT ![i].row = IF @ = "present" THEN "gone" ELSE @]
              \in [Items -> Row]
<1>1. items \in [Items -> Row]
  BY TypeParts
<1> QED BY <1>1 DEF Row

\* Reading a row ends the call or takes it one step further.
LEMMA ReadType ==
  ASSUME TypeOK, NEW w \in Workers, UNCHANGED <<status, reason, items>>,
         pc' \in [Workers -> PC], loc' \in [Workers -> Local]
  PROVE  TypeOK'
  BY TypeParts DEF TypeOK, Local

LEMMA AddType ==
  ASSUME TypeOK, NEW w \in Workers,
         (\E params \in Params : AddRead(w, params)) \/ AddWrite(w)
  PROVE  TypeOK'
<1>1. ASSUME NEW params \in Params, AddRead(w, params) PROVE TypeOK'
  <2>1. [NoLoc EXCEPT !.params = params] \in Local /\ "add_write" \in PC
    BY NoLocType DEF Local, PC
  <2> QED BY <1>1, <2>1, GotoType, ReadType DEF AddRead
<1>2. CASE AddWrite(w)
  <2>1. loc[w].params \in Params /\ "unchecked" \in ItemValidationState
    BY TypeParts, Statuses DEF Local
  <2>2. items' \in [Items -> Row]
    <3>1. CASE status # "deleted" /\ Unused # {}
      <4>1. First(Unused) \in Items
        BY <3>1, PresentItems, FirstInSet
      <4>2. items' = [items EXCEPT ![First(Unused)] =
                        [row |-> "present", params |-> loc[w].params,
                         checked |-> "unchecked"]]
        BY <1>2, <3>1 DEF AddWrite
      <4> QED BY <2>1, <4>1, <4>2, RowUpdates
    <3>2. CASE ~(status # "deleted" /\ Unused # {})
      BY <1>2, <3>2, TypeParts DEF AddWrite
    <3> QED BY <3>1, <3>2
  <2> QED BY <1>2, <2>2, ReplyType, TypeParts DEF AddWrite, TypeOK, Row, Local
<1> QED BY <1>1, <1>2

LEMMA UpdateType ==
  ASSUME TypeOK, NEW w \in Workers,
         \/ \E i \in Items, params \in Params : UpdateRead(w, i, params)
         \/ UpdateWrite(w) \/ UpdateRecheck(w) \/ UpdateReset(w)
  PROVE  TypeOK'
<1>1. {"update_write", "update_recheck", "update_reset"} \subseteq PC
  BY DEF PC
<1>2. ASSUME NEW i \in Items, NEW params \in Params, UpdateRead(w, i, params)
      PROVE  TypeOK'
  <2>1. [NoLoc EXCEPT !.item = i, !.params = params] \in Local
    BY NoLocType DEF Local
  <2> QED BY <1>1, <1>2, <2>1, GotoType, ReadType DEF UpdateRead
<1>3. CASE UpdateWrite(w)
  <2>1. loc[w].params \in Params /\ "unchecked" \in ItemValidationState
    BY TypeParts, Statuses DEF Local
  <2>2. /\ items' \in [Items -> Row] /\ pc' \in [Workers -> PC]
        /\ loc' \in [Workers -> Local]
    <3>1. CASE loc[w].item \in Present
      <4>1. /\ items' = [items EXCEPT ![loc[w].item].params = loc[w].params,
                                      ![loc[w].item].checked = "unchecked"]
            /\ Goto(w, "update_recheck", NoLoc)
        BY <1>3, <3>1 DEF UpdateWrite
      <4>2. loc[w].item \in Items
        BY <3>1, PresentItems
      <4>3. items' \in [Items -> Row]
        BY <2>1, <4>1, <4>2, RowUpdates
      <4> QED BY <1>1, <4>1, <4>3, GotoType, NoLocType
    <3>2. CASE loc[w].item \notin Present
      BY <1>3, <3>2, ReplyType, TypeParts DEF UpdateWrite
    <3> QED BY <3>1, <3>2
  <2> QED BY <1>3, <2>2, TypeParts DEF UpdateWrite, TypeOK, Row, Local
<1>4. CASE UpdateRecheck(w)
  BY <1>1, <1>4, NoLocType, GotoType, ReplyType, ReadType DEF UpdateRecheck
<1>5. CASE UpdateReset(w)
  <2>1. status' \in Status
    BY <1>5, Statuses, TypeParts DEF UpdateReset, Status
  <2> QED BY <1>5, <2>1, ReplyType, TypeParts
             DEF UpdateReset, TypeOK, Status, Local
<1> QED BY <1>2, <1>3, <1>4, <1>5

LEMMA RemoveType ==
  ASSUME TypeOK, NEW w \in Workers,
         (\E i \in Items : RemoveRead(w, i)) \/ RemoveWrite(w)
  PROVE  TypeOK'
<1>1. ASSUME NEW i \in Items, RemoveRead(w, i) PROVE TypeOK'
  <2>1. [NoLoc EXCEPT !.item = i] \in Local /\ "remove_write" \in PC
    BY NoLocType DEF Local, PC
  <2> QED BY <1>1, <2>1, GotoType, ReadType DEF RemoveRead
<1>2. CASE RemoveWrite(w)
  <2>1. items' \in [Items -> Row]
    <3>1. CASE loc[w].item \in Items
      <4>1. "good" \in Params /\ "valid" \in ItemValidationState
        BY Statuses
      <4> QED BY <1>2, <3>1, <4>1, RowUpdates DEF RemoveWrite
    <3>2. CASE loc[w].item \notin Items
      BY <1>2, <3>2, TypeParts DEF RemoveWrite
    <3> QED BY <3>1, <3>2
  <2> QED BY <1>2, <2>1, ReplyType, TypeParts
             DEF RemoveWrite, TypeOK, Row, Local
<1> QED BY <1>1, <1>2

LEMMA ValidateType ==
  ASSUME TypeOK, NEW w \in Workers,
         ValidateRead(w) \/ ValidateWrite(w) \/ ValidateLoad(w) \/ ValidateEnd(w)
  PROVE  TypeOK'
<1>1. /\ {"validate_write", "validate_load", "validate_end"} \subseteq PC
      /\ loc[w] \in Local
  BY TypeParts DEF PC
<1>2. CASE ValidateRead(w)
  BY <1>1, <1>2, PresentItems, Loaded, GotoType, ReadType DEF ValidateRead
<1>3. CASE ValidateWrite(w)
  <2> DEFINE i     == loc[w].item
             state == IF loc[w].params = "good" THEN "valid" ELSE "invalid"
             next  == [loc[w] EXCEPT !.ok = AllValid(w, state)]
  <2>1. state \in ItemValidationState /\ next \in Local
    BY <1>1, Statuses DEF Local, AllValid
  <2>2. items' \in [Items -> Row]
    <3>1. CASE i \in Present /\ state # loc[w].checked
      <4>1. items' = [items EXCEPT ![i].checked = state]
        BY <1>3, <3>1 DEF ValidateWrite
      <4>2. "good" \in Params
        BY Statuses
      <4> QED BY <2>1, <3>1, <4>1, <4>2, RowUpdates, PresentItems
    <3>2. CASE ~(i \in Present /\ state # loc[w].checked)
      BY <1>3, <3>2, TypeParts DEF ValidateWrite
    <3> QED BY <3>1, <3>2
  <2>3. Goto(w, "validate_load", next) \/ Goto(w, "validate_end", NoLoc)
        \/ Reply(w)
    BY <1>3 DEF ValidateWrite
  <2>4. pc' \in [Workers -> PC] /\ loc' \in [Workers -> Local]
    BY <1>1, <2>1, <2>3, NoLocType, GotoType, ReplyType
  <2>5. UNCHANGED <<status, reason>>
    BY <1>3 DEF ValidateWrite
  <2> QED BY <2>2, <2>4, <2>5, TypeParts DEF TypeOK, Row, Local
<1>4. CASE ValidateLoad(w)
  <2> DEFINE i    == First(loc[w].todo)
             next == [Load(loc[w].todo) EXCEPT !.ok = loc[w].ok]
  <2>1. CASE i \in Present
    <3>1. loc[w].todo \in SUBSET Items
      BY <1>1 DEF Local
    <3>2. i \in Items /\ items[i] \in Row
      BY <2>1, PresentItems, TypeParts
    <3>3. next \in Local
      BY <1>1, <3>1, <3>2, NoLocType DEF Load, Local, Row
    <3>4. Goto(w, "validate_write", next)
      BY <1>4, <2>1 DEF ValidateLoad
    <3> QED BY <1>1, <1>4, <3>3, <3>4, GotoType, ReadType DEF ValidateLoad
  <2>2. CASE i \notin Present
    BY <1>4, <2>2, ReplyType, ReadType DEF ValidateLoad
  <2> QED BY <2>1, <2>2
<1>5. CASE ValidateEnd(w)
  <2>1. status' \in Status
    BY <1>5, Statuses, TypeParts DEF ValidateEnd, Status
  <2> QED BY <1>5, <2>1, ReplyType, TypeParts
             DEF ValidateEnd, TypeOK, Status, Local
<1> QED BY <1>2, <1>3, <1>4, <1>5

LEMMA OrderType ==
  ASSUME TypeOK, NEW w \in Workers,
         \/ SubmitRead(w) \/ SubmitWrite(w)
         \/ \E call \in {"patch", "delete"} : OrderRead(w, call)
         \/ \E filled \in BOOLEAN : PatchWrite(w, filled)
         \/ DeleteWrite(w) \/ Crash(w)
  PROVE  TypeOK'
<1>1. {"submit_write", "patch", "delete"} \subseteq PC
  BY DEF PC
<1>2. CASE SubmitRead(w)
  BY <1>1, <1>2, NoLocType, GotoType, ReadType DEF SubmitRead
<1>3. CASE SubmitWrite(w)
  <2>1. status' \in Status
    BY <1>3, Statuses, TypeParts DEF SubmitWrite, Status
  <2> QED BY <1>3, <2>1, ReplyType, TypeParts
             DEF SubmitWrite, TypeOK, Status, Local
<1>4. ASSUME NEW call \in {"patch", "delete"}, OrderRead(w, call)
      PROVE  TypeOK'
  BY <1>1, <1>4, NoLocType, GotoType, ReadType DEF OrderRead
<1>5. ASSUME NEW filled \in BOOLEAN, PatchWrite(w, filled) PROVE TypeOK'
  <2>1. reason' \in BOOLEAN
    BY <1>5, TypeParts DEF PatchWrite
  <2> QED BY <1>5, <2>1, ReplyType, TypeParts DEF PatchWrite, TypeOK, Local
<1>6. CASE DeleteWrite(w)
  <2>1. items' \in [Items -> Row]
    BY <1>6, TypeParts DEF DeleteWrite, Row
  <2> QED BY <1>6, <2>1, ReplyType, TypeParts
             DEF DeleteWrite, TypeOK, Row, Local
<1>7. CASE Crash(w)
  BY <1>7, ReplyType, ReadType DEF Crash
<1> QED BY <1>2, <1>3, <1>4, <1>5, <1>6, <1>7

LEMMA InitType == Init => TypeOK
<1> SUFFICES ASSUME Init PROVE TypeOK
  OBVIOUS
<1>1. status \in Status /\ items \in [Items -> Row]
  BY Statuses DEF Init, Status, NoItem, Row
<1>2. pc \in [Workers -> PC] /\ loc \in [Workers -> Local]
  BY NoLocType DEF Init, PC
<1> QED BY <1>1, <1>2, TypeParts DEF Init

LEMMA StepType == TypeOK /\ [Next]_vars => TypeOK'
<1> SUFFICES ASSUME TypeOK, [Next]_vars PROVE TypeOK'
  OBVIOUS
<1>1. CASE Next
  BY <1>1, AddType, UpdateType, RemoveType, ValidateType, OrderType DEF Next
<1>2. CASE UNCHANGED vars
  BY <1>2 DEF vars, TypeOK
<1> QED BY <1>1, <1>2

\* Columns and locals keep their types, whatever overlaps and wherever a
\* worker dies.
THEOREM TypeCorrect == Spec => []TypeOK
  BY InitType, StepType, PTL DEF Spec
(***************************************************************************)
(* Calls that follow each other: the order's status does not change        *)
(* between the two steps of a call, so the test of the first still holds.  *)
(***************************************************************************)
StatusAt(w) ==
  /\ pc[w] \in {"add_write", "remove_write", "patch", "delete"} =>
       status = "draft"
  /\ pc[w] \in {"update_write", "update_recheck", "validate_write",
                "validate_load", "validate_end"} =>
       status \in {"draft", "validated"}
  /\ pc[w] \in {"update_reset", "submit_write"} => status = "validated"

StatusFits == /\ status \in {"draft", "validated", "submitted", "deleted"}
              /\ \A w \in Workers : StatusAt(w)

SequentialInv == TypeOK /\ StatusFits

\* Where the worker stands after its step.
LEMMA Moves ==
  ASSUME TypeOK, NEW w \in Workers
  PROVE  /\ \A label, local : Goto(w, label, local) =>
                                pc'[w] = label /\ loc'[w] = local
         /\ Reply(w) => pc'[w] = "idle" /\ loc'[w] = NoLoc
  BY TypeParts DEF Goto, Reply

LEMMA LegalMoves ==
  /\ CanTransition("draft", "validated") /\ CanTransition("validated", "draft")
  /\ CanTransition("validated", "submitted")
  BY DEF CanTransition, Transitions

LegalMove == IF status' = "deleted" THEN status = "draft"
                                    ELSE CanTransition(status, status')

StatusStepOK == /\ StatusFits'
                /\ status' = status \/ LegalMove
                /\ status = "submitted" => UNCHANGED <<items, reason>>

\* A call that only reads tests the status itself.
LEMMA ReadStatus ==
  ASSUME SequentialInv, NEW w \in Workers, Workers = {w},
         \/ \E params \in Params : AddRead(w, params)
         \/ \E i \in Items, params \in Params : UpdateRead(w, i, params)
         \/ \E i \in Items : RemoveRead(w, i)
         \/ ValidateRead(w) \/ SubmitRead(w)
         \/ \E call \in {"patch", "delete"} : OrderRead(w, call)
  PROVE  StatusStepOK
<1>1. UNCHANGED <<status, reason, items>>
  BY DEF AddRead, UpdateRead, RemoveRead, ValidateRead, SubmitRead, OrderRead
<1>2. \/ /\ pc'[w] \in {"add_write", "remove_write", "patch", "delete"}
         /\ status = "draft"
      \/ /\ pc'[w] \in {"update_write", "validate_write"}
         /\ status \in {"draft", "validated"}
      \/ pc'[w] = "submit_write" /\ status = "validated"
  BY Moves DEF AddRead, UpdateRead, RemoveRead, ValidateRead, SubmitRead,
     OrderRead, Editable, SequentialInv
<1>3. StatusAt(w)'
  BY <1>1, <1>2 DEF StatusAt
<1> QED BY <1>1, <1>3 DEF StatusStepOK, StatusFits, SequentialInv

\* A write finds the status that the call's first step has seen.
LEMMA WriteStatus ==
  ASSUME SequentialInv, NEW w \in Workers, Workers = {w},
         \/ AddWrite(w) \/ UpdateWrite(w) \/ UpdateRecheck(w) \/ UpdateReset(w)
         \/ RemoveWrite(w)
         \/ ValidateWrite(w) \/ ValidateLoad(w) \/ ValidateEnd(w)
         \/ SubmitWrite(w)
         \/ \E filled \in BOOLEAN : PatchWrite(w, filled)
         \/ DeleteWrite(w) \/ Crash(w)
  PROVE  StatusStepOK
<1>1. StatusAt(w) /\ status \in {"draft", "validated", "submitted", "deleted"}
  BY DEF SequentialInv, StatusFits
<1>2. ASSUME pc'[w] = "idle", status' = status \/ LegalMove,
             status' \in {"draft", "validated", "submitted", "deleted"},
             status \in {"draft", "validated"} \/ UNCHANGED <<items, reason>>
      PROVE  StatusStepOK
  BY <1>2 DEF StatusStepOK, StatusFits, StatusAt
<1>3. CASE AddWrite(w) \/ RemoveWrite(w)
           \/ \E filled \in BOOLEAN : PatchWrite(w, filled)
  <2>1. pc'[w] = "idle" /\ status = "draft" /\ status' = status
    BY <1>1, <1>3, Moves DEF AddWrite, RemoveWrite, PatchWrite, StatusAt,
       SequentialInv
  <2> QED BY <1>2, <2>1
<1>4. CASE UpdateWrite(w) \/ UpdateRecheck(w)
  <2>1. /\ status \in {"draft", "validated"} /\ status' = status
        /\ \/ pc'[w] \in {"idle", "update_recheck"}
           \/ pc'[w] = "update_reset" /\ status = "validated"
    BY <1>1, <1>4, Moves DEF UpdateWrite, UpdateRecheck, StatusAt,
       SequentialInv
  <2> QED BY <2>1 DEF StatusStepOK, StatusFits, StatusAt
<1>5. CASE UpdateReset(w)
  <2>1. pc'[w] = "idle" /\ status = "validated" /\ status' = "draft"
    BY <1>1, <1>5, Moves DEF UpdateReset, StatusAt, SequentialInv
  <2> QED BY <1>2, <2>1, LegalMoves DEF LegalMove
<1>6. CASE ValidateWrite(w) \/ ValidateLoad(w)
  <2>1. /\ status \in {"draft", "validated"} /\ status' = status
        /\ pc'[w] \in {"idle", "validate_write", "validate_load",
                       "validate_end"}
    BY <1>1, <1>6, Moves DEF ValidateWrite, ValidateLoad, StatusAt,
       SequentialInv
  <2> QED BY <2>1 DEF StatusStepOK, StatusFits, StatusAt
<1>7. CASE ValidateEnd(w)
  <2>1. /\ pc'[w] = "idle" /\ status' = "validated"
        /\ status \in {"draft", "validated"}
    BY <1>1, <1>7, Moves DEF ValidateEnd, StatusAt, SequentialInv
  <2> QED BY <1>2, <2>1, LegalMoves DEF LegalMove
<1>8. CASE SubmitWrite(w)
  <2>1. pc'[w] = "idle" /\ status' = "submitted" /\ status = "validated"
    BY <1>1, <1>8, Moves DEF SubmitWrite, StatusAt, SequentialInv
  <2> QED BY <1>2, <2>1, LegalMoves DEF LegalMove
<1>9. CASE DeleteWrite(w)
  <2>1. pc'[w] = "idle" /\ status' = "deleted" /\ status = "draft"
    BY <1>1, <1>9, Moves DEF DeleteWrite, StatusAt, SequentialInv
  <2> QED BY <1>2, <2>1 DEF LegalMove
<1>10. CASE Crash(w)
  <2>1. pc'[w] = "idle" /\ UNCHANGED <<status, reason, items>>
    BY <1>10, Moves DEF Crash, SequentialInv
  <2> QED BY <1>1, <1>2, <2>1
<1> QED BY <1>3, <1>4, <1>5, <1>6, <1>7, <1>8, <1>9, <1>10

LEMMA StepSequential ==
  ASSUME Sequential
  PROVE  SequentialInv /\ [Next]_vars => SequentialInv' /\ StatusStepOK
<1> SUFFICES ASSUME SequentialInv, [Next]_vars
             PROVE  SequentialInv' /\ StatusStepOK
  OBVIOUS
<1>1. TypeOK'
  BY StepType DEF SequentialInv
<1>2. CASE Next
  <2>1. \A w \in Workers : Workers = {w}
    BY DEF Sequential
  <2> QED BY <1>1, <1>2, <2>1, ReadStatus, WriteStatus
             DEF Next, SequentialInv, StatusStepOK
<1>3. CASE UNCHANGED vars
  BY <1>1, <1>3 DEF vars, SequentialInv, StatusStepOK, StatusFits, StatusAt
<1> QED BY <1>2, <1>3

LEMMA SequentialHolds == ASSUME Sequential PROVE Spec => []SequentialInv
<1>1. Init => SequentialInv
  BY InitType DEF Init, SequentialInv, StatusFits, StatusAt
<1> QED BY <1>1, StepSequential, PTL DEF Spec

\* As long as calls follow each other, a submitted order is frozen: its items
\* and its reason stay as they were submitted (order_service.py tests the
\* status before each write, never in it).
THEOREM SubmittedIsFrozen == ASSUME Sequential PROVE Spec => FrozenOnceSubmitted
<1>1. SequentialInv /\ [Next]_vars =>
        [status = "submitted" => UNCHANGED <<items, reason>>]_vars
  BY StepSequential DEF StatusStepOK
<1> QED BY <1>1, SequentialHolds, PTL DEF Spec, FrozenOnceSubmitted

\* As long as calls follow each other, the status moves along the table of
\* app/domain/order.py, which none of the handlers consults, and only drafts
\* are deleted.
THEOREM StatusMovesLegally == ASSUME Sequential PROVE Spec => LegalTransitions
<1>1. SequentialInv /\ [Next]_vars =>
        [IF status' = "deleted" THEN status = "draft"
                                ELSE CanTransition(status, status')]_status
  BY StepSequential DEF StatusStepOK, LegalMove
<1> QED BY <1>1, SequentialHolds, PTL DEF Spec, LegalTransitions

(***************************************************************************)
(* What overlapping calls cannot do                                        *)
(***************************************************************************)
LEMMA SameItems ==
  ASSUME UNCHANGED items
  PROVE  /\ Present' = Present /\ CheckedMeansGood' = CheckedMeansGood
         /\ Present \subseteq Items
  BY DEF Present, CheckedMeansGood

\* The steps that write items, and what they do to one of them.
LEMMA ItemWrites ==
  ASSUME [Next]_vars
  PROVE  \/ UNCHANGED items
         \/ \E w \in Workers : \/ AddWrite(w) \/ UpdateWrite(w) \/ RemoveWrite(w)
                               \/ DeleteWrite(w) \/ ValidateWrite(w)
  BY DEF Next, vars, AddRead, UpdateRead, RemoveRead, ValidateRead, SubmitRead,
     OrderRead, UpdateRecheck, UpdateReset, ValidateLoad, ValidateEnd,
     SubmitWrite, PatchWrite, Crash

\* Nothing but an insert brings a row.
LEMMA RowsComeByInsert ==
  ASSUME TypeOK, [Next]_vars, ~\E w \in Workers : AddWrite(w)
  PROVE  Present' \subseteq Present
<1>1. items \in [Items -> Row]
  BY TypeParts
<1>2. ASSUME NEW w \in Workers, NEW j \in Items,
             UpdateWrite(w) \/ RemoveWrite(w) \/ DeleteWrite(w)
               \/ ValidateWrite(w),
             items'[j].row = "present"
      PROVE  items[j].row = "present"
  BY <1>1, <1>2 DEF UpdateWrite, RemoveWrite, DeleteWrite, ValidateWrite, Row
<1>3. CASE UNCHANGED items
  BY <1>3, SameItems
<1> QED BY <1>2, <1>3, ItemWrites DEF Present

DeletedIsEmpty == status = "deleted" => Present = {}

LEMMA StepDeleted ==
  TypeOK /\ DeletedIsEmpty /\ [Next]_vars =>
    DeletedIsEmpty' /\ (status = "deleted" => status' = "deleted")
<1> SUFFICES ASSUME TypeOK, DeletedIsEmpty, [Next]_vars
             PROVE  DeletedIsEmpty' /\ (status = "deleted" => status' = "deleted")
  OBVIOUS
<1>1. CASE \E w \in Workers : DeleteWrite(w)
  <2>1. status' = "deleted" /\ \A i \in Items : items'[i].row # "present"
    <3>1. items \in [Items -> Row]
      BY TypeParts
    <3> QED BY <1>1, <3>1 DEF DeleteWrite, Row
  <2> QED BY <2>1 DEF DeletedIsEmpty, Present
<1>2. CASE ~\E w \in Workers : DeleteWrite(w)
  <2>1. /\ status' = "deleted" => status = "deleted"
        /\ status = "deleted" => status' = "deleted"
    BY <1>2 DEF Next, vars, AddRead, UpdateRead, RemoveRead, ValidateRead,
       SubmitRead, OrderRead, AddWrite, UpdateWrite, UpdateRecheck, UpdateReset,
       RemoveWrite, ValidateWrite, ValidateLoad, ValidateEnd, SubmitWrite,
       PatchWrite, Crash
  <2>2. CASE \E w \in Workers : AddWrite(w)
    <3>1. status = "deleted" => UNCHANGED items
      BY <2>2 DEF AddWrite
    <3> QED BY <2>1, <3>1, SameItems DEF DeletedIsEmpty
  <2>3. CASE ~\E w \in Workers : AddWrite(w)
    BY <2>1, <2>3, RowsComeByInsert DEF DeletedIsEmpty
  <2> QED BY <2>2, <2>3
<1> QED BY <1>1, <1>2

\* Once an order is deleted it stays deleted and has no items, whichever adds,
\* updates, validations and submissions read it before and write afterwards:
\* their INSERT violates the foreign key, their UPDATE finds no row.
THEOREM DeletedForGood ==
  Spec => [](DeletedIsEmpty)
            /\ [][status = "deleted" => status' = "deleted"]_vars
<1>1. Init => DeletedIsEmpty
  BY DEF Init, DeletedIsEmpty
<1>2. TypeOK /\ DeletedIsEmpty /\ [Next]_vars =>
        [status = "deleted" => status' = "deleted"]_vars
  BY StepDeleted
<1> QED BY <1>1, <1>2, StepDeleted, TypeCorrect, PTL DEF Spec

\* A validation is about to write what it found out about parameters that are
\* not the item's any more.
StaleVerdict ==
  \E w \in Workers :
    /\ pc[w] = "validate_write" /\ loc[w].item \in Present
    /\ loc[w].params # items[loc[w].item].params

LEMMA StepChecked ==
  TypeOK /\ CheckedMeansGood /\ [Next]_vars => CheckedMeansGood' \/ StaleVerdict
<1> SUFFICES ASSUME TypeOK, CheckedMeansGood, [Next]_vars, ~StaleVerdict
             PROVE  CheckedMeansGood'
  OBVIOUS
<1>1. items \in [Items -> Row]
  BY TypeParts
<1>2. CASE UNCHANGED items
  BY <1>2, SameItems
<1>3. ASSUME NEW w \in Workers, AddWrite(w), ~UNCHANGED items
      PROVE  CheckedMeansGood'
  <2>1. items' = [items EXCEPT ![First(Unused)] =
                    [row |-> "present", params |-> loc[w].params,
                     checked |-> "unchecked"]]
    BY <1>3 DEF AddWrite
  <2> QED BY <1>1, <2>1 DEF CheckedMeansGood, Present
<1>4. ASSUME NEW w \in Workers, UpdateWrite(w), ~UNCHANGED items
      PROVE  CheckedMeansGood'
  <2>1. items' = [items EXCEPT ![loc[w].item].params = loc[w].params,
                               ![loc[w].item].checked = "unchecked"]
    BY <1>4 DEF UpdateWrite
  <2>2. \A j \in Items :
          items'[j].checked = "unchecked" \/ items'[j] = items[j]
    BY <1>1, <2>1 DEF Row
  <2> QED BY <2>2 DEF CheckedMeansGood, Present
<1>5. ASSUME NEW w \in Workers, RemoveWrite(w) \/ DeleteWrite(w)
      PROVE  CheckedMeansGood'
  <2>1. \A j \in Items :
          /\ items'[j].params = items[j].params
          /\ items'[j].checked = items[j].checked
          /\ items'[j].row = "present" => items[j].row = "present"
    BY <1>1, <1>5 DEF RemoveWrite, DeleteWrite, Row
  <2> QED BY <2>1 DEF CheckedMeansGood, Present
<1>6. ASSUME NEW w \in Workers, ValidateWrite(w), ~UNCHANGED items
      PROVE  CheckedMeansGood'
  <2> DEFINE i     == loc[w].item
             state == IF loc[w].params = "good" THEN "valid" ELSE "invalid"
  <2>1. /\ items' = [items EXCEPT ![i].checked = state] /\ i \in Present
        /\ pc[w] = "validate_write"
    BY <1>6 DEF ValidateWrite
  <2>2. loc[w].params = items[i].params
    BY <2>1 DEF StaleVerdict
  <2>3. /\ items'[i].params = items[i].params /\ items'[i].checked = state
        /\ \A j \in Items \ {i} : items'[j] = items[j]
    BY <1>1, <2>1 DEF Row, Present
  <2> QED BY <2>2, <2>3 DEF CheckedMeansGood, Present
<1> QED BY <1>2, <1>3, <1>4, <1>5, <1>6, ItemWrites

\* A bad item comes to be marked as valid in one way only, whatever overlaps
\* and dies: validate_order loaded it before the commit that changed its
\* parameters and writes after it (order_service.py:150), which is what the
\* run `stale_validation' finds.
THEOREM OnlyStaleVerdictsErr ==
  Spec => [][CheckedMeansGood => CheckedMeansGood' \/ StaleVerdict]_vars
<1>1. TypeOK /\ [Next]_vars =>
        [CheckedMeansGood => CheckedMeansGood' \/ StaleVerdict]_vars
  BY StepChecked
<1> QED BY <1>1, TypeCorrect, PTL DEF Spec

(***************************************************************************)
(* What a submitted order still has when workers die                       *)
(***************************************************************************)
\* Less than SubmittedIsSound: an update that dies between its commits leaves
\* a validated order with an item nobody has validated, and it is submitted.
SubmittedIsFilled ==
  status = "submitted" => reason /\ Present # {} /\ CheckedMeansGood

\* What the worker at hand has seen still holds when it writes.
StillHolds(w) ==
  /\ pc[w] = "validate_write" =>
       loc[w].item \in Present /\ loc[w].params = items[loc[w].item].params
  /\ pc[w] \in {"validate_write", "validate_load", "validate_end"} =>
       Present # {}
  /\ pc[w] = "submit_write" => reason

FilledInv == /\ SequentialInv /\ CheckedMeansGood
             /\ \A w \in Workers : StillHolds(w)
             /\ status \in {"validated", "submitted"} => Present # {}
             /\ status = "submitted" => reason

\* Steps that change no table and lead to no write that relies on one.
LEMMA FilledQuiet ==
  ASSUME FilledInv, SequentialInv', CheckedMeansGood',
         NEW w \in Workers, Workers = {w}, UNCHANGED <<status, reason, items>>,
         pc'[w] \notin {"validate_write", "validate_load", "validate_end",
                        "submit_write"}
  PROVE  FilledInv'
  BY SameItems DEF FilledInv, StillHolds

LEMMA FilledReads ==
  ASSUME FilledInv, SequentialInv', CheckedMeansGood',
         NEW w \in Workers, Workers = {w},
         \/ \E params \in Params : AddRead(w, params)
         \/ \E i \in Items, params \in Params : UpdateRead(w, i, params)
         \/ \E i \in Items : RemoveRead(w, i)
         \/ \E call \in {"patch", "delete"} : OrderRead(w, call)
         \/ UpdateRecheck(w) \/ Crash(w) \/ SubmitRead(w)
  PROVE  FilledInv'
<1>1. UNCHANGED <<status, reason, items>> /\ TypeOK
  BY DEF AddRead, UpdateRead, RemoveRead, OrderRead, UpdateRecheck, Crash,
     SubmitRead, FilledInv, SequentialInv
<1>2. \/ pc'[w] \in {"add_write", "update_write", "remove_write", "patch",
                     "delete", "update_reset", "idle"}
      \/ pc'[w] = "submit_write" /\ reason
  BY <1>1, Moves DEF AddRead, UpdateRead, RemoveRead, OrderRead, UpdateRecheck,
     Crash, SubmitRead
<1> QED BY <1>1, <1>2, FilledQuiet, SameItems DEF FilledInv, StillHolds

LEMMA FilledValidation ==
  ASSUME FilledInv, SequentialInv', CheckedMeansGood',
         NEW w \in Workers, Workers = {w},
         ValidateRead(w) \/ ValidateWrite(w) \/ ValidateLoad(w)
  PROVE  FilledInv'
<1>1. /\ UNCHANGED <<status, reason>> /\ TypeOK
      /\ items \in [Items -> Row] /\ loc[w] \in Local
  BY TypeParts DEF ValidateRead, ValidateWrite, ValidateLoad, FilledInv,
     SequentialInv
<1>2. CASE ValidateRead(w)
  <2> DEFINE l == Load(Present)
  <2>1. l.item \in Present /\ l.params = items[l.item].params /\ Present # {}
    BY <1>1, <1>2, PresentItems, Loaded DEF ValidateRead
  <2> HIDE DEF l
  <2>2. UNCHANGED items /\ pc'[w] = "validate_write" /\ loc'[w] = l
    BY <1>1, <1>2, Moves DEF ValidateRead, l
  <2> QED BY <1>1, <2>1, <2>2, SameItems DEF FilledInv, StillHolds
<1>3. CASE ValidateWrite(w)
  <2>1. Present' = Present /\ Present # {}
    <3>1. Present # {}
      BY <1>3 DEF ValidateWrite, FilledInv, StillHolds
    <3>2. \A j \in Items : items'[j].row = items[j].row
      BY <1>1, <1>3 DEF ValidateWrite, Row
    <3> QED BY <3>1, <3>2 DEF Present
  <2>2. pc'[w] \in {"validate_load", "validate_end", "idle"}
    BY <1>1, <1>3, Moves DEF ValidateWrite
  <2> QED BY <1>1, <2>1, <2>2 DEF FilledInv, StillHolds
<1>4. CASE ValidateLoad(w)
  <2> DEFINE i == First(loc[w].todo)
             l == [Load(loc[w].todo) EXCEPT !.ok = loc[w].ok]
  <2>1. UNCHANGED items
    BY <1>4 DEF ValidateLoad
  <2>2. CASE i \in Present
    <3>1. i \in Items /\ items[i] \in Row
      BY <1>1, <2>2, PresentItems
    <3>2. l.item = i /\ l.params = items[i].params
      BY DEF Load, NoLoc
    <3> HIDE DEF l
    <3>3. pc'[w] = "validate_write" /\ loc'[w] = l
      BY <1>1, <1>4, <2>2, Moves DEF ValidateLoad, l
    <3> QED BY <1>1, <2>1, <2>2, <3>2, <3>3, SameItems DEF FilledInv, StillHolds
  <2>3. CASE i \notin Present
    <3>1. pc'[w] = "idle"
      BY <1>1, <1>4, <2>3, Moves DEF ValidateLoad
    <3> QED BY <1>1, <2>1, <3>1, FilledQuiet
  <2> QED BY <2>2, <2>3
<1> QED BY <1>2, <1>3, <1>4

\* The writes that end a call, and the first commit of an update.
LEMMA FilledWrites ==
  ASSUME FilledInv, SequentialInv', CheckedMeansGood',
         NEW w \in Workers, Workers = {w},
         \/ AddWrite(w) \/ UpdateWrite(w) \/ UpdateReset(w) \/ RemoveWrite(w)
         \/ \E filled \in BOOLEAN : PatchWrite(w, filled)
         \/ DeleteWrite(w) \/ ValidateEnd(w) \/ SubmitWrite(w)
  PROVE  FilledInv'
<1>1. /\ TypeOK /\ StatusAt(w) /\ StillHolds(w)
      /\ items \in [Items -> Row]
  BY TypeParts DEF FilledInv, SequentialInv, StatusFits
<1>2. pc'[w] \in {"idle", "update_recheck"}
  BY <1>1, Moves DEF AddWrite, UpdateWrite, UpdateReset, RemoveWrite,
     PatchWrite, DeleteWrite, ValidateEnd, SubmitWrite
<1>3. /\ status' \in {"validated", "submitted"} => Present' # {}
      /\ status' = "submitted" => reason'
  <2>1. CASE AddWrite(w) \/ RemoveWrite(w) \/ DeleteWrite(w) \/ UpdateReset(w)
             \/ \E filled \in BOOLEAN : PatchWrite(w, filled)
    BY <1>1, <2>1 DEF AddWrite, RemoveWrite, DeleteWrite, UpdateReset,
       PatchWrite, StatusAt
  <2>2. CASE UpdateWrite(w)
    <3>1. \A j \in Items : items'[j].row = items[j].row
      BY <1>1, <2>2 DEF UpdateWrite, Row
    <3>2. Present' = Present /\ UNCHANGED <<status, reason>>
      BY <2>2, <3>1 DEF Present, UpdateWrite
    <3> QED BY <3>2 DEF FilledInv
  <2>3. CASE ValidateEnd(w)
    BY <1>1, <2>3, SameItems DEF ValidateEnd, StillHolds, StatusAt
  <2>4. CASE SubmitWrite(w)
    BY <1>1, <2>4, SameItems DEF SubmitWrite, StillHolds, StatusAt, FilledInv
  <2> QED BY <2>1, <2>2, <2>3, <2>4
<1> QED BY <1>2, <1>3 DEF FilledInv, StillHolds

LEMMA StepFilled ==
  ASSUME Sequential
  PROVE  FilledInv /\ [Next]_vars => FilledInv'
<1> SUFFICES ASSUME FilledInv, [Next]_vars PROVE FilledInv'
  OBVIOUS
<1>1. SequentialInv'
  BY StepSequential DEF FilledInv
<1>2. CheckedMeansGood'
  <2>1. ~StaleVerdict /\ TypeOK
    BY DEF FilledInv, StillHolds, StaleVerdict, SequentialInv
  <2> QED BY <2>1, StepChecked DEF FilledInv
<1>3. CASE Next
  <2>1. \A w \in Workers : Workers = {w}
    BY DEF Sequential
  <2> QED BY <1>1, <1>2, <1>3, <2>1, FilledReads, FilledValidation,
             FilledWrites DEF Next
<1>4. CASE UNCHANGED vars
  BY <1>1, <1>2, <1>4, SameItems DEF vars, FilledInv, StillHolds
<1> QED BY <1>3, <1>4

\* As long as calls follow each other, and wherever a worker dies: a submitted
\* order has a reason and at least one item, and no item of it is wrongly
\* marked as valid.  (That all of its items are valid is more than the code
\* keeps when update_item dies between its commits.)
THEOREM SubmissionsAreFilled ==
  ASSUME Sequential
  PROVE  Spec => []SubmittedIsFilled
<1>1. Init => FilledInv
  <2> SUFFICES ASSUME Init PROVE FilledInv
    OBVIOUS
  <2>1. SequentialInv
    BY InitType DEF Init, SequentialInv, StatusFits, StatusAt
  <2>2. CheckedMeansGood /\ \A w \in Workers : StillHolds(w)
    BY DEF Init, NoItem, CheckedMeansGood, Present, StillHolds
  <2> QED BY <2>1, <2>2 DEF Init, FilledInv
<1>2. FilledInv => SubmittedIsFilled
  BY DEF FilledInv, SubmittedIsFilled
<1> QED BY <1>1, <1>2, StepFilled, PTL DEF Spec
===============================================================================
