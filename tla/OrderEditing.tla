----------------------------- MODULE OrderEditing -----------------------------
(***************************************************************************)
(* One order while its requester composes it: items are added, changed,    *)
(* removed and validated until the order is submitted (order_service.py up *)
(* to submit_order).                                                       *)
(*                                                                         *)
(* As in OrderWorkflow, a worker handles one call at a time, every commit  *)
(* is an action, and so is every read that a later commit relies on.  An   *)
(* item's parameters are abstracted to whether they satisfy the template:  *)
(* validate_parameters is a function of them.                              *)
(***************************************************************************)
EXTENDS OrderStatuses, Integers, FiniteSets

CONSTANTS
  Workers,   \* processes that handle calls
  Calls,     \* the calls they get
  MaxItems,  \* bound on the items ever added to the order
  CrashAt    \* the steps before which a worker may die

CallNames == {"add", "update", "remove", "validate", "submit", "patch",
              "delete"}
Items     == 1 .. MaxItems     \* in the order of their positions
Params    == {"good", "bad"}

PC == {"idle", "add_write", "update_write", "update_recheck", "update_reset",
       "remove_write", "validate_write", "validate_load", "validate_end",
       "submit_write", "patch", "delete"}

ASSUME ConstantsAssumption ==
  /\ Calls \subseteq CallNames
  /\ MaxItems \in Nat
  /\ CrashAt \subseteq PC

VARIABLES
  status,  \* orders.status, "deleted" once the row is gone
  reason,  \* is orders.business_reason filled in?
  items,   \* rows of order_items: row, params, checked (validation_state)
  pc,      \* where a worker stands
  loc      \* what its session and its local variables hold

vars == <<status, reason, items, pc, loc>>

NoItem == [row |-> "unused", params |-> "bad", checked |-> "unchecked"]

\* item: the item at hand; params, checked: its values as loaded or as given
\* ok: have all items been valid so far?  todo: the items still to validate
NoLoc == [item |-> 0, params |-> "bad", checked |-> "unchecked",
          ok |-> TRUE, todo |-> {}]

Init ==
  /\ status = "draft"
  /\ reason \in BOOLEAN
  /\ items = [i \in Items |-> NoItem]
  /\ pc = [w \in Workers |-> "idle"]
  /\ loc = [w \in Workers |-> NoLoc]

First(S) == CHOOSE i \in S : \A j \in S : i <= j
Present  == {i \in Items : items[i].row = "present"}
Unused   == {i \in Items : items[i].row = "unused"}

Begin(w, call) == pc[w] = "idle" /\ call \in Calls

Goto(w, label, local) ==
  /\ pc' = [pc EXCEPT ![w] = label]
  /\ loc' = [loc EXCEPT ![w] = local]

\* The call ends, with or without success; the session is closed.
Reply(w) == Goto(w, "idle", NoLoc)

\* Mutant of Editable: whatever is not over may be edited.
EditableUntilTerminal(allowValidated) ==
  status # "deleted" /\ ~IsTerminal(status)

\* _assert_editable; a deleted order is not found.
Editable(allowValidated) ==
  status = "draft" \/ (allowValidated /\ status = "validated")

(***************************************************************************)
(* POST, PATCH and DELETE on items                                         *)
(***************************************************************************)
AddRead(w, params) ==
  /\ Begin(w, "add")
  /\ Editable(FALSE)
  /\ Unused # {}
  /\ Goto(w, "add_write", [NoLoc EXCEPT !.params = params])
  /\ UNCHANGED <<status, reason, items>>

\* The row is inserted whatever has become of the order's status; only a
\* deleted order (foreign key) stops it.
AddWrite(w) ==
  /\ pc[w] = "add_write"
  /\ IF status # "deleted" /\ Unused # {}
       THEN items' = [items EXCEPT ![First(Unused)] =
                        [row |-> "present", params |-> loc[w].params,
                         checked |-> "unchecked"]]
       ELSE UNCHANGED items
  /\ Reply(w)
  /\ UNCHANGED <<status, reason>>

UpdateRead(w, i, params) ==
  /\ Begin(w, "update")
  /\ Editable(TRUE)
  /\ i \in Present
  /\ Goto(w, "update_write", [NoLoc EXCEPT !.item = i, !.params = params])
  /\ UNCHANGED <<status, reason, items>>

UpdateWrite(w) ==
  /\ pc[w] = "update_write"
  /\ IF loc[w].item \in Present
       THEN /\ items' = [items EXCEPT ![loc[w].item].params = loc[w].params,
                                      ![loc[w].item].checked = "unchecked"]
            /\ Goto(w, "update_recheck", NoLoc)
       ELSE Reply(w) /\ UNCHANGED items
  /\ UNCHANGED <<status, reason>>

\* Mutant of UpdateRecheck: the order keeps its status.
UpdateKeepsStatus(w) ==
  /\ pc[w] = "update_recheck"
  /\ Reply(w)
  /\ UNCHANGED <<status, reason, items>>

\* The commit has expired the order: its status is read again, and the reset
\* to draft is a transaction of its own.
UpdateRecheck(w) ==
  /\ pc[w] = "update_recheck"
  /\ IF status = "validated" THEN Goto(w, "update_reset", NoLoc) ELSE Reply(w)
  /\ UNCHANGED <<status, reason, items>>

\* Mutant of UpdateReset: a status nobody knows.
UpdateResetToOpen(w) ==
  /\ pc[w] = "update_reset"
  /\ status' = "open"
  /\ Reply(w)
  /\ UNCHANGED <<reason, items>>

UpdateReset(w) ==
  /\ pc[w] = "update_reset"
  /\ status' = IF status = "deleted" THEN status ELSE "draft"
  /\ Reply(w)
  /\ UNCHANGED <<reason, items>>

RemoveRead(w, i) ==
  /\ Begin(w, "remove")
  /\ Editable(FALSE)
  /\ i \in Present
  /\ Goto(w, "remove_write", [NoLoc EXCEPT !.item = i])
  /\ UNCHANGED <<status, reason, items>>

RemoveWrite(w) ==
  /\ pc[w] = "remove_write"
  /\ items' = [items EXCEPT ![loc[w].item].row =
                 IF @ = "present" THEN "gone" ELSE @]
  /\ Reply(w)
  /\ UNCHANGED <<status, reason>>

(***************************************************************************)
(* POST /orders/<id>/validate                                              *)
(***************************************************************************)
\* Take the least item of S in hand, with its values as they are now.
Load(S) ==
  [NoLoc EXCEPT !.item = First(S), !.todo = S \ {First(S)},
                !.params = items[First(S)].params,
                !.checked = items[First(S)].checked]

\* Reading the order loads all of its items; the first is validated as loaded.
ValidateRead(w) ==
  /\ Begin(w, "validate")
  /\ Editable(TRUE)
  /\ Present # {}
  /\ Goto(w, "validate_write", Load(Present))
  /\ UNCHANGED <<status, reason, items>>

\* Mutant of AllValid: only the last item counts.
LastValid(w, state) == state = "valid"

AllValid(w, state) == loc[w].ok /\ state = "valid"

\* One commit per item.  An attribute that keeps the value it was loaded with
\* is not written.  An item that is gone ends the call with an error.
ValidateWrite(w) ==
  LET i     == loc[w].item
      state == IF loc[w].params = "good" THEN "valid" ELSE "invalid"
      ok    == AllValid(w, state)
  IN
  /\ pc[w] = "validate_write"
  /\ items' = IF i \in Present /\ state # loc[w].checked
                THEN [items EXCEPT ![i].checked = state] ELSE items
  /\ CASE i \in Present /\ loc[w].todo # {} ->
            Goto(w, "validate_load", [loc[w] EXCEPT !.ok = ok])
       [] i \in Present /\ loc[w].todo = {} /\ ok ->
            Goto(w, "validate_end", NoLoc)
       [] OTHER -> Reply(w)
  /\ UNCHANGED <<status, reason>>

\* After a commit the next item of the loaded list is read afresh.
ValidateLoad(w) ==
  /\ pc[w] = "validate_load"
  /\ IF First(loc[w].todo) \in Present
       THEN Goto(w, "validate_write",
                 [Load(loc[w].todo) EXCEPT !.ok = loc[w].ok])
       ELSE Reply(w)
  /\ UNCHANGED <<status, reason, items>>

\* Written only if all items were valid, without another look at the order.
ValidateEnd(w) ==
  /\ pc[w] = "validate_end"
  /\ status' = IF status = "deleted" THEN status ELSE "validated"
  /\ Reply(w)
  /\ UNCHANGED <<reason, items>>

(***************************************************************************)
(* Submit, and PATCH and DELETE of the order itself                        *)
(***************************************************************************)
SubmitRead(w) ==
  /\ Begin(w, "submit")
  /\ status = "validated"
  /\ reason
  /\ Goto(w, "submit_write", NoLoc)
  /\ UNCHANGED <<status, reason, items>>

SubmitWrite(w) ==
  /\ pc[w] = "submit_write"
  /\ status' = IF status = "deleted" THEN status ELSE "submitted"
  /\ Reply(w)
  /\ UNCHANGED <<reason, items>>

\* Mutant of OrderRead: validated orders may be patched and deleted too.
OrderReadEarly(w, call) ==
  /\ Begin(w, call)
  /\ Editable(TRUE)
  /\ Goto(w, call, NoLoc)
  /\ UNCHANGED <<status, reason, items>>

\* PATCH and DELETE read the status first, and write in a second step.
OrderRead(w, call) ==
  /\ Begin(w, call)
  /\ status = "draft"
  /\ Goto(w, call, NoLoc)
  /\ UNCHANGED <<status, reason, items>>

PatchWrite(w, filled) ==
  /\ pc[w] = "patch"
  /\ reason' = IF status = "deleted" THEN reason ELSE filled
  /\ Reply(w)
  /\ UNCHANGED <<status, items>>

DeleteWrite(w) ==
  /\ pc[w] = "delete"
  /\ status' = "deleted"
  /\ items' = [i \in Items |->
                 [items[i] EXCEPT !.row = IF @ = "present" THEN "gone" ELSE @]]
  /\ Reply(w)
  /\ UNCHANGED reason

\* The worker is killed: what it had committed stays.
Crash(w) ==
  /\ pc[w] \in CrashAt \ {"idle"}
  /\ Reply(w)
  /\ UNCHANGED <<status, reason, items>>

Next ==
  \E w \in Workers :
    \/ \E params \in Params : AddRead(w, params)
    \/ \E i \in Items, params \in Params : UpdateRead(w, i, params)
    \/ \E i \in Items : RemoveRead(w, i)
    \/ ValidateRead(w) \/ SubmitRead(w)
    \/ \E call \in {"patch", "delete"} : OrderRead(w, call)
    \/ AddWrite(w)
    \/ UpdateWrite(w) \/ UpdateRecheck(w) \/ UpdateReset(w)
    \/ RemoveWrite(w)
    \/ ValidateWrite(w) \/ ValidateLoad(w) \/ ValidateEnd(w)
    \/ SubmitWrite(w)
    \/ \E filled \in BOOLEAN : PatchWrite(w, filled)
    \/ DeleteWrite(w)
    \/ Crash(w)

Spec == Init /\ [][Next]_vars

(***************************************************************************)
(* Properties                                                              *)
(***************************************************************************)
\* The types of the order's and the items' columns and of the workers' locals.
TypeOK ==
  /\ status \in OrderStatus \cup {"deleted"}
  /\ reason \in BOOLEAN
  /\ items \in [Items -> [row : {"unused", "present", "gone"},
                          params : Params, checked : ItemValidationState]]
  /\ pc \in [Workers -> PC]
  /\ loc \in [Workers -> [item : Items \cup {0}, params : Params,
                          checked : ItemValidationState, ok : BOOLEAN,
                          todo : SUBSET Items]]

AllSound ==
  Present # {} /\ \A i \in Present : items[i].params = "good"
                                     /\ items[i].checked = "valid"

\* A validated order has items, all of them valid and rightly so; only an
\* update that is about to reset the order may have disturbed it
\* (validate_order, update_item).
ValidatedIsSound ==
  status = "validated" =>
    \/ AllSound
    \/ \E w \in Workers : pc[w] \in {"update_recheck", "update_reset"}

\* What is submitted has a reason and at least one item, and every item
\* satisfies its template (submit_order tests the order's status only and
\* relies on validate_order for the items).
SubmittedIsSound == status = "submitted" => AllSound /\ reason

\* A submitted order is frozen: no handler changes its items or its reason.
FrozenOnceSubmitted ==
  [][status = "submitted" => UNCHANGED <<items, reason>>]_vars

\* The order's status moves along the table of app/domain/order.py, and only
\* drafts are deleted.
LegalTransitions ==
  [][IF status' = "deleted" THEN status = "draft"
                            ELSE CanTransition(status, status')]_status

(***************************************************************************)
(* What the documentation promises and the code does not keep              *)
(***************************************************************************)
\* "valid" is said of the parameters the item has (EC-89): a validation that
\* runs beside an update does not leave the new parameters marked as valid.
CheckedMeansGood ==
  \A i \in Present : items[i].checked = "valid" => items[i].params = "good"
==============================================================================
