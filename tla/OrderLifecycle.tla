---------------------------- MODULE OrderLifecycle ----------------------------
(***************************************************************************)
(* What the workflow promises about one validated order: its status and    *)
(* the decision on it move together, in single steps, and only along the   *)
(* transitions of app/domain/order.py.  An order is provisioned only when  *)
(* no decision is required or the decision was an approval.                *)
(***************************************************************************)
EXTENDS OrderStatuses

VARIABLES orderStatus, decision

vars == <<orderStatus, decision>>

Init == orderStatus = "validated" /\ decision = "none"

Move(from, to) ==
  /\ orderStatus = from
  /\ CanTransition(from, to)
  /\ orderStatus' = to

Submit == Move("validated", "submitted") /\ UNCHANGED decision

RequestApproval ==
  /\ Move("submitted", "pending_approval")
  /\ decision = "none"
  /\ decision' = "pending"

Decide(verdict) ==
  /\ Move("pending_approval", verdict)
  /\ decision = "pending"
  /\ decision' = verdict

Provision ==
  /\ \/ Move("submitted", "provisioning") /\ decision = "none"
     \/ Move("approved", "provisioning") /\ decision = "approved"
  /\ UNCHANGED decision

Finish == /\ \E end \in {"done", "failed"} : Move("provisioning", end)
          /\ UNCHANGED decision

Next ==
  \/ Submit
  \/ RequestApproval
  \/ \E verdict \in {"approved", "rejected"} : Decide(verdict)
  \/ Provision
  \/ Finish

Spec == Init /\ [][Next]_vars
================================================================================
