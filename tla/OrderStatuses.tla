---------------------------- MODULE OrderStatuses ----------------------------
(***************************************************************************)
(* The status vocabulary of orders and order items (app/domain/order.py,   *)
(* app/domain/provisioning.py): the values, and the transition tables that *)
(* the domain classes publish.  The repositories write statuses without    *)
(* consulting the tables, so here they serve as the yardstick the other    *)
(* modules are measured against.                                           *)
(***************************************************************************)

\* Allowed successors of every order status; terminal statuses have none.
Transitions ==
  [ draft            |-> {"validated"},
    validated        |-> {"submitted", "draft"},
    submitted        |-> {"provisioning", "pending_approval"},
    pending_approval |-> {"approved", "rejected"},
    approved         |-> {"provisioning"},
    provisioning     |-> {"done", "failed"},
    done             |-> {},
    failed           |-> {},
    rejected         |-> {} ]

OrderStatus == DOMAIN Transitions

CanTransition(from, to) == to \in Transitions[from]

IsTerminal(s) == s \in {"done", "failed", "rejected"}

ItemValidationState == {"unchecked", "valid", "invalid"}

\* Allowed successors of the provisioning status of an order item.
ItemTransitions ==
  [ not_started  |-> {"pending"},
    pending      |-> {"provisioning", "failed"},
    provisioning |-> {"done", "failed"},
    done         |-> {},
    failed       |-> {} ]

ProvisioningStatus == DOMAIN ItemTransitions

CanTransitionItem(from, to) == to \in ItemTransitions[from]

\* GitLab pipeline status -> provisioning status.  GitLab knows more statuses
\* than the four that are mapped ("canceled" stands for all the others); an
\* unmapped one leaves the item's status as it was.
GitlabStatusMap ==
  [ pending |-> "pending",
    running |-> "provisioning",
    success |-> "done",
    failed  |-> "failed" ]

PipelineStatus == DOMAIN GitlabStatusMap \cup {"canceled"}

\* Mutant of MapPipelineStatus: GitLab's word is taken over as it is.
RawPipelineStatus(pipelineStatus, old) ==
  IF pipelineStatus \in PipelineStatus THEN pipelineStatus ELSE old

\* Mutant of MapPipelineStatus: a status that is not mapped counts as the end.
UnmappedIsDone(pipelineStatus, old) ==
  IF pipelineStatus \in DOMAIN GitlabStatusMap
    THEN GitlabStatusMap[pipelineStatus]
    ELSE "done"

MapPipelineStatus(pipelineStatus, old) ==
  IF pipelineStatus \in DOMAIN GitlabStatusMap
    THEN GitlabStatusMap[pipelineStatus]
    ELSE old
==============================================================================
