------------------------------ MODULE OrderViews ------------------------------
(***************************************************************************)
(* What the portal shows of the order: the lists of orders, approvals and  *)
(* resources, the search (search_service.py, resource_service.py), the     *)
(* dashboard of the portal (dashboard_service.py) and the one of the       *)
(* administrators (api/v1/admin.py).  Each has queries of its own.         *)
(***************************************************************************)
EXTENDS OrderWorkflow

\* role_required and the is_admin of the services: administrators see every
\* order, others their own.
Shown(user, admin) == admin \/ user = Requester

(***************************************************************************)
(* Lists                                                                   *)
(***************************************************************************)
\* The statuses of the orders that the list shows under a filter.
ListOrders(user, admin, filter) ==
  IF Shown(user, admin) THEN {status} \cap filter ELSE {}

\* The same by a pattern that the title matches.
SearchOrders(user, admin) == IF Shown(user, admin) THEN {status} ELSE {}

\* Approvers and administrators see every request.
ListApprovals(user, decides, filter) ==
  IF decides \/ user = Requester THEN {request.status} \cap filter ELSE {}

\* Mutant of ListResources: the status of the order is not asked for.
ListProvisioned(user, admin) ==
  {i \in Items : Shown(user, admin) /\ prov[i] = "done"}

\* list_resources: items that are done, of orders that are done; one item of
\* the list, asked for by its id, is found under the same conditions.
ListResources(user, admin) ==
  {i \in Items : Shown(user, admin) /\ status = "done" /\ prov[i] = "done"}

(***************************************************************************)
(* Dashboards                                                              *)
(***************************************************************************)
\* GROUP BY status: a status that no order has is no key.
OrdersByStatus(user, admin) ==
  [s \in (IF Shown(user, admin) THEN {status} ELSE {}) |-> 1]

\* The administrators' dashboard has a list of the statuses.
AllStatuses ==
  {"draft", "validated", "submitted", "pending_approval", "approved",
   "provisioning", "done", "cancelled", "rejected", "failed"}

AdminOrderCounts == [s \in AllStatuses |-> IF s = status THEN 1 ELSE 0]

\* The number of open requests, the same for everyone.
PendingApprovals      == IF request.status = "pending" THEN 1 ELSE 0
AdminPendingApprovals == Cardinality({r \in {request} : r.status = "pending"})

\* _active_resources of the portal's dashboard looks at the order only.
ActiveResources(user, admin) ==
  IF Shown(user, admin) /\ status = "done" THEN Cardinality(Items) ELSE 0

\* The count of the administrators' dashboard looks at both.
AdminActiveResources ==
  Cardinality({i \in Items : status = "done" /\ prov[i] = "done"})

(***************************************************************************)
(* Properties                                                              *)
(***************************************************************************)
\* Whatever is ordered, approved and provisioned meanwhile, the dashboards
\* count what the lists show, although one of them counts resources without
\* asking for the status of the items (dashboard_service.py:46-52) and the
\* other counts orders under statuses written down a second time
\* (admin.py:83): no order falls through either.
DashboardsAgree ==
  \A user \in Approvers \cup {Requester}, admin \in BOOLEAN :
    /\ \A s \in OrderStatus :
         LET listed == Cardinality(ListOrders(user, admin, {s})) IN
         /\ (s \in DOMAIN OrdersByStatus(user, admin)) = (listed > 0)
         /\ admin => s \in AllStatuses /\ AdminOrderCounts[s] = listed
    /\ SearchOrders(user, admin) = ListOrders(user, admin, OrderStatus)
    /\ Cardinality(ListApprovals(user, TRUE, {"pending"})) = PendingApprovals
    /\ AdminPendingApprovals = PendingApprovals
    /\ ActiveResources(user, admin) = Cardinality(ListResources(user, admin))
    /\ AdminActiveResources = ActiveResources(user, TRUE)
==============================================================================
