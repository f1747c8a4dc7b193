---------------------------- MODULE OrderCreation ----------------------------
(***************************************************************************)
(* How orders come into being (POST /orders): the context is resolved      *)
(* against the CMDB and the tenants of the requester, the order gets the   *)
(* next number of the year, and the row is inserted (order_service.py      *)
(* create_order, context_service.py, order_repository.py).  An             *)
(* administrator assigns tenants meanwhile.                                *)
(*                                                                         *)
(* The CMDB is what the stub client loads when the process starts.  Order  *)
(* numbers are compared as strings, as the database does.                  *)
(***************************************************************************)
EXTENDS Handlers, Naturals, FiniteSets

CONSTANTS
  Users,      \* requesters
  Locations,  \* ids the CMDB has
  Tenants,
  Zones,
  Networks,   \* the CMDB's networks, [id, location, zone]
  Nothing,    \* an id that is missing, empty or null
  Unknown,    \* an id the CMDB does not have
  Base,       \* base of the digits in an order number
  Limit,      \* the greatest number that fits the padding (99999)
  MaxNumber   \* bound on the numbers ever given out

\* One digit more than the padding has is as far as numbers go.
ASSUME CreationAssumption ==
  /\ Base \in Nat \ {0, 1}
  /\ Limit \in Nat \ {0}
  /\ MaxNumber \in Limit .. Base * (Limit + 1) - 1
  /\ Nothing # Unknown
  /\ {Nothing, Unknown} \cap (Locations \cup Tenants \cup Zones
                               \cup {n.id : n \in Networks}) = {}

Numbers == 1 .. MaxNumber

\* create_order's context: the empty one is not resolved, but stored.
NoContext == [location |-> Nothing, tenant |-> Nothing, zone |-> Nothing,
              network |-> Nothing]

Contexts ==
  [location : Locations \cup {Nothing, Unknown},
   tenant   : Tenants \cup {Nothing, Unknown},
   zone     : Zones \cup {Nothing, Unknown},
   network  : {n.id : n \in Networks} \cup {Nothing, Unknown}]

VARIABLES
  used,        \* the order_numbers of the rows of orders
  assigned,    \* user_tenant_assignments: the tenants of each user
  creationLoc  \* the number a worker has read for its order, or 0

creationVars == <<pc, used, assigned, creationLoc>>

CreationInit ==
  /\ PcInit
  /\ used = {}
  /\ assigned \in [Users -> SUBSET Tenants]
  /\ creationLoc = [w \in Workers |-> 0]

(***************************************************************************)
(* context_service.py: what is offered, and what is accepted               *)
(***************************************************************************)
\* get_networks with both filters.
NetworksAt(location, zone) ==
  {n \in Networks : n.location = location /\ n.zone = zone}

\* get_allowed_tenant_ids: without any assignment every tenant is allowed.
AllowedTenants(user) == IF assigned[user] = {} THEN Tenants ELSE assigned[user]

\* What the selection boxes for tenants and networks show.
OfferedTenants(user)            == {t \in Tenants : t \in AllowedTenants(user)}
OfferedNetworks(location, zone) == {n.id : n \in NetworksAt(location, zone)}

\* Mutant of Resolves: the network may lie anywhere.
ResolvesAnyNetwork(ids, c) ==
  /\ c.location \in Locations
  /\ c.tenant \in Tenants
  /\ ids # {} => c.tenant \in ids
  /\ c.zone \in Zones
  /\ NetworksAt(c.location, c.zone) # {}
  /\ c.network = Nothing \/ \E n \in Networks : n.id = c.network

\* _do_resolve raises nothing, for a user with the assignments ids.
Resolves(ids, c) ==
  /\ c.location \in Locations
  /\ c.tenant \in Tenants
  /\ ids # {} => c.tenant \in ids
  /\ c.zone \in Zones
  /\ NetworksAt(c.location, c.zone) # {}
  /\ \/ c.network = Nothing
     \/ \E n \in Networks : n.id = c.network /\ n.location = c.location
                            /\ n.zone = c.zone

(***************************************************************************)
(* Order numbers                                                           *)
(***************************************************************************)
\* Digits are compared from the left: a number that needs one digit more
\* counts as if its last digit were a fraction.
Aligned(n) == IF n > Limit THEN n ELSE Base * n

SortsBefore(m, n) == Aligned(m) < Aligned(n) \/ (Aligned(m) = Aligned(n) /\ m < n)

\* Mutant of NextNumber: as many as there are, and one.
NextByCount == Cardinality(used) + 1

\* get_next_order_number: the greatest as a string, and one.
NextNumber ==
  IF used = {} THEN 1
  ELSE 1 + CHOOSE n \in used : \A m \in used \ {n} : SortsBefore(m, n)

(***************************************************************************)
(* POST /orders, DELETE /orders/<id>                                       *)
(***************************************************************************)
HoldCreation(w, label, number) ==
  /\ Goto(w, label)
  /\ creationLoc' = [creationLoc EXCEPT ![w] = number]

EndCreation(w) == HoldCreation(w, "idle", 0)

\* A title that is too short or too long ends the call at once, as a context
\* that does not resolve does.  A database error while the assignments are
\* read counts as if the user had none (get_allowed_tenant_ids).
CreateRead(w, user, c) ==
  /\ Begin(w, "create_order")
  /\ c = NoContext \/ \E ids \in {assigned[user], {}} : Resolves(ids, c)
  /\ HoldCreation(w, "read_number", 0)
  /\ UNCHANGED <<used, assigned>>

ReadNumber(w) ==
  /\ At(w, "read_number")
  /\ NextNumber \in Numbers
  /\ HoldCreation(w, "insert", NextNumber)
  /\ UNCHANGED <<used, assigned>>

\* order_number is unique: an insert that comes second fails with an error
\* nobody catches, and the order is lost.
Insert(w) ==
  /\ At(w, "insert")
  /\ used' = used \cup {creationLoc[w]}
  /\ EndCreation(w)
  /\ UNCHANGED assigned

\* Only drafts are deleted, and what is created here stays one.
DeleteOrder(w, n) ==
  /\ Begin(w, "delete_order")
  /\ n \in used
  /\ used' = used \ {n}
  /\ UNCHANGED <<pc, assigned, creationLoc>>

(***************************************************************************)
(* /admin/context/tenant-assignments                                       *)
(***************************************************************************)
\* (user, tenant) is unique: a second assignment is a conflict.
AssignTenant(w, user, tenant) ==
  /\ Begin(w, "assign_tenant")
  /\ tenant \notin assigned[user]
  /\ assigned' = [assigned EXCEPT ![user] = @ \cup {tenant}]
  /\ UNCHANGED <<pc, used, creationLoc>>

DeleteAssignment(w, user, tenant) ==
  /\ Begin(w, "delete_assignment")
  /\ tenant \in assigned[user]
  /\ assigned' = [assigned EXCEPT ![user] = @ \ {tenant}]
  /\ UNCHANGED <<pc, used, creationLoc>>

CreationNext ==
  \E w \in Workers :
    \/ \E user \in Users, c \in Contexts : CreateRead(w, user, c)
    \/ ReadNumber(w) \/ Insert(w)
    \/ \E n \in Numbers : DeleteOrder(w, n)
    \/ \E user \in Users, tenant \in Tenants :
         AssignTenant(w, user, tenant) \/ DeleteAssignment(w, user, tenant)

CreationSpec == CreationInit /\ [][CreationNext]_creationVars

(***************************************************************************)
(* Properties                                                              *)
(***************************************************************************)
\* The selection boxes and the check agree: a context made of what the
\* endpoints under /context offer a user is accepted by _do_resolve, and
\* nothing else is; only a zone without networks is offered in vain.  This is
\* so while the assignments can be read: without them all tenants pass.
OfferedIsAccepted ==
  \A user \in Users, c \in Contexts :
    Resolves(assigned[user], c) <=>
      /\ c.location \in Locations
      /\ c.tenant \in OfferedTenants(user)
      /\ c.zone \in Zones
      /\ OfferedNetworks(c.location, c.zone) # {}
      /\ c.network \in OfferedNetworks(c.location, c.zone) \cup {Nothing}

\* The number read for an order is free at that moment, drafts deleted or not,
\* until the padding overflows (order_repository.py:30): then the string
\* maximum no longer grows.
FreshNumber ==
  [][\A w \in Workers :
       At(w, "read_number") /\ ~At(w, "read_number")'
         => creationLoc'[w] \notin used \/ Limit + 1 \in used]_creationVars
==============================================================================
