----------------------------- MODULE OrderGroups -----------------------------
(***************************************************************************)
(* The groups that sort the items of draft orders (api/v1/order_groups.py, *)
(* the group part of PATCH on items, order_repository.py from create_group *)
(* on).  Names and descriptions are left out: a name that is taken already *)
(* ends a call without effect.                                             *)
(*                                                                         *)
(* A call names an order and, under it, groups and items.  Whether these   *)
(* belong to the order is tested by assign_item_to_group only, and only of *)
(* the group.                                                              *)
(***************************************************************************)
EXTENDS Handlers, Naturals, FiniteSets

CONSTANTS
  Orders,
  Items,        \* the items
  Addressed,    \* Addressed[o]: the items that clients name under order o
  MaxGroups,    \* bound on the groups ever created
  GroupLimit,   \* groups an order may have (20)
  MaxPosition,  \* bound on positions
  NoGroup       \* null

GroupIds == 1 .. MaxGroups

ASSUME GroupAssumption ==
  /\ MaxGroups \in Nat
  /\ Addressed \in [Orders -> SUBSET Items]
  /\ NoGroup \notin GroupIds
  /\ NoGroup \notin Orders
  /\ GroupLimit \in Nat \ {0}
  /\ MaxPosition \in Nat \ {0}
  /\ IsFiniteSet(Workers)

GroupPC == {"idle", "group_position", "group_insert", "group_delete", "assign"}

Positions == 1 .. MaxPosition

VARIABLES
  editable,  \* editable[o]: is orders.status "draft"?
  made,      \* made[k]: the order of group k, once it is created
  position,  \* position[k]: where it stands in its order, 0 if it is gone
  groupOf,   \* groupOf[i]: order_items.group_id
  groupLoc   \* what a worker's session and local variables hold

groupVars == <<pc, editable, made, position, groupOf, groupLoc>>

NoGroupLoc == [order |-> NoGroup, group |-> NoGroup, item |-> NoGroup, position |-> 0]

GroupInit ==
  /\ PcInit
  /\ editable = [o \in Orders |-> TRUE]
  /\ made = [k \in GroupIds |-> NoGroup]
  /\ position = [k \in GroupIds |-> 0]
  /\ groupOf = [i \in Items |-> NoGroup]
  /\ groupLoc = [w \in Workers |-> NoGroupLoc]

Present   == {k \in GroupIds : position[k] # 0}
Groups(o) == {k \in Present : made[k] = o}

HoldGroup(w, label, local) ==
  /\ Goto(w, label)
  /\ groupLoc' = [groupLoc EXCEPT ![w] = local]

EndGroup(w) == HoldGroup(w, "idle", NoGroupLoc)

(***************************************************************************)
(* POST /orders/<id>/groups                                                *)
(***************************************************************************)
\* Mutant of CreateGroupRead: one group too many.
CreateGroupReadPast(w, o) ==
  /\ Begin(w, "create_group")
  /\ editable[o]
  /\ Cardinality(Groups(o)) <= GroupLimit
  /\ HoldGroup(w, "group_position", [NoGroupLoc EXCEPT !.order = o])
  /\ UNCHANGED <<editable, made, position, groupOf>>

\* _assert_editable, and the count of groups.
CreateGroupRead(w, o) ==
  /\ Begin(w, "create_group")
  /\ editable[o]
  /\ Cardinality(Groups(o)) < GroupLimit
  /\ HoldGroup(w, "group_position", [NoGroupLoc EXCEPT !.order = o])
  /\ UNCHANGED <<editable, made, position, groupOf>>

\* The greatest position and one: a query of its own.
ReadPosition(w) ==
  LET taken == {position[k] : k \in Groups(groupLoc[w].order)}
      next  == CHOOSE p \in 1 .. MaxPosition + 1 :
                 /\ \A q \in taken : q < p
                 /\ p = 1 \/ p - 1 \in taken
  IN
  /\ At(w, "group_position")
  /\ next \in Positions
  /\ HoldGroup(w, "group_insert", [groupLoc[w] EXCEPT !.position = next])
  /\ UNCHANGED <<editable, made, position, groupOf>>

InsertGroup(w, k) ==
  /\ At(w, "group_insert")
  /\ \A j \in GroupIds : made[j] = NoGroup <=> j >= k
  /\ made' = [made EXCEPT ![k] = groupLoc[w].order]
  /\ position' = [position EXCEPT ![k] = groupLoc[w].position]
  /\ EndGroup(w)
  /\ UNCHANGED <<editable, groupOf>>

\* The name was taken by another group: 409.
InsertRefused(w) ==
  /\ At(w, "group_insert")
  /\ EndGroup(w)
  /\ UNCHANGED <<editable, made, position, groupOf>>

(***************************************************************************)
(* DELETE /orders/<id>/groups/<id>, PUT /orders/<id>/groups/reorder        *)
(***************************************************************************)
\* A group with items is not deleted.
DeleteGroupRead(w, o, k) ==
  /\ Begin(w, "delete_group")
  /\ editable[o]
  /\ k \in Present
  /\ \A i \in Items : groupOf[i] # k
  /\ HoldGroup(w, "group_delete", [NoGroupLoc EXCEPT !.group = k])
  /\ UNCHANGED <<editable, made, position, groupOf>>

\* Mutant of DeleteGroup: the foreign key does nothing on delete.
DeleteGroupOnly(w) ==
  LET k == groupLoc[w].group IN
  /\ At(w, "group_delete")
  /\ position' = [position EXCEPT ![k] = 0]
  /\ EndGroup(w)
  /\ UNCHANGED <<editable, made, groupOf>>

\* The foreign key clears group_id of an item that has come meanwhile.
DeleteGroup(w) ==
  LET k == groupLoc[w].group IN
  /\ At(w, "group_delete")
  /\ position' = [position EXCEPT ![k] = 0]
  /\ groupOf' = [i \in Items |-> IF groupOf[i] = k THEN NoGroup ELSE groupOf[i]]
  /\ EndGroup(w)
  /\ UNCHANGED <<editable, made>>

\* Any groups that are there, to any positions.
ReorderGroups(w, o, places) ==
  /\ Begin(w, "reorder_groups")
  /\ editable[o]
  /\ DOMAIN places \subseteq Present
  /\ position' = [k \in GroupIds |-> IF k \in DOMAIN places THEN places[k]
                                                            ELSE position[k]]
  /\ UNCHANGED <<pc, editable, made, groupOf, groupLoc>>

(***************************************************************************)
(* PATCH /orders/<id>/items/<id> with a group_id                           *)
(***************************************************************************)
AssignRead(w, o, i, k) ==
  /\ Begin(w, "assign")
  /\ editable[o]
  /\ i \in Addressed[o]
  /\ k \in Groups(o) \cup {NoGroup}
  /\ HoldGroup(w, "assign", [NoGroupLoc EXCEPT !.item = i, !.group = k])
  /\ UNCHANGED <<editable, made, position, groupOf>>

\* A group that is gone violates the foreign key.
Assign(w) ==
  LET l == groupLoc[w] IN
  /\ At(w, "assign")
  /\ groupOf' = IF l.group = NoGroup \/ position[l.group] # 0
                  THEN [groupOf EXCEPT ![l.item] = l.group] ELSE groupOf
  /\ EndGroup(w)
  /\ UNCHANGED <<editable, made, position>>

\* The order is validated, or goes back to draft (OrderEditing).
ToggleEditable(w, o) ==
  /\ Begin(w, "toggle")
  /\ editable' = [editable EXCEPT ![o] = ~@]
  /\ UNCHANGED <<pc, made, position, groupOf, groupLoc>>

GroupNext ==
  \E w \in Workers :
    \/ \E o \in Orders :
         \/ CreateGroupRead(w, o) \/ ToggleEditable(w, o)
         \/ \E moved \in SUBSET Present : \E places \in [moved -> Positions] :
              ReorderGroups(w, o, places)
         \/ \E k \in GroupIds : DeleteGroupRead(w, o, k)
         \/ \E i \in Items, k \in GroupIds \cup {NoGroup} : AssignRead(w, o, i, k)
    \/ ReadPosition(w) \/ InsertRefused(w)
    \/ \E k \in GroupIds : InsertGroup(w, k)
    \/ DeleteGroup(w) \/ Assign(w)

GroupSpec == GroupInit /\ [][GroupNext]_groupVars

(***************************************************************************)
(* Properties                                                              *)
(***************************************************************************)
\* Rows and locals have their types.
GroupTypeOK ==
  /\ editable \in [Orders -> BOOLEAN]
  /\ made \in [GroupIds -> Orders \cup {NoGroup}]
  /\ position \in [GroupIds -> Positions \cup {0}]
  /\ groupOf \in [Items -> GroupIds \cup {NoGroup}]
  /\ groupLoc \in [Workers -> [order : Orders \cup {NoGroup},
                               group : GroupIds \cup {NoGroup},
                               item : Items \cup {NoGroup},
                               position : Positions \cup {0}]]

\* An item lies in no group or in one that is there, whatever is deleted while
\* it is assigned: the dangling reference of EC-04 (order-groups-quantity.md)
\* cannot come about.  The group belongs to an order under which a client
\* named the item; that need not be the item's own order, as EC-05 and VAL-07
\* demand, for assign_item_to_group compares the group's order only.
GroupsBelong ==
  \A i \in Items :
    groupOf[i] # NoGroup => \E o \in Orders : groupOf[i] \in Groups(o) /\ i \in Addressed[o]

\* create_group counts, and inserts two steps later: the limit is passed by
\* at most one group for every other worker that may be creating one
\* (order_repository.py:169).
GroupLimitNearlyKept ==
  \A o \in Orders : Cardinality(Groups(o)) < GroupLimit + Cardinality(Workers)
==============================================================================
