-------------------------- MODULE OrderGroupsProofs --------------------------
(***************************************************************************)
(* Groups and their limit, for any orders, items and workers, however the  *)
(* calls overlap.                                                          *)
(***************************************************************************)
EXTENDS OrderGroups, FiniteSetTheorems, TLAPS

\* Workers on their way to insert a group into order o.
Creating(o) ==
  {w \in Workers : pc[w] \in {"group_position", "group_insert"}
                     /\ groupLoc[w].order = o}

\* The group was made for an order under which the item is named.
MadeFor(k, i) == made[k] \in Orders /\ i \in Addressed[made[k]]

\* What the workers hold fits the step they stand at; in particular, a group
\* about to be assigned was made for an order the item was named under,
\* deleted or not.
LocalsFit ==
  \A w \in Workers :
    /\ pc[w] \in {"group_position", "group_insert"} => groupLoc[w].order \in Orders
    /\ pc[w] = "group_insert" => groupLoc[w].position \in Positions
    /\ pc[w] = "assign" =>
         /\ groupLoc[w].item \in Items
         /\ groupLoc[w].group # NoGroup =>
              MadeFor(groupLoc[w].group, groupLoc[w].item)
    /\ pc[w] = "group_delete" => groupLoc[w].group \in GroupIds

GroupInv ==
  /\ GroupTypeOK
  /\ pc \in [Workers -> GroupPC]
  /\ LocalsFit
  /\ GroupsBelong

\* Groups and what is on its way to become one; the limit alone is not kept
\* by InsertGroup.
LimitInv ==
  \A o \in Orders :
    Cardinality(Groups(o)) + Cardinality(Creating(o))
      < GroupLimit + Cardinality(Workers)

\* Nothing is there at the beginning.
LEMMA GroupInitInv == GroupInit => GroupInv
BY GroupAssumption DEF GroupInit, PcInit, NoGroupLoc, GroupInv, GroupTypeOK,
   GroupPC, LocalsFit, GroupsBelong

\* The local variables of a worker that begins a call.
LEMMA NewLocals ==
  /\ NoGroupLoc = [order |-> NoGroup, group |-> NoGroup, item |-> NoGroup, position |-> 0]
  /\ \A o : [NoGroupLoc EXCEPT !.order = o] =
       [order |-> o, group |-> NoGroup, item |-> NoGroup, position |-> 0]
  /\ \A k : [NoGroupLoc EXCEPT !.group = k] =
       [order |-> NoGroup, group |-> k, item |-> NoGroup, position |-> 0]
  /\ \A i, k : [NoGroupLoc EXCEPT !.item = i, !.group = k] =
       [order |-> NoGroup, group |-> k, item |-> i, position |-> 0]
<1>1. \A o : [NoGroupLoc EXCEPT !.order = o] =
       [order |-> o, group |-> NoGroup, item |-> NoGroup, position |-> 0]
  BY DEF NoGroupLoc
<1>2. \A k : [NoGroupLoc EXCEPT !.group = k] =
       [order |-> NoGroup, group |-> k, item |-> NoGroup, position |-> 0]
  BY DEF NoGroupLoc
<1>3. \A i, k : [NoGroupLoc EXCEPT !.item = i, !.group = k] =
       [order |-> NoGroup, group |-> k, item |-> i, position |-> 0]
  <2> TAKE i, k
  <2>1. [NoGroupLoc EXCEPT !.item = i, !.group = k]
          = [[NoGroupLoc EXCEPT !.item = i] EXCEPT !.group = k]
    OBVIOUS
  <2>2. [NoGroupLoc EXCEPT !.item = i]
          = [order |-> NoGroup, group |-> NoGroup, item |-> i, position |-> 0]
    BY DEF NoGroupLoc
  <2>3. [[order |-> NoGroup, group |-> NoGroup, item |-> i, position |-> 0]
           EXCEPT !.group = k] = [order |-> NoGroup, group |-> k, item |-> i, position |-> 0]
    OBVIOUS
  <2> QED BY <2>1, <2>2, <2>3
<1> QED BY <1>1, <1>2, <1>3 DEF NoGroupLoc

\* Steps that move one worker and leave the tables alone.
LEMMA LocalStep ==
  ASSUME GroupInv, NEW w \in Workers, NEW label \in GroupPC,
         NEW l \in [order : Orders \cup {NoGroup}, group : GroupIds \cup {NoGroup},
                    item : Items \cup {NoGroup}, position : Positions \cup {0}],
         pc' = [pc EXCEPT ![w] = label], groupLoc' = [groupLoc EXCEPT ![w] = l],
         UNCHANGED <<editable, made, position, groupOf>>,
         label \in {"group_position", "group_insert"} => l.order \in Orders,
         label = "group_insert" => l.position \in Positions,
         label = "assign" => l.item \in Items
                             /\ (l.group # NoGroup => MadeFor(l.group, l.item)),
         label = "group_delete" => l.group \in GroupIds
  PROVE  GroupInv'
<1>1. GroupTypeOK' /\ pc' \in [Workers -> GroupPC]
  BY DEF GroupInv, GroupTypeOK
<1>2. LocalsFit'
  BY DEF GroupInv, GroupTypeOK, LocalsFit, MadeFor
<1>3. GroupsBelong'
  BY DEF GroupInv, GroupsBelong, Groups, Present
<1> QED BY <1>1, <1>2, <1>3 DEF GroupInv

\* Each step keeps types, locals and membership.
LEMMA GroupNextInv == GroupInv /\ [GroupNext]_groupVars => GroupInv'
<1> SUFFICES ASSUME GroupInv, [GroupNext]_groupVars PROVE GroupInv'
  OBVIOUS
<1> USE DEF Begin, At, Goto, HoldGroup, EndGroup, GroupPC
<1>1. ASSUME NEW w \in Workers, NEW o \in Orders, CreateGroupRead(w, o) PROVE GroupInv'
  BY <1>1, LocalStep, NewLocals, GroupAssumption DEF CreateGroupRead
<1>2. ASSUME NEW w \in Workers, NEW o \in Orders, ToggleEditable(w, o) PROVE GroupInv'
  BY <1>2 DEF ToggleEditable, GroupInv, GroupTypeOK, LocalsFit, MadeFor, GroupsBelong, Groups, Present
<1>3. ASSUME NEW w \in Workers, NEW o \in Orders, NEW moved \in SUBSET Present,
             NEW places \in [moved -> Positions], ReorderGroups(w, o, places)
      PROVE  GroupInv'
  <2>1. /\ position' = [k \in GroupIds |-> IF k \in moved THEN places[k] ELSE position[k]]
        /\ UNCHANGED <<pc, editable, made, groupOf, groupLoc>>
    BY <1>3 DEF ReorderGroups, Present
  <2>2. \A k \in moved : places[k] \in Positions /\ places[k] # 0
    BY GroupAssumption DEF Positions
  <2>3. \A k \in GroupIds : position'[k] \in Positions \cup {0}
          /\ (position[k] # 0 => position'[k] # 0)
    BY <2>1, <2>2 DEF GroupInv, GroupTypeOK
  <2>4. GroupTypeOK' /\ LocalsFit' /\ pc' \in [Workers -> GroupPC]
    BY <2>1, <2>3 DEF GroupInv, GroupTypeOK, LocalsFit, MadeFor
  <2>5. GroupsBelong'
    BY <2>1, <2>3 DEF GroupInv, GroupsBelong, Groups, Present
  <2> QED BY <2>4, <2>5 DEF GroupInv
<1>4. ASSUME NEW w \in Workers, ReadPosition(w) PROVE GroupInv'
  <2>1. PICK p \in Positions : groupLoc' = [groupLoc EXCEPT ![w] =
                                  [groupLoc[w] EXCEPT !.position = p]]
    BY <1>4 DEF ReadPosition
  <2>2. groupLoc[w].order \in Orders
    BY <1>4 DEF ReadPosition, GroupInv, LocalsFit, MadeFor
  <2>3. [groupLoc[w] EXCEPT !.position = p]
          \in [order : Orders \cup {NoGroup}, group : GroupIds \cup {NoGroup},
               item : Items \cup {NoGroup}, position : Positions \cup {0}]
        /\ [groupLoc[w] EXCEPT !.position = p].order = groupLoc[w].order
        /\ [groupLoc[w] EXCEPT !.position = p].position = p
    BY <2>1 DEF GroupInv, GroupTypeOK
  <2> QED BY <1>4, <2>1, <2>2, <2>3, LocalStep DEF ReadPosition
<1>5. ASSUME NEW w \in Workers, InsertRefused(w) PROVE GroupInv'
  BY <1>5, LocalStep, NewLocals, GroupAssumption DEF InsertRefused
<1>6. ASSUME NEW w \in Workers, NEW k \in GroupIds, InsertGroup(w, k) PROVE GroupInv'
  <2>1. /\ groupLoc[w].order \in Orders /\ groupLoc[w].position \in Positions
        /\ made[k] = NoGroup
        /\ made' = [made EXCEPT ![k] = groupLoc[w].order]
        /\ position' = [position EXCEPT ![k] = groupLoc[w].position]
        /\ pc' = [pc EXCEPT ![w] = "idle"]
        /\ groupLoc' = [groupLoc EXCEPT ![w] = NoGroupLoc]
        /\ UNCHANGED <<editable, groupOf>>
    <3>1. k >= k
      BY GroupAssumption DEF GroupIds
    <3> QED BY <1>6, <3>1 DEF InsertGroup, GroupInv, LocalsFit, MadeFor
  <2>2. GroupTypeOK' /\ pc' \in [Workers -> GroupPC]
    BY <2>1, NewLocals, GroupAssumption DEF GroupInv, GroupTypeOK
  <2>3. \A j \in GroupIds : made[j] \in Orders => made'[j] = made[j] /\ position'[j] = position[j]
    BY <2>1, GroupAssumption DEF GroupInv, GroupTypeOK
  <2>5. LocalsFit'
    BY <2>1, <2>3 DEF GroupInv, GroupTypeOK, LocalsFit, MadeFor
  <2>6. GroupsBelong'
    BY <2>1, <2>3 DEF GroupInv, GroupTypeOK, GroupsBelong, Groups, Present
  <2> QED BY <2>2, <2>5, <2>6 DEF GroupInv
<1>7. ASSUME NEW w \in Workers, NEW o \in Orders, NEW k \in GroupIds,
             DeleteGroupRead(w, o, k)
      PROVE  GroupInv'
  BY <1>7, LocalStep, NewLocals, GroupAssumption DEF DeleteGroupRead, Present
<1>8. ASSUME NEW w \in Workers, DeleteGroup(w) PROVE GroupInv'
  <2> DEFINE k == groupLoc[w].group
  <2>1. /\ k \in GroupIds
        /\ position' = [position EXCEPT ![k] = 0]
        /\ groupOf' = [i \in Items |-> IF groupOf[i] = k THEN NoGroup ELSE groupOf[i]]
        /\ pc' = [pc EXCEPT ![w] = "idle"]
        /\ groupLoc' = [groupLoc EXCEPT ![w] = NoGroupLoc]
        /\ UNCHANGED <<editable, made>>
    BY <1>8 DEF DeleteGroup, GroupInv, LocalsFit, MadeFor
  <2>2. GroupTypeOK' /\ pc' \in [Workers -> GroupPC]
    BY <2>1, NewLocals, GroupAssumption DEF GroupInv, GroupTypeOK
  <2>3. LocalsFit'
    BY <2>1 DEF GroupInv, GroupTypeOK, LocalsFit, MadeFor
  <2>4. GroupsBelong'
    BY <2>1 DEF GroupInv, GroupTypeOK, GroupsBelong, Groups, Present
  <2> QED BY <2>2, <2>3, <2>4 DEF GroupInv
<1>9. ASSUME NEW w \in Workers, NEW o \in Orders, NEW i \in Items,
             NEW k \in GroupIds \cup {NoGroup}, AssignRead(w, o, i, k)
      PROVE  GroupInv'
  <2>1. k # NoGroup => MadeFor(k, i)
    BY <1>9 DEF AssignRead, Groups, Present, MadeFor
  <2> QED BY <1>9, <2>1, LocalStep, NewLocals DEF AssignRead
<1>10. ASSUME NEW w \in Workers, Assign(w) PROVE GroupInv'
  <2> DEFINE l == groupLoc[w]
  <2>1. /\ l.item \in Items /\ l.group \in GroupIds \cup {NoGroup}
        /\ l.group # NoGroup => MadeFor(l.group, l.item)
        /\ pc' = [pc EXCEPT ![w] = "idle"]
        /\ groupLoc' = [groupLoc EXCEPT ![w] = NoGroupLoc]
        /\ UNCHANGED <<editable, made, position>>
    BY <1>10 DEF Assign, GroupInv, GroupTypeOK, LocalsFit, MadeFor
  <2>2. \/ groupOf' = groupOf
        \/ /\ groupOf' = [groupOf EXCEPT ![l.item] = l.group]
           /\ l.group = NoGroup \/ position[l.group] # 0
    BY <1>10 DEF Assign
  <2>3. GroupTypeOK' /\ pc' \in [Workers -> GroupPC]
    BY <2>1, <2>2, NewLocals, GroupAssumption DEF GroupInv, GroupTypeOK
  <2>4. LocalsFit'
    BY <2>1 DEF GroupInv, GroupTypeOK, LocalsFit, MadeFor
  <2>5. GroupsBelong'
    BY <2>1, <2>2 DEF GroupInv, GroupTypeOK, GroupsBelong, Groups, Present, MadeFor
  <2> QED BY <2>3, <2>4, <2>5 DEF GroupInv
<1>11. ASSUME UNCHANGED groupVars PROVE GroupInv'
  BY <1>11 DEF groupVars, GroupInv, GroupTypeOK, LocalsFit, MadeFor, GroupsBelong, Groups, Present
<1> QED BY <1>1, <1>2, <1>3, <1>4, <1>5, <1>6, <1>7, <1>8, <1>9, <1>10, <1>11 DEF GroupNext

\* An item is in no group, or in one that is there, of an order a client named
\* it under, its own or another: for any number of orders, items and workers.
THEOREM Membership == GroupSpec => []GroupsBelong
<1>1. GroupInv => GroupsBelong
  BY DEF GroupInv
<1> QED BY <1>1, GroupInitInv, GroupNextInv, PTL DEF GroupSpec

\* The sets that are counted are finite.
LEMMA FewGroups ==
  /\ Cardinality(Workers) \in Nat
  /\ \A o : /\ IsFiniteSet(Groups(o)) /\ Cardinality(Groups(o)) \in Nat
            /\ IsFiniteSet(Creating(o)) /\ Cardinality(Creating(o)) \in Nat
            /\ Cardinality(Creating(o)) <= Cardinality(Workers)
<1>1. IsFiniteSet(GroupIds) /\ IsFiniteSet(Workers)
  BY GroupAssumption, FS_Interval DEF GroupIds
<1>2. \A o : Groups(o) \subseteq GroupIds /\ Creating(o) \subseteq Workers
  BY DEF Groups, Present, Creating
<1> QED BY <1>1, <1>2, FS_Subset, FS_CardinalityType

\* The same one step later.
LEMMA FewGroupsNext ==
  \A o : /\ IsFiniteSet(Groups(o)') /\ Cardinality(Groups(o)') \in Nat
         /\ IsFiniteSet(Creating(o)') /\ Cardinality(Creating(o)') \in Nat
         /\ Cardinality(Creating(o)') <= Cardinality(Workers)
<1>1. IsFiniteSet(GroupIds) /\ IsFiniteSet(Workers)
  BY GroupAssumption, FS_Interval DEF GroupIds
<1>2. \A o : Groups(o)' \subseteq GroupIds /\ Creating(o)' \subseteq Workers
  BY DEF Groups, Present, Creating
<1> QED BY <1>1, <1>2, FS_Subset, FS_CardinalityType

\* Fewer groups and fewer calls that create one.
LEMMA FewerGroups ==
  ASSUME LimitInv, NEW o \in Orders,
         Groups(o)' \subseteq Groups(o), Creating(o)' \subseteq Creating(o)
  PROVE  Cardinality(Groups(o)') + Cardinality(Creating(o)')
           < GroupLimit + Cardinality(Workers)
<1>1. Cardinality(Groups(o)') <= Cardinality(Groups(o))
      /\ Cardinality(Creating(o)') <= Cardinality(Creating(o))
  BY FewGroups, FS_Subset
<1> QED BY <1>1, FewGroups, FewGroupsNext, GroupAssumption DEF LimitInv

\* There are neither groups nor calls.
LEMMA LimitInitInv == GroupInit => LimitInv
<1> SUFFICES ASSUME GroupInit, NEW o \in Orders
             PROVE  Cardinality(Groups(o)) + Cardinality(Creating(o))
                      < GroupLimit + Cardinality(Workers)
  BY DEF LimitInv
<1>1. Groups(o) = {} /\ Creating(o) = {}
  BY DEF GroupInit, PcInit, Groups, Present, Creating
<1>2. Cardinality(Groups(o)) = 0 /\ Cardinality(Creating(o)) = 0
  BY <1>1, FS_EmptySet
<1> QED BY <1>2, FewGroups, GroupAssumption

\* A call that begins adds itself to at most as many as there are workers,
\* while the groups are below the limit.
LEMMA LimitCreate ==
  ASSUME GroupInv, LimitInv, NEW w \in Workers, NEW p \in Orders, CreateGroupRead(w, p)
  PROVE  LimitInv'
<1> USE DEF Begin, Goto, HoldGroup
<1> SUFFICES ASSUME NEW o \in Orders
             PROVE  Cardinality(Groups(o)') + Cardinality(Creating(o)')
                      < GroupLimit + Cardinality(Workers)
  BY DEF LimitInv
<1>1. Groups(o)' = Groups(o)
  BY DEF CreateGroupRead, Groups, Present
<1>2. CASE o = p
  BY <1>1, <1>2, FewGroups, FewGroupsNext, GroupAssumption DEF CreateGroupRead
<1>3. CASE o # p
  <2>1. groupLoc' = [groupLoc EXCEPT ![w] =
                       [order |-> p, group |-> NoGroup, item |-> NoGroup, position |-> 0]]
    BY NewLocals DEF CreateGroupRead
  <2>2. Creating(o)' \subseteq Creating(o)
    BY <1>3, <2>1 DEF CreateGroupRead, Creating, GroupInv, GroupTypeOK
  <2> QED BY <1>1, <2>2, FewerGroups
<1> QED BY <1>2, <1>3

\* A group that is inserted was counted as a call before.
LEMMA LimitInsert ==
  ASSUME GroupInv, LimitInv, NEW w \in Workers, NEW k \in GroupIds, InsertGroup(w, k)
  PROVE  LimitInv'
<1> USE DEF At, Goto, HoldGroup, EndGroup
<1> SUFFICES ASSUME NEW o \in Orders
             PROVE  Cardinality(Groups(o)') + Cardinality(Creating(o)')
                      < GroupLimit + Cardinality(Workers)
  BY DEF LimitInv
<1>1. /\ pc[w] = "group_insert" /\ pc' = [pc EXCEPT ![w] = "idle"]
      /\ groupLoc' = [groupLoc EXCEPT ![w] = NoGroupLoc]
      /\ made' = [made EXCEPT ![k] = groupLoc[w].order]
      /\ position' = [position EXCEPT ![k] = groupLoc[w].position]
  BY DEF InsertGroup
<1>2. Creating(o)' = Creating(o) \ {w}
  BY <1>1 DEF Creating, GroupInv, GroupTypeOK
<1>3. CASE o = groupLoc[w].order
  <2>1. Groups(o)' \subseteq Groups(o) \cup {k}
    BY <1>1 DEF Groups, Present, GroupInv, GroupTypeOK
  <2>2. Cardinality(Groups(o)') <= Cardinality(Groups(o)) + 1
    <3>1. IsFiniteSet(Groups(o) \cup {k})
          /\ Cardinality(Groups(o) \cup {k}) <= Cardinality(Groups(o)) + 1
      <4>1. IsFiniteSet(Groups(o)) /\ Cardinality(Groups(o)) \in Nat
        BY FewGroups
      <4>2. /\ IsFiniteSet(Groups(o) \cup {k})
            /\ Cardinality(Groups(o) \cup {k}) =
                 IF k \in Groups(o) THEN Cardinality(Groups(o))
                                   ELSE Cardinality(Groups(o)) + 1
        BY <4>1, FS_AddElement
      <4> QED BY <4>1, <4>2
    <3>2. Cardinality(Groups(o)') <= Cardinality(Groups(o) \cup {k})
          /\ Cardinality(Groups(o) \cup {k}) \in Nat
      BY <2>1, <3>1, FS_Subset, FS_CardinalityType
    <3> QED BY <3>1, <3>2, FewGroups, FewGroupsNext
  <2>3. w \in Creating(o)
    BY <1>1, <1>3 DEF Creating
  <2>4. Cardinality(Creating(o)') = Cardinality(Creating(o)) - 1
    BY <1>2, <2>3, FewGroups, FS_RemoveElement
  <2> QED BY <2>2, <2>4, FewGroups, FewGroupsNext, GroupAssumption DEF LimitInv
<1>4. CASE o # groupLoc[w].order
  <2>1. Groups(o)' \subseteq Groups(o)
    BY <1>1, <1>4 DEF Groups, Present, GroupInv, GroupTypeOK
  <2> QED BY <1>2, <2>1, FewerGroups
<1> QED BY <1>3, <1>4

\* Whatever else happens adds neither a group nor a call that creates one.
LEMMA LimitOther ==
  ASSUME GroupInv, LimitInv, [GroupNext]_groupVars,
         ~ \E w \in Workers, o \in Orders : CreateGroupRead(w, o),
         ~ \E w \in Workers, k \in GroupIds : InsertGroup(w, k)
  PROVE  LimitInv'
<1> USE DEF Begin, At, Goto, HoldGroup, EndGroup
<1> SUFFICES ASSUME NEW o \in Orders
             PROVE  Groups(o)' \subseteq Groups(o) /\ Creating(o)' \subseteq Creating(o)
  BY FewerGroups DEF LimitInv
<1>1. ASSUME NEW w \in Workers, ReadPosition(w)
      PROVE  Groups(o)' \subseteq Groups(o) /\ Creating(o)' \subseteq Creating(o)
  <2>1. pc[w] = "group_position" /\ UNCHANGED <<made, position>>
        /\ pc' = [pc EXCEPT ![w] = "group_insert"]
        /\ \E p \in Positions : groupLoc' = [groupLoc EXCEPT ![w] = [@ EXCEPT !.position = p]]
    BY <1>1 DEF ReadPosition
  <2>2. \A v \in Workers : groupLoc'[v].order = groupLoc[v].order
    BY <2>1 DEF GroupInv, GroupTypeOK
  <2> QED BY <2>1, <2>2 DEF Groups, Present, Creating, GroupInv
<1>2. ASSUME NEW w \in Workers, InsertRefused(w) \/ DeleteGroup(w) \/ Assign(w)
      PROVE  Groups(o)' \subseteq Groups(o) /\ Creating(o)' \subseteq Creating(o)
  <2>1. pc' = [pc EXCEPT ![w] = "idle"] /\ groupLoc' = [groupLoc EXCEPT ![w] = NoGroupLoc]
        /\ made' = made
        /\ (position' = position \/ position' = [position EXCEPT ![groupLoc[w].group] = 0])
    BY <1>2 DEF InsertRefused, DeleteGroup, Assign
  <2>2. \A k \in GroupIds : position'[k] = position[k] \/ position'[k] = 0
    BY <2>1 DEF GroupInv, GroupTypeOK
  <2>3. Groups(o)' \subseteq Groups(o)
    BY <2>1, <2>2 DEF Groups, Present
  <2>4. Creating(o)' \subseteq Creating(o)
    BY <2>1 DEF Creating, GroupInv, GroupTypeOK
  <2> QED BY <2>3, <2>4
<1>3. ASSUME NEW w \in Workers, NEW p \in Orders, NEW k \in GroupIds,
             DeleteGroupRead(w, p, k)
      PROVE  Groups(o)' \subseteq Groups(o) /\ Creating(o)' \subseteq Creating(o)
  BY <1>3 DEF DeleteGroupRead, Groups, Present, Creating, GroupInv, GroupTypeOK
<1>4. ASSUME NEW w \in Workers, NEW p \in Orders, NEW i \in Items,
             NEW k \in GroupIds \cup {NoGroup}, AssignRead(w, p, i, k)
      PROVE  Groups(o)' \subseteq Groups(o) /\ Creating(o)' \subseteq Creating(o)
  BY <1>4 DEF AssignRead, Groups, Present, Creating, GroupInv, GroupTypeOK
<1>5. ASSUME NEW w \in Workers, NEW p \in Orders, NEW moved \in SUBSET Present,
             NEW places \in [moved -> Positions], ReorderGroups(w, p, places)
      PROVE  Groups(o)' \subseteq Groups(o) /\ Creating(o)' \subseteq Creating(o)
  <2>1. \A k \in GroupIds : position'[k] = position[k] \/ k \in moved
    BY <1>5 DEF ReorderGroups, Present
  <2>2. \A k \in moved : position[k] # 0
    BY DEF Groups, Present
  <2> QED BY <1>5, <2>1, <2>2 DEF ReorderGroups, Groups, Present, Creating
<1>6. ASSUME NEW w \in Workers, NEW p \in Orders, ToggleEditable(w, p)
      PROVE  Groups(o)' \subseteq Groups(o) /\ Creating(o)' \subseteq Creating(o)
  BY <1>6 DEF ToggleEditable, Groups, Present, Creating
<1>7. ASSUME UNCHANGED groupVars
      PROVE  Groups(o)' \subseteq Groups(o) /\ Creating(o)' \subseteq Creating(o)
  BY <1>7 DEF groupVars, Groups, Present, Creating
<1> QED BY <1>1, <1>2, <1>3, <1>4, <1>5, <1>6, <1>7 DEF GroupNext

\* The limit is passed by at most one group for every further worker: for any
\* limit and any number of orders and workers.
THEOREM Limit == GroupSpec => []GroupLimitNearlyKept
<1>1. GroupInv /\ LimitInv /\ [GroupNext]_groupVars => LimitInv'
  BY LimitCreate, LimitInsert, LimitOther
<1>2. LimitInv => GroupLimitNearlyKept
  BY FewGroups, GroupAssumption DEF LimitInv, GroupLimitNearlyKept
<1> QED BY <1>1, <1>2, GroupInitInv, GroupNextInv, LimitInitInv, PTL DEF GroupSpec
==============================================================================
