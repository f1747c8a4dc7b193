-------------------------- MODULE SatelliteProofs --------------------------
(***************************************************************************)
(* Theorems about what surrounds an order: its number and context, the     *)
(* notifications, the rules about contexts and the seed script.  Each part *)
(* stands for itself, for any number of workers and rows; the parts share  *)
(* no variable but pc.                                                     *)
(***************************************************************************)
EXTENDS OrderCreation, Notifications, ContextRules, SeedData,
        FiniteSetTheorems, WellFoundedInduction, TLAPS

\* A set of numbers has a least one.
LEMMA LeastNumber ==
  ASSUME NEW S \in SUBSET Nat, S # {}
  PROVE  \E i \in S : \A j \in S : i <= j
<1> DEFINE pairs == {ss \in Nat \X Nat : ss[1] < ss[2]}
<1>1. PICK i \in S : \A j \in S : <<j, i>> \notin pairs
  <2> DEFINE less == OpToRel(<, Nat)
  <2>1. IsWellFoundedOn(less, Nat)
    BY NatLessThanWellFounded
  <2>2. less = pairs
    BY DEF OpToRel
  <2> HIDE DEF less, pairs
  <2> QED BY <2>1, <2>2, WFMin
<1>2. ASSUME NEW j \in S PROVE i <= j
  <2>1. ~(<<j, i>>[1] < <<j, i>>[2])
    BY <1>1
  <2> QED BY <2>1
<1> QED BY <1>2

\* A set of numbers below a bound has a greatest one.
LEMMA GreatestNumber ==
  ASSUME NEW S \in SUBSET Nat, S # {}, NEW bound \in Nat, \A i \in S : i <= bound
  PROVE  \E i \in S : \A j \in S : j <= i
<1> DEFINE missing == {bound - i : i \in S}
<1>1. missing \in SUBSET Nat /\ missing # {}
  <2>1. ASSUME NEW i \in S PROVE bound - i \in Nat
    BY <2>1
  <2> QED BY <2>1
<1>2. PICK m \in missing : \A k \in missing : m <= k
  BY <1>1, LeastNumber
<1>3. PICK i \in S : m = bound - i
  OBVIOUS
<1>4. ASSUME NEW j \in S PROVE j <= i
  <2>1. bound - i <= bound - j
    BY <1>2, <1>3
  <2> QED BY <2>1
<1> QED BY <1>4

-----------------------------------------------------------------------------
(* Notifications *)

NotePC == {"idle", "note_mark"}

\* A notification that has been counted is read, and what a worker is about to
\* mark has been sent.
NoteInv ==
  /\ pc \in [Workers -> NotePC]
  /\ notes \in [Notes -> {"absent", "unread", "read"}]
  /\ counted \in [Notes -> Nat]
  /\ noteLoc \in [Workers -> Notes \cup {NoNote}]
  /\ \A w \in Workers :
       pc[w] = "note_mark" => noteLoc[w] \in Notes /\ notes[noteLoc[w]] # "absent"
  /\ CountsAddUp

\* Every step keeps NoteInv.
LEMMA NoteStep == ASSUME NoteInv, [NoteNext]_noteVars PROVE NoteInv'
<1> USE DEF NoteInv, NotePC, CountsAddUp, Unread, Begin, At, Goto, Reply
<1>1. ASSUME NEW w \in Workers, NEW n \in Notes, Send(w, n) PROVE NoteInv'
  BY <1>1 DEF Send
<1>2. ASSUME NEW w \in Workers, NEW n \in Notes, MarkReadRead(w, n) PROVE NoteInv'
  BY <1>2 DEF MarkReadRead
<1>3. ASSUME NEW w \in Workers, MarkReadWrite(w) PROVE NoteInv'
  BY <1>3 DEF MarkReadWrite
<1>4. ASSUME NEW w \in Workers, MarkAllRead(w) PROVE NoteInv'
  BY <1>4 DEF MarkAllRead, Marked
<1>5. CASE UNCHANGED noteVars
  BY <1>5 DEF noteVars
<1> QED BY <1>1, <1>2, <1>3, <1>4, <1>5 DEF NoteNext

\* However marking one and marking all overlap, the counts that mark_all_read
\* replies add up to what the badge loses by it.
THEOREM BadgeCountsAddUp == NoteSpec => []CountsAddUp
<1>1. NoteInit => NoteInv
  BY DEF NoteInit, PcInit, NoteInv, NotePC, CountsAddUp
<1>2. NoteInv /\ [NoteNext]_noteVars => NoteInv'
  BY NoteStep
<1>3. NoteInv => CountsAddUp
  BY DEF NoteInv
<1> QED BY <1>1, <1>2, <1>3, PTL DEF NoteSpec

-----------------------------------------------------------------------------
(* Orders: contexts and numbers *)

\* What the selection boxes offer and what _do_resolve accepts are the same,
\* whatever the CMDB has and whoever was assigned to which tenant.
THEOREM WhatIsOfferedIsAccepted == CreationSpec => []OfferedIsAccepted
<1>1. ASSUME NEW user \in Users, NEW c \in Contexts
      PROVE  Resolves(assigned[user], c) <=>
               /\ c.location \in Locations
               /\ c.tenant \in OfferedTenants(user)
               /\ c.zone \in Zones
               /\ OfferedNetworks(c.location, c.zone) # {}
               /\ c.network \in OfferedNetworks(c.location, c.zone) \cup {Nothing}
  <2>1. c.tenant \in OfferedTenants(user) <=>
          c.tenant \in Tenants /\ (assigned[user] # {} => c.tenant \in assigned[user])
    BY DEF OfferedTenants, AllowedTenants
  <2>2. OfferedNetworks(c.location, c.zone) = {} <=> NetworksAt(c.location, c.zone) = {}
    BY DEF OfferedNetworks
  <2>3. c.network \in OfferedNetworks(c.location, c.zone) <=>
          \E n \in Networks : n.id = c.network /\ n.location = c.location
                              /\ n.zone = c.zone
    BY DEF OfferedNetworks, NetworksAt
  <2> QED BY <2>1, <2>2, <2>3 DEF Resolves
<1>2. OfferedIsAccepted
  BY <1>1 DEF OfferedIsAccepted
<1> QED BY <1>2, PTL

CreationPC == {"idle", "read_number", "insert"}

\* Numbers are at most as great as the bound, in the table and on the way.
CreationInv ==
  /\ pc \in [Workers -> CreationPC]
  /\ used \in SUBSET Numbers
  /\ assigned \in [Users -> SUBSET Tenants]
  /\ creationLoc \in [Workers -> Nat]
  /\ \A w \in Workers : pc[w] = "insert" => creationLoc[w] \in Numbers

\* Every step keeps CreationInv.
LEMMA CreationStep ==
  ASSUME CreationInv, [CreationNext]_creationVars
  PROVE  CreationInv'
<1> USE DEF CreationInv, CreationPC, Begin, At, Goto, HoldCreation, EndCreation
<1>1. ASSUME NEW w \in Workers, NEW user \in Users, NEW c \in Contexts,
             CreateRead(w, user, c)
      PROVE  CreationInv'
  BY <1>1 DEF CreateRead
<1>2. ASSUME NEW w \in Workers, ReadNumber(w) PROVE CreationInv'
  <2> DEFINE number == NextNumber
  <2>1. number \in Numbers /\ number \in Nat
    BY <1>2 DEF ReadNumber, Numbers
  <2>2. /\ At(w, "read_number") /\ HoldCreation(w, "insert", number)
        /\ UNCHANGED <<used, assigned>>
    BY <1>2 DEF ReadNumber
  <2> HIDE DEF number
  <2> QED BY <2>1, <2>2
<1>3. ASSUME NEW w \in Workers, Insert(w) PROVE CreationInv'
  BY <1>3 DEF Insert
<1>4. ASSUME NEW w \in Workers, NEW n \in Numbers, DeleteOrder(w, n)
      PROVE  CreationInv'
  BY <1>4 DEF DeleteOrder
<1>5. ASSUME NEW w \in Workers, NEW user \in Users, NEW tenant \in Tenants,
             AssignTenant(w, user, tenant) \/ DeleteAssignment(w, user, tenant)
      PROVE  CreationInv'
  BY <1>5 DEF AssignTenant, DeleteAssignment
<1>6. CASE UNCHANGED creationVars
  BY <1>6 DEF creationVars
<1> QED BY <1>1, <1>2, <1>3, <1>4, <1>5, <1>6 DEF CreationNext

\* Numbers of the padded length are aligned in their own order.
LEMMA AlignedGrows ==
  ASSUME NEW m \in Nat, NEW n \in Nat, m < n, n <= Limit
  PROVE  Aligned(m) < Aligned(n) /\ Aligned(m) \in Nat /\ Aligned(n) \in Nat
<1>1. Base \in Nat \ {0} /\ Limit \in Nat
  BY CreationAssumption
<1>2. Base * n = Base * m + Base * (n - m)
  BY <1>1
<1>3. Base * (n - m) \in Nat \ {0} /\ Base * m \in Nat
  BY <1>1
<1> QED BY <1>1, <1>2, <1>3 DEF Aligned

\* A set of numbers has a greatest one as strings: the greatest of those that
\* fit the padding, or the greatest of the others.
LEMMA GreatestString ==
  ASSUME NEW S \in SUBSET Numbers, S # {}
  PROVE  \E n \in S : \A m \in S \ {n} : SortsBefore(m, n)
<1>0. Limit \in Nat /\ MaxNumber \in Nat /\ Base \in Nat /\ S \subseteq Nat
  BY CreationAssumption DEF Numbers
<1> DEFINE padded == {n \in S : n <= Limit}
           longer == {n \in S : n > Limit}
<1>1. ASSUME padded # {}
      PROVE  \E n \in padded : \A m \in padded : m <= n
  BY <1>0, <1>1, GreatestNumber
<1>2. ASSUME longer # {}
      PROVE  \E n \in longer : \A m \in longer : m <= n
  <2>1. \A n \in longer : n <= MaxNumber
    BY DEF Numbers
  <2> QED BY <1>0, <1>2, <2>1, GreatestNumber
<1>3. ASSUME NEW n \in padded, \A m \in padded : m <= n
      PROVE  \A m \in padded \ {n} : SortsBefore(m, n)
  BY <1>0, <1>3, AlignedGrows DEF SortsBefore
<1>4. ASSUME NEW n \in longer, \A m \in longer : m <= n
      PROVE  \A m \in longer \ {n} : SortsBefore(m, n)
  BY <1>0, <1>4 DEF SortsBefore, Aligned
<1>5. CASE longer = {}
  <2>1. S = padded
    <3>1. ASSUME NEW n \in S PROVE n <= Limit
      <4>1. n \in Nat /\ n \notin longer
        BY <1>0, <1>5
      <4> QED BY <1>0, <4>1
    <3> QED BY <3>1
  <2>2. PICK n \in padded : \A m \in padded : m <= n
    BY <1>1, <2>1
  <2>3. \A m \in padded \ {n} : SortsBefore(m, n)
    BY <1>3, <2>2
  <2> QED BY <2>1, <2>3
<1>6. CASE padded = {}
  <2>1. S = longer
    <3>1. ASSUME NEW n \in S PROVE n > Limit
      <4>1. n \in Nat /\ n \notin padded
        BY <1>0, <1>6
      <4> QED BY <1>0, <4>1
    <3> QED BY <3>1
  <2>2. PICK n \in longer : \A m \in longer : m <= n
    BY <1>2, <2>1
  <2>3. \A m \in longer \ {n} : SortsBefore(m, n)
    BY <1>4, <2>2
  <2> QED BY <2>1, <2>3
<1>7. CASE padded # {} /\ longer # {}
  <2>1. PICK a \in padded : \A m \in padded : m <= a
    BY <1>1, <1>7
  <2>2. PICK b \in longer : \A m \in longer : m <= b
    BY <1>2, <1>7
  <2>3. \A m \in S : Aligned(m) \in Nat
    BY <1>0 DEF Aligned
  <2>4. SortsBefore(a, b) \/ SortsBefore(b, a)
    BY <1>0, <2>1, <2>2, <2>3 DEF SortsBefore
  <2>5. \A k, m, n \in S : SortsBefore(k, m) /\ SortsBefore(m, n) => SortsBefore(k, n)
    BY <1>0, <2>3 DEF SortsBefore
  <2>6. \A m \in S : m \in padded \/ m \in longer
    BY <1>0
  <2>7. (\A m \in padded \ {a} : SortsBefore(m, a))
        /\ (\A m \in longer \ {b} : SortsBefore(m, b))
    BY <1>3, <1>4, <2>1, <2>2
  <2>8. a \in S /\ b \in S /\ padded \subseteq S /\ longer \subseteq S
    OBVIOUS
  <2> HIDE DEF padded, longer
  <2> QED BY <2>4, <2>5, <2>6, <2>7, <2>8
<1> QED BY <1>5, <1>6, <1>7

\* While the padding has not overflowed, the number after the greatest string
\* is free.
LEMMA NextIsFree ==
  ASSUME used \in SUBSET Numbers, Limit + 1 \notin used
  PROVE  NextNumber \notin used
<1>0. Limit \in Nat /\ Base \in Nat /\ used \subseteq Nat
  BY CreationAssumption DEF Numbers
<1>1. CASE used = {}
  BY <1>1
<1>2. CASE used # {}
  <2> DEFINE last == CHOOSE n \in used : \A m \in used \ {n} : SortsBefore(m, n)
  <2>1. last \in used /\ \A m \in used \ {last} : SortsBefore(m, last)
    BY <1>2, GreatestString
  <2>2. NextNumber = 1 + last
    BY <1>2 DEF NextNumber
  <2> HIDE DEF last
  <2> SUFFICES ASSUME last + 1 \in used PROVE FALSE
    BY <1>0, <2>1, <2>2
  <2>3. last \in Nat /\ SortsBefore(last + 1, last)
    BY <1>0, <2>1
  <2>4. CASE last < Limit
    <3>1. Aligned(last) < Aligned(last + 1)
          /\ Aligned(last) \in Nat /\ Aligned(last + 1) \in Nat
      BY <1>0, <2>3, <2>4, AlignedGrows
    <3> QED BY <2>3, <3>1 DEF SortsBefore
  <2>5. CASE last > Limit
    BY <1>0, <2>3, <2>5 DEF SortsBefore, Aligned
  <2> QED BY <1>0, <2>3, <2>4, <2>5
<1> QED BY <1>1, <1>2

\* The number a worker reads is free at that moment, however many drafts were
\* deleted, until the padding overflows.
THEOREM NumbersAreFresh == CreationSpec => FreshNumber
<1> DEFINE Fresh ==
      \A w \in Workers :
        At(w, "read_number") /\ ~At(w, "read_number")'
          => creationLoc'[w] \notin used \/ Limit + 1 \in used
<1>1. CreationInit => CreationInv
  BY DEF CreationInit, PcInit, CreationInv, CreationPC, Numbers
<1>2. CreationInv /\ [CreationNext]_creationVars => CreationInv'
  BY CreationStep
<1>3. ASSUME CreationInv, [CreationNext]_creationVars PROVE [Fresh]_creationVars
  <2> SUFFICES ASSUME NEW w \in Workers, pc[w] = "read_number",
                      pc'[w] # "read_number", Limit + 1 \notin used
               PROVE  creationLoc'[w] \notin used
    BY DEF At
  <2> USE DEF CreationInv, Begin, At, Goto, HoldCreation, EndCreation
  <2>1. ASSUME NEW v \in Workers, ReadNumber(v) PROVE creationLoc'[w] \notin used
    <3> DEFINE number == NextNumber
    <3>1. number \notin used
      BY <1>3, NextIsFree
    <3>2. HoldCreation(v, "insert", number)
      BY <2>1 DEF ReadNumber
    <3> HIDE DEF number
    <3>3. v = w
      BY <1>3, <3>2
    <3> QED BY <1>3, <3>1, <3>2, <3>3
  <2>2. ASSUME NEW v \in Workers, NEW user \in Users, NEW c \in Contexts,
               CreateRead(v, user, c)
        PROVE  FALSE
    BY <1>3, <2>2 DEF CreateRead
  <2>3. ASSUME NEW v \in Workers, Insert(v) PROVE FALSE
    BY <1>3, <2>3 DEF Insert
  <2>4. ASSUME NEW v \in Workers, NEW n \in Numbers, DeleteOrder(v, n) PROVE FALSE
    BY <2>4 DEF DeleteOrder
  <2>5. ASSUME NEW v \in Workers, NEW user \in Users, NEW tenant \in Tenants,
               AssignTenant(v, user, tenant) \/ DeleteAssignment(v, user, tenant)
        PROVE  FALSE
    BY <2>5 DEF AssignTenant, DeleteAssignment
  <2>6. ~UNCHANGED creationVars
    BY DEF creationVars
  <2> QED BY <1>3, <2>1, <2>2, <2>3, <2>4, <2>5, <2>6 DEF CreationNext
<1>4. CreationSpec => [][Fresh]_creationVars
  BY <1>1, <1>2, <1>3, PTL DEF CreationSpec
<1> QED BY <1>4 DEF FreshNumber

-----------------------------------------------------------------------------
(* The seed script *)

UpTos == {"draft", "validated", "submitted", "done"}

DemoRows == [of : DOMAIN Demo, items : Nat, status : UpTos \cup {"pending_approval"}]

StartRows == [stage : Stages, at : Nat, row : Nat, todo : SUBSET Nat]

\* The statuses of a demo order that is made to reach upTo.
OnTheWay(upTo) == {"draft"} \cup {PathTo(upTo)[k] : k \in DOMAIN PathTo(upTo)}

\* What a start has at hand fits its stage.
StartFits(s) ==
  /\ start[s].stage = "templates" => start[s].at \in DOMAIN Templates
  /\ start[s].stage = "orders" =>
       /\ start[s].at \in DOMAIN Demo
       /\ start[s].row \in 0 .. Len(demo)
       /\ start[s].row # 0 =>
            demo[start[s].row].status \in OnTheWay(Demo[start[s].at].upTo)
  /\ start[s].stage # "orders" => start[s].row = 0
  /\ start[s].stage = "rest" => start[s].at \in DOMAIN Rest

SeedTypes ==
  /\ templates \in [DOMAIN Templates -> {"absent", "active", "retired"}]
  /\ demo \in Seq(DemoRows)
  /\ always \in Nat
  /\ rest \in [DOMAIN Rest -> Nat]
  /\ start \in [Starts -> StartRows]

\* A start that has created the first template, and is not through.
Past(s) ==
  \/ start[s].stage \in {"orders", "rule", "find", "request", "pending", "rest"}
  \/ start[s].stage = "templates" /\ start[s].at # 1

\* What is there when a start that is past the first template stands where it
\* stands.
Progress(s) ==
  LET stage == start[s].stage  at == start[s].at IN
  /\ StartFits(s)
  /\ stage = "templates" => demo = <<>>
  /\ stage = "orders" =>
       \A r \in DOMAIN demo : demo[r].of <= at /\ (demo[r].of = at <=> r = start[s].row)
  /\ stage \in {"templates", "orders", "rule"} => always = 0
  /\ stage # "rest" => \A k \in DOMAIN Rest : rest[k] = 0
  /\ stage = "rest" =>
       /\ rest[at] < Rest[at].rows
       /\ \A k \in DOMAIN Rest : k > at => rest[k] = 0

\* The first template is a lock: one start at most is past it, and before it
\* is created nothing else is.
SeedInv ==
  /\ SeedTypes
  /\ \A s \in Starts : Past(s) => \A q \in Starts : Past(q) => q = s
  /\ templates[1] = "absent" =>
       /\ demo = <<>> /\ always = 0 /\ \A k \in DOMAIN Rest : rest[k] = 0
       /\ \A s \in Starts : ~Past(s)
  /\ \A s \in Starts : Past(s) => Progress(s)
  /\ \A s \in Starts : ~Past(s) =>
       /\ start[s].row = 0
       /\ start[s].stage = "templates" => start[s].at = 1
  /\ SeededOnce

LEMMA Shapes ==
  /\ Len(Templates) = 2 /\ DOMAIN Templates = 1 .. 2
  /\ Len(Demo) = 8 /\ DOMAIN Demo = 1 .. 8
  /\ \A k \in DOMAIN Demo :
       k \in Nat /\ Demo[k].upTo \in UpTos /\ Demo[k].items \in Nat
  /\ Len(Rest) = 5 /\ DOMAIN Rest = 1 .. 5
  /\ \A k \in DOMAIN Rest : Rest[k].rows \in Nat \ {0}
BY DEF Templates, Demo, Rest, UpTos

LEMMA Paths ==
  /\ PathTo("draft") = <<>>
  /\ PathTo("validated") = <<"validated">>
  /\ PathTo("submitted") = <<"validated", "submitted">>
  /\ PathTo("done") = <<"validated", "submitted", "done">>
BY Zenon DEF PathTo

\* The next status of a demo order is on its way, too.
LEMMA StaysOnTheWay ==
  ASSUME NEW upTo \in UpTos, NEW status \in OnTheWay(upTo), status # upTo
  PROVE  Following(PathTo(upTo), status) \in OnTheWay(upTo)
<1>1. CASE upTo = "draft"
  BY <1>1, Paths DEF OnTheWay
<1>2. CASE upTo = "validated"
  BY <1>2, Paths DEF OnTheWay, Following
<1>3. CASE upTo = "submitted"
  BY <1>3, Paths DEF OnTheWay, Following
<1>4. CASE upTo = "done"
  BY <1>4, Paths DEF OnTheWay, Following
<1> QED BY <1>1, <1>2, <1>3, <1>4 DEF UpTos

LEMMA OnTheWayType ==
  ASSUME NEW upTo \in UpTos
  PROVE  OnTheWay(upTo) \subseteq UpTos
<1>1. OnTheWay("draft") \subseteq UpTos /\ OnTheWay("validated") \subseteq UpTos
  BY Paths DEF OnTheWay, UpTos
<1>2. OnTheWay("submitted") \subseteq UpTos /\ OnTheWay("done") \subseteq UpTos
  BY Paths DEF OnTheWay, UpTos
<1> QED BY <1>1, <1>2 DEF UpTos

LEMMA FirstOfSet ==
  ASSUME NEW S \in SUBSET Nat, S # {}
  PROVE  First(S) \in S
<1>1. \E r \in S : \A q \in S : r <= q
  BY LeastNumber
<1> QED BY <1>1 DEF First

\* The rows that are there have their types.
LEMMA DemoKnown ==
  ASSUME SeedTypes
  PROVE  /\ Len(demo) \in Nat /\ DOMAIN demo = 1 .. Len(demo)
         /\ \A r \in DOMAIN demo :
              /\ demo[r] \in DemoRows /\ demo[r].of \in Nat /\ demo[r].items \in Nat
              /\ demo[r].of \in DOMAIN Demo
              /\ demo[r].status \in UpTos \cup {"pending_approval"}
<1>1. demo \in Seq(DemoRows)
  BY DEF SeedTypes
<1>2. /\ Len(demo) \in Nat /\ DOMAIN demo = 1 .. Len(demo)
      /\ \A r \in DOMAIN demo : demo[r] \in DemoRows
  BY <1>1
<1>3. \A x \in DemoRows : /\ x.of \in 1 .. 8 /\ x.items \in Nat
                          /\ x.status \in UpTos \cup {"pending_approval"}
  BY Shapes DEF DemoRows
<1>4. \A n \in 1 .. 8 : n \in Nat
  OBVIOUS
<1> QED BY <1>2, <1>3, <1>4, Shapes

\* A start is replaced, and the others stand where they stood.
LEMMA StartMoves ==
  ASSUME SeedTypes, NEW s \in Starts, NEW row \in StartRows,
         start' = [start EXCEPT ![s] = row]
  PROVE  /\ start' \in [Starts -> StartRows] /\ start'[s] = row
         /\ \A q \in Starts \ {s} : start'[q] = start[q]
BY DEF SeedTypes

\* What the two kinds of steps of a start do.
LEMMA Stepping ==
  ASSUME SeedTypes, NEW s \in Starts, NEW stage \in Stages, NEW at \in Nat
  PROVE  /\ Step(s, stage, at) =>
              /\ start' \in [Starts -> StartRows]
              /\ \A q \in Starts \ {s} : start'[q] = start[q]
              /\ start'[s].stage = stage /\ start'[s].at = at
              /\ start'[s].row = start[s].row /\ start'[s].todo = start[s].todo
         /\ End(s, stage) =>
              /\ start' \in [Starts -> StartRows]
              /\ \A q \in Starts \ {s} : start'[q] = start[q]
              /\ start'[s].stage = stage /\ start'[s].at = 0 /\ start'[s].row = 0
<1>1. start[s] \in StartRows
  BY DEF SeedTypes
<1> DEFINE next == [start[s] EXCEPT !.stage = stage, !.at = at]
           off  == [Off EXCEPT !.stage = stage]
<1>2. /\ next \in StartRows /\ next.stage = stage /\ next.at = at
      /\ next.row = start[s].row /\ next.todo = start[s].todo
  BY <1>1 DEF StartRows
<1>3. off \in StartRows /\ off.stage = stage /\ off.at = 0 /\ off.row = 0
  BY DEF StartRows, Off
<1>4. Step(s, stage, at) => start' = [start EXCEPT ![s] = next]
  BY DEF Step, SeedTypes
<1>5. End(s, stage) => start' = [start EXCEPT ![s] = off]
  BY DEF End
<1> HIDE DEF next, off
<1> QED BY <1>2, <1>3, <1>4, <1>5, StartMoves

\* A step that only sends starts back, or on to the first template.
LEMMA NobodyPasses ==
  ASSUME SeedInv, UNCHANGED <<demo, always, rest>>, SeedTypes',
         templates[1] # "absent" => templates'[1] # "absent",
         templates[1] = "absent" => UNCHANGED templates,
         \A q \in Starts :
           \/ start'[q] = start[q]
           \/ /\ ~Past(q)' /\ start'[q].row = 0
              /\ start'[q].stage = "templates" => start'[q].at = 1
  PROVE  SeedInv'
<1>1. \A q \in Starts : Past(q)' => Past(q) /\ start'[q] = start[q]
  BY DEF Past
<1>2. \A q \in Starts : start'[q] = start[q] /\ Progress(q) => Progress(q)'
  BY DEF Progress, StartFits
<1> QED BY <1>1, <1>2 DEF SeedInv, SeededOnce, Past

\* A step of the one start that is past the first template, or passes it.
LEMMA OnePasses ==
  ASSUME SeedInv, NEW s \in Starts, SeedTypes', templates'[1] # "absent",
         \A q \in Starts \ {s} : ~Past(q) /\ start'[q] = start[q],
         Past(s)' => Progress(s)',
         ~Past(s)' => /\ start'[s].row = 0
                      /\ start'[s].stage = "templates" => start'[s].at = 1,
         SeededOnce'
  PROVE  SeedInv'
<1>1. \A q \in Starts \ {s} : ~Past(q)'
  BY DEF Past
<1> QED BY <1>1 DEF SeedInv

\* Who stands behind the first template stands there alone.
LEMMA Alone ==
  ASSUME SeedInv, NEW s \in Starts, Past(s)
  PROVE  /\ \A q \in Starts \ {s} : ~Past(q)
         /\ templates[1] # "absent"
         /\ SeedTypes /\ Progress(s) /\ StartFits(s) /\ SeededOnce
BY DEF SeedInv, Progress

\* A start begins, dies or finds a template that is already there.
LEMMA SeedStartUp ==
  ASSUME SeedInv, NEW s \in Starts, StartUp(s) \/ Kill(s)
  PROVE  SeedInv'
<1>1. UNCHANGED <<templates, demo, always, requested, rest>>
  BY DEF StartUp, Kill
<1>2. start[s].stage \in {"off", "serving", "failed"} => start[s].row = 0
  BY DEF SeedInv, Past
<1>3. /\ start' \in [Starts -> StartRows]
      /\ \A q \in Starts \ {s} : start'[q] = start[q]
      /\ start'[s].row = 0 /\ start'[s].stage \in {"serving", "templates", "off"}
      /\ start'[s].stage = "templates" => start'[s].at = 1
  <2>1. SeedTypes /\ {"serving", "templates", "off"} \subseteq Stages
    BY DEF SeedInv, Stages
  <2>2. CASE End(s, "serving") \/ End(s, "off")
    BY <2>1, <2>2, Stepping
  <2>3. CASE start[s].row = 0 /\ Step(s, "templates", 1)
    BY <2>1, <2>3, Stepping
  <2> QED BY <1>2, <2>2, <2>3 DEF StartUp, Kill
<1>4. ~Past(s)'
  BY <1>3 DEF Past
<1>5. SeedTypes'
  BY <1>1, <1>3 DEF SeedInv, SeedTypes
<1> QED BY <1>1, <1>3, <1>4, <1>5, NobodyPasses

\* Whoever creates the first template is alone behind it.
LEMMA SeedTemplate ==
  ASSUME SeedInv, NEW s \in Starts, CreateTemplate(s)
  PROVE  SeedInv'
<1> DEFINE k == start[s].at
<1>0. SeedTypes /\ start[s].stage = "templates" /\ start[s].row = 0 /\ k \in 1 .. 2
  <2>1. SeedTypes /\ start[s].stage = "templates"
    BY DEF CreateTemplate, SeedInv
  <2>2. CASE Past(s)
    BY <2>1, <2>2, Alone, Shapes DEF StartFits
  <2>3. CASE ~Past(s)
    BY <2>1, <2>3 DEF SeedInv
  <2> QED BY <2>1, <2>2, <2>3
<1>1. UNCHANGED <<demo, always, requested, rest>>
  BY DEF CreateTemplate
<1>2. CASE templates[k] # "absent"
  <2>1. End(s, "failed") /\ UNCHANGED templates
    BY <1>2 DEF CreateTemplate
  <2>2. /\ start' \in [Starts -> StartRows]
        /\ \A q \in Starts \ {s} : start'[q] = start[q]
        /\ start'[s].row = 0 /\ start'[s].stage = "failed"
    BY <1>0, <2>1, Stepping DEF Stages
  <2>3. ~Past(s)' /\ SeedTypes'
    BY <1>0, <1>1, <2>1, <2>2 DEF Past, SeedTypes
  <2> QED BY <1>1, <2>1, <2>2, <2>3, NobodyPasses
<1>3. CASE templates[k] = "absent"
  <2>1. templates' = [templates EXCEPT ![k] = "active"]
    BY <1>3 DEF CreateTemplate
  <2>2. /\ start' \in [Starts -> StartRows]
        /\ \A q \in Starts \ {s} : start'[q] = start[q]
        /\ start'[s].row = 0
        /\ \/ k = 1 /\ start'[s].stage = "templates" /\ start'[s].at = 2
           \/ k = 2 /\ start'[s].stage = "orders" /\ start'[s].at = 1
    <3>1. \/ k = 1 /\ Step(s, "templates", 2)
          \/ k = 2 /\ Step(s, "orders", 1)
      BY <1>0, <1>3, Shapes DEF CreateTemplate
    <3>2. {"templates", "orders"} \subseteq Stages
      BY DEF Stages
    <3> QED BY <1>0, <3>1, <3>2, Stepping
  <2>3. demo = <<>> /\ always = 0 /\ \A j \in DOMAIN Rest : rest[j] = 0
    <3>1. CASE k = 1
      BY <1>3, <3>1 DEF SeedInv
    <3>2. CASE k # 1
      BY <1>0, <3>2, Alone DEF Past, Progress
    <3> QED BY <3>1, <3>2
  <2>4. \A q \in Starts \ {s} : ~Past(q)
    <3>1. CASE k = 1
      BY <1>3, <3>1 DEF SeedInv
    <3>2. CASE k # 1
      BY <1>0, <3>2, Alone DEF Past
    <3> QED BY <3>1, <3>2
  <2>5. templates' \in [DOMAIN Templates -> {"absent", "active", "retired"}]
        /\ templates'[1] # "absent"
    <3>1. CASE k = 1
      BY <1>0, <2>1, <3>1, Shapes DEF SeedTypes
    <3>2. CASE k = 2
      <4>1. templates[1] # "absent"
        BY <1>0, <3>2, Alone DEF Past
      <4> QED BY <1>0, <2>1, <3>2, <4>1, Shapes DEF SeedTypes
    <3> QED BY <1>0, <3>1, <3>2
  <2>6. SeedTypes'
    BY <1>0, <1>1, <2>2, <2>5 DEF SeedTypes
  <2>7. Past(s)' /\ Progress(s)'
    <3>1. demo' = <<>> /\ Len(demo') = 0 /\ DOMAIN demo' = {}
      BY <1>1, <2>3
    <3>2. StartFits(s)' /\ Past(s)'
      <4>1. 1 \in DOMAIN Demo /\ 2 \in DOMAIN Templates /\ 0 \in 0 .. Len(demo')
        BY <3>1, Shapes
      <4>2. CASE start'[s].stage = "templates" /\ start'[s].at = 2
        BY <2>2, <4>1, <4>2 DEF StartFits, Past
      <4>3. CASE start'[s].stage = "orders" /\ start'[s].at = 1
        BY <2>2, <4>1, <4>3 DEF StartFits, Past
      <4> QED BY <2>2, <4>2, <4>3
    <3>3. always' = 0 /\ \A j \in DOMAIN Rest : rest'[j] = 0
      BY <1>1, <2>3
    <3>4. start'[s].stage \in {"templates", "orders"}
      BY <2>2
    <3> HIDE DEF k
    <3> QED BY <3>1, <3>2, <3>3, <3>4 DEF Progress
  <2>8. SeededOnce'
    BY <1>1 DEF SeedInv, SeededOnce
  <2> QED BY <2>2, <2>4, <2>5, <2>6, <2>7, <2>8, OnePasses
<1> QED BY <1>2, <1>3

\* Orders are created and led through their statuses by one start.
LEMMA SeedOrder ==
  ASSUME SeedInv, NEW s \in Starts, CreateDemoOrder(s)
  PROVE  SeedInv'
<1>0. Past(s) /\ start[s].stage = "orders" /\ start[s].row = 0
  BY DEF CreateDemoOrder, Past
<1>1. /\ \A q \in Starts \ {s} : ~Past(q)
      /\ templates[1] # "absent"
      /\ SeedTypes /\ Progress(s) /\ StartFits(s) /\ SeededOnce
  BY <1>0, Alone
<1> DEFINE row == [of |-> start[s].at, items |-> 0, status |-> "draft"]
<1>2. UNCHANGED <<templates, always, requested, rest>> /\ demo' = Append(demo, row)
  BY DEF CreateDemoOrder
<1>3. row \in DemoRows /\ demo \in Seq(DemoRows)
  BY <1>0, <1>1 DEF DemoRows, UpTos, StartFits, SeedTypes
<1>4. /\ demo' \in Seq(DemoRows) /\ Len(demo') = Len(demo) + 1 /\ Len(demo) \in Nat
      /\ DOMAIN demo' = 1 .. Len(demo) + 1 /\ DOMAIN demo = 1 .. Len(demo)
      /\ \A r \in DOMAIN demo : demo'[r] = demo[r]
      /\ demo'[Len(demo) + 1] = row
  <2> HIDE DEF row
  <2> QED BY <1>2, <1>3
<1>5. /\ start' \in [Starts -> StartRows]
      /\ \A q \in Starts \ {s} : start'[q] = start[q]
      /\ start'[s].stage = "orders" /\ start'[s].at = start[s].at
      /\ start'[s].row = Len(demo) + 1
  <2> DEFINE made == [start[s] EXCEPT !.row = Len(demo) + 1]
  <2>1. start[s] \in StartRows /\ Len(demo) + 1 \in Nat
    BY <1>1, <1>4 DEF SeedTypes
  <2>2. /\ made \in StartRows /\ made.row = Len(demo) + 1
        /\ made.stage = start[s].stage /\ made.at = start[s].at
    BY <2>1 DEF StartRows
  <2>3. start' = [start EXCEPT ![s] = made]
    BY DEF CreateDemoOrder
  <2> HIDE DEF made
  <2> QED BY <1>0, <1>1, <2>2, <2>3, StartMoves
<1>6. \A r \in DOMAIN demo : demo[r].of < start[s].at
  <2>1. start[s].at \in Nat /\ \A r \in DOMAIN demo : demo[r].of \in Nat
    BY <1>0, <1>1, Shapes, DemoKnown DEF StartFits
  <2>2. \A r \in DOMAIN demo : demo[r].of <= start[s].at /\ (demo[r].of = start[s].at <=> r = 0)
    BY <1>0, <1>1 DEF Progress
  <2>3. 0 \notin DOMAIN demo
    BY <1>4
  <2> QED BY <2>1, <2>2, <2>3
<1>7. SeedTypes'
  BY <1>1, <1>2, <1>4, <1>5 DEF SeedTypes
<1>8. StartFits(s)'
  BY <1>0, <1>1, <1>4, <1>5 DEF StartFits, OnTheWay
<1>9. start[s].at \in Nat /\ \A r \in DOMAIN demo : demo[r].of \in Nat
  BY <1>0, <1>1, Shapes, DemoKnown DEF StartFits
<1>10. Progress(s)'
  BY <1>0, <1>1, <1>2, <1>4, <1>5, <1>6, <1>8, <1>9 DEF Progress
<1>11. SeededOnce'
  BY <1>1, <1>2, <1>4, <1>6, <1>9 DEF SeededOnce
<1>12. Past(s)'
  BY <1>5 DEF Past
<1> QED BY <1>1, <1>2, <1>5, <1>7, <1>10, <1>11, <1>12, OnePasses

\* A row that is changed stays the row of its demo order.
LEMMA RowChanges ==
  ASSUME SeedTypes, NEW r \in DOMAIN demo, NEW row \in DemoRows,
         row.of = demo[r].of, demo' = [demo EXCEPT ![r] = row]
  PROVE  /\ demo' \in Seq(DemoRows)
         /\ Len(demo') = Len(demo) /\ DOMAIN demo' = DOMAIN demo
         /\ \A q \in DOMAIN demo : demo'[q].of = demo[q].of
         /\ demo'[r] = row
<1>1. demo \in Seq(DemoRows)
  BY DEF SeedTypes
<1>2. demo' \in Seq(DemoRows) /\ Len(demo') = Len(demo) /\ DOMAIN demo' = DOMAIN demo
  BY <1>1
<1> QED BY <1>1, <1>2

\* With the same orders there, nothing is there twice that was not before.
LEMMA OrdersAreOnce ==
  ASSUME SeededOnce, DOMAIN demo' = DOMAIN demo,
         \A q \in DOMAIN demo : demo'[q].of = demo[q].of,
         always' <= 1, \A k \in DOMAIN Rest : rest'[k] <= Rest[k].rows
  PROVE  SeededOnce'
BY DEF SeededOnce

\* Items are added to the order at hand, and its status changes.
LEMMA SeedOrderGrows ==
  ASSUME SeedInv, NEW s \in Starts, AddDemoItem(s) \/ AdvanceDemoOrder(s)
  PROVE  SeedInv'
<1> DEFINE r == start[s].row
           k == start[s].at
<1>0. /\ Past(s) /\ start[s].stage = "orders" /\ r # 0
      /\ UNCHANGED <<templates, always, requested, rest, start>>
  BY DEF AddDemoItem, AdvanceDemoOrder, Past
<1>1. /\ \A q \in Starts \ {s} : ~Past(q)
      /\ templates[1] # "absent"
      /\ SeedTypes /\ Progress(s) /\ StartFits(s) /\ SeededOnce
  BY <1>0, Alone
<1>2. /\ k \in DOMAIN Demo /\ r \in DOMAIN demo /\ Demo[k].upTo \in UpTos
      /\ demo[r].status \in OnTheWay(Demo[k].upTo)
  <2>1. k \in DOMAIN Demo /\ r \in 0 .. Len(demo) /\ demo[r].status \in OnTheWay(Demo[k].upTo)
    BY <1>0, <1>1 DEF StartFits
  <2>2. Len(demo) \in Nat /\ DOMAIN demo = 1 .. Len(demo)
    BY <1>1, DemoKnown
  <2>3. r \in DOMAIN demo
    BY <1>0, <2>1, <2>2
  <2> QED BY <2>1, <2>3, Shapes
<1>3. \E row \in DemoRows :
        /\ demo' = [demo EXCEPT ![r] = row] /\ row.of = demo[r].of
        /\ row.status \in OnTheWay(Demo[k].upTo)
  <2>1. demo[r] \in DemoRows /\ demo[r].items \in Nat
    BY <1>1, <1>2, DemoKnown
  <2>2. CASE AddDemoItem(s)
    <3> DEFINE row == [demo[r] EXCEPT !.items = @ + 1]
    <3>1. /\ row \in DemoRows /\ row.of = demo[r].of
          /\ row.status = demo[r].status
      BY <2>1 DEF DemoRows
    <3>2. demo' = [demo EXCEPT ![r] = row]
      BY <2>2 DEF AddDemoItem
    <3> HIDE DEF row
    <3> QED BY <1>2, <3>1, <3>2
  <2>3. CASE AdvanceDemoOrder(s)
    <3> DEFINE status == Following(PathTo(Demo[k].upTo), demo[r].status)
               row    == [demo[r] EXCEPT !.status = status]
    <3>1. status \in OnTheWay(Demo[k].upTo)
      BY <1>2, <2>3, StaysOnTheWay DEF AdvanceDemoOrder
    <3>2. status \in UpTos
      BY <1>2, <3>1, OnTheWayType
    <3>3. demo' = [demo EXCEPT ![r] = row]
      BY <2>3 DEF AdvanceDemoOrder
    <3> HIDE DEF status
    <3>4. row \in DemoRows /\ row.of = demo[r].of /\ row.status = status
      BY <2>1, <3>2 DEF DemoRows
    <3> HIDE DEF row
    <3> QED BY <3>1, <3>3, <3>4
  <2> QED BY <2>2, <2>3
<1>4. /\ demo' \in Seq(DemoRows)
      /\ Len(demo') = Len(demo) /\ DOMAIN demo' = DOMAIN demo
      /\ \A q \in DOMAIN demo : demo'[q].of = demo[q].of
      /\ demo'[r].status \in OnTheWay(Demo[k].upTo)
  BY <1>1, <1>2, <1>3, RowChanges
<1>5. SeedTypes'
  BY <1>0, <1>1, <1>4 DEF SeedTypes
<1>6. StartFits(s)'
  BY <1>0, <1>1, <1>2, <1>4 DEF StartFits
<1>7. Progress(s)'
  BY <1>0, <1>1, <1>4, <1>6 DEF Progress
<1>8. SeededOnce'
  BY <1>0, <1>1, <1>4, OrdersAreOnce DEF SeededOnce
<1>9. Past(s)' /\ templates'[1] # "absent" /\ \A q \in Starts : start'[q] = start[q]
  BY <1>0, <1>1 DEF Past
<1> QED BY <1>1, <1>5, <1>7, <1>8, <1>9, OnePasses

\* The order at hand is done; the next one, or the rules, are next.
LEMMA SeedNextOrder ==
  ASSUME SeedInv, NEW s \in Starts, NextDemoOrder(s)
  PROVE  SeedInv'
<1> DEFINE k == start[s].at
<1>0. /\ Past(s) /\ start[s].stage = "orders" /\ start[s].row # 0
      /\ UNCHANGED <<templates, demo, always, requested, rest>>
  BY DEF NextDemoOrder, Past
<1>1. /\ \A q \in Starts \ {s} : ~Past(q)
      /\ templates[1] # "absent"
      /\ SeedTypes /\ Progress(s) /\ StartFits(s) /\ SeededOnce
  BY <1>0, Alone
<1>2. k \in 1 .. 8 /\ start[s] \in StartRows
  BY <1>0, <1>1, Shapes DEF StartFits, SeedTypes
<1> DEFINE stage == IF k = 8 THEN "rule" ELSE "orders"
           at    == (k % 8) + 1
           next  == [start[s] EXCEPT !.row = 0, !.at = at, !.stage = stage]
<1>3. start' = [start EXCEPT ![s] = next]
  BY <1>1, Shapes DEF NextDemoOrder, SeedTypes
<1>4. /\ at \in 1 .. 8 /\ at \in Nat /\ stage \in Stages
      /\ stage = "orders" => at = k + 1
      /\ stage \in {"orders", "rule"}
  BY <1>2 DEF Stages
<1> HIDE DEF stage, at
<1>5. /\ next \in StartRows /\ next.row = 0 /\ next.at = at /\ next.stage = stage
  BY <1>2, <1>4 DEF StartRows
<1> HIDE DEF next
<1>6. /\ start' \in [Starts -> StartRows] /\ start'[s] = next
      /\ \A q \in Starts \ {s} : start'[q] = start[q]
  BY <1>1, <1>3, <1>5, StartMoves
<1>7. SeedTypes'
  BY <1>0, <1>1, <1>6 DEF SeedTypes
<1>8. StartFits(s)'
  <2>1. 0 \in 0 .. Len(demo')
    BY <1>0, <1>1, DemoKnown
  <2> QED BY <1>4, <1>5, <1>6, <2>1, Shapes DEF StartFits
<1>9. \A r \in DOMAIN demo : demo[r].of \in Nat /\ r # 0
  BY <1>1, DemoKnown
<1>10. Progress(s)'
  BY <1>0, <1>1, <1>2, <1>4, <1>5, <1>6, <1>8, <1>9 DEF Progress
<1>11. Past(s)' /\ SeededOnce' /\ templates'[1] # "absent"
  BY <1>0, <1>1, <1>4, <1>5, <1>6 DEF Past, SeededOnce
<1> QED BY <1>1, <1>6, <1>7, <1>10, <1>11, OnePasses

\* The rule is created after the orders, and the orders are looked up again.
LEMMA SeedRule ==
  ASSUME SeedInv, NEW s \in Starts, CreateAlwaysRule(s) \/ FindSubmitted(s)
  PROVE  SeedInv'
<1>0. /\ Past(s) /\ start[s].stage \in {"rule", "find"}
      /\ UNCHANGED <<templates, demo, requested, rest>>
  BY DEF CreateAlwaysRule, FindSubmitted, Past
<1>1. /\ \A q \in Starts \ {s} : ~Past(q)
      /\ templates[1] # "absent"
      /\ SeedTypes /\ Progress(s) /\ StartFits(s) /\ SeededOnce
  BY <1>0, Alone
<1>2. /\ start' \in [Starts -> StartRows]
      /\ start'[s].stage \in {"find", "request"} /\ start'[s].row = 0
      /\ \A q \in Starts \ {s} : start'[q] = start[q]
  <2>1. CASE CreateAlwaysRule(s)
    <3>1. Step(s, "find", 0) /\ start[s].row = 0
      BY <1>0, <1>1, <2>1 DEF CreateAlwaysRule, StartFits
    <3>2. "find" \in Stages
      BY DEF Stages
    <3> QED BY <1>1, <3>1, <3>2, Stepping
  <2>2. CASE FindSubmitted(s)
    <3> DEFINE found == {r \in DOMAIN demo :
                           demo[r].status \in {"submitted", "pending_approval"}}
               next  == [start[s] EXCEPT !.stage = "request", !.todo = found]
    <3>1. start' = [start EXCEPT ![s] = next]
      BY <1>1, <2>2 DEF FindSubmitted, SeedTypes
    <3>2. found \in SUBSET Nat
      BY <1>1, DemoKnown
    <3>3. start[s] \in StartRows /\ start[s].row = 0 /\ "request" \in Stages
      BY <1>0, <1>1 DEF SeedTypes, StartFits, Stages
    <3> HIDE DEF found
    <3>4. next \in StartRows /\ next.stage = "request" /\ next.row = 0
      BY <3>2, <3>3 DEF StartRows
    <3> HIDE DEF next
    <3> QED BY <1>1, <3>1, <3>4, StartMoves
  <2> QED BY <2>1, <2>2
<1>3. always' \in Nat /\ always' <= 1
  <2>1. CASE CreateAlwaysRule(s)
    BY <1>1, <2>1 DEF CreateAlwaysRule, Progress
  <2>2. CASE FindSubmitted(s)
    BY <1>1, <2>2 DEF FindSubmitted, SeedTypes, SeededOnce
  <2> QED BY <2>1, <2>2
<1>4. SeedTypes'
  BY <1>0, <1>1, <1>2, <1>3 DEF SeedTypes
<1>5. Progress(s)' /\ Past(s)'
  BY <1>0, <1>1, <1>2 DEF Progress, StartFits, Past
<1>6. SeededOnce'
  BY <1>0, <1>1, <1>3 DEF SeededOnce
<1> QED BY <1>0, <1>1, <1>2, <1>4, <1>5, <1>6, OnePasses

\* Requests are made one after the other, and the orders follow.
LEMMA SeedRequest ==
  ASSUME SeedInv, NEW s \in Starts, RequestApproval(s)
  PROVE  SeedInv'
<1>0. /\ Past(s) /\ start[s].stage = "request"
      /\ UNCHANGED <<templates, demo, always, rest>>
  BY DEF RequestApproval, Past
<1>1. /\ \A q \in Starts \ {s} : ~Past(q)
      /\ templates[1] # "absent"
      /\ SeedTypes /\ Progress(s) /\ StartFits(s) /\ SeededOnce
  BY <1>0, Alone
<1>2. start[s].row = 0 /\ start[s].todo \in SUBSET Nat
  BY <1>0, <1>1 DEF SeedTypes, StartRows, StartFits
<1>3. /\ start' \in [Starts -> StartRows] /\ start'[s].row = 0
      /\ \A q \in Starts \ {s} : start'[q] = start[q]
      /\ \/ start'[s].stage = "rest" /\ start'[s].at = 1
         \/ start'[s].stage = "pending"
  <2>1. {"rest", "pending"} \subseteq Stages
    BY DEF Stages
  <2>2. CASE start[s].todo = {}
    BY <1>1, <1>2, <2>1, <2>2, Stepping DEF RequestApproval
  <2>3. CASE start[s].todo # {}
    <3>1. First(start[s].todo) \in Nat
      BY <1>2, <2>3, FirstOfSet
    <3>2. Step(s, "pending", First(start[s].todo))
      BY <2>3 DEF RequestApproval
    <3> QED BY <1>1, <1>2, <2>1, <3>1, <3>2, Stepping
  <2> QED BY <2>2, <2>3
<1>4. SeedTypes'
  BY <1>0, <1>1, <1>3 DEF SeedTypes
<1>5. Progress(s)'
  <2>1. 1 \in DOMAIN Rest /\ Rest[1].rows \in Nat \ {0}
    BY Shapes
  <2>2. \A k \in DOMAIN Rest : rest'[k] = 0
    BY <1>0, <1>1 DEF Progress
  <2>3. StartFits(s)'
    BY <1>3, <2>1 DEF StartFits
  <2> QED BY <1>3, <2>1, <2>2, <2>3 DEF Progress
<1>6. Past(s)' /\ SeededOnce'
  BY <1>0, <1>1, <1>3 DEF Past, SeededOnce
<1> QED BY <1>0, <1>1, <1>3, <1>4, <1>5, <1>6, OnePasses

LEMMA SeedPending ==
  ASSUME SeedInv, NEW s \in Starts, SetPending(s)
  PROVE  SeedInv'
<1> DEFINE r == start[s].at
<1>0. /\ Past(s) /\ start[s].stage = "pending"
      /\ UNCHANGED <<templates, always, requested, rest>>
  BY DEF SetPending, Past
<1>1. /\ \A q \in Starts \ {s} : ~Past(q)
      /\ templates[1] # "absent"
      /\ SeedTypes /\ Progress(s) /\ StartFits(s) /\ SeededOnce
  BY <1>0, Alone
<1>2. /\ demo' \in Seq(DemoRows) /\ DOMAIN demo' = DOMAIN demo
      /\ \A q \in DOMAIN demo : demo'[q].of = demo[q].of
  <2>1. CASE r \in DOMAIN demo
    <3> DEFINE row == [demo[r] EXCEPT !.status = "pending_approval"]
    <3>1. demo[r] \in DemoRows
      BY <1>1, <2>1, DemoKnown
    <3>2. row \in DemoRows /\ row.of = demo[r].of
      BY <3>1 DEF DemoRows
    <3>3. demo' = [demo EXCEPT ![r] = row]
      BY <2>1 DEF SetPending
    <3> HIDE DEF row
    <3> QED BY <1>1, <2>1, <3>2, <3>3, RowChanges
  <2>2. CASE r \notin DOMAIN demo
    <3>1. demo' = demo
      BY <1>1, <2>2 DEF SetPending, SeedTypes
    <3> QED BY <1>1, <3>1 DEF SeedTypes
  <2> QED BY <2>1, <2>2
<1>3. /\ start' \in [Starts -> StartRows] /\ start'[s].row = 0
      /\ \A q \in Starts \ {s} : start'[q] = start[q]
      /\ start'[s].stage = "request"
  <2> DEFINE next == [start[s] EXCEPT !.stage = "request", !.at = 0, !.todo = @ \ {r}]
  <2>1. start[s] \in StartRows /\ start[s].row = 0 /\ "request" \in Stages
    BY <1>0, <1>1 DEF SeedTypes, StartFits, Stages
  <2>2. next \in StartRows /\ next.stage = "request" /\ next.row = 0
    BY <2>1 DEF StartRows
  <2>3. start' = [start EXCEPT ![s] = next]
    BY <1>1 DEF SetPending, SeedTypes
  <2> HIDE DEF next
  <2> QED BY <1>1, <2>2, <2>3, StartMoves
<1>4. SeedTypes'
  BY <1>0, <1>1, <1>2, <1>3 DEF SeedTypes
<1>5. Progress(s)' /\ Past(s)'
  BY <1>0, <1>1, <1>3 DEF Progress, StartFits, Past
<1>6. SeededOnce'
  BY <1>0, <1>1, <1>2, OrdersAreOnce DEF SeededOnce
<1> QED BY <1>0, <1>1, <1>3, <1>4, <1>5, <1>6, OnePasses

\* The other tables are filled one after the other, each up to its rows.
LEMMA SeedRest ==
  ASSUME SeedInv, NEW s \in Starts, FillRest(s)
  PROVE  SeedInv'
<1> DEFINE k == start[s].at
<1>0. /\ Past(s) /\ start[s].stage = "rest"
      /\ UNCHANGED <<templates, demo, always, requested>>
      /\ rest' = [rest EXCEPT ![k] = @ + 1]
  BY DEF FillRest, Past
<1>1. /\ \A q \in Starts \ {s} : ~Past(q)
      /\ templates[1] # "absent"
      /\ SeedTypes /\ Progress(s) /\ StartFits(s) /\ SeededOnce
  BY <1>0, Alone
<1>2. /\ k \in DOMAIN Rest /\ k \in 1 .. 5 /\ rest \in [DOMAIN Rest -> Nat]
      /\ start[s].row = 0 /\ rest[k] \in Nat
      /\ Rest[k].rows \in Nat /\ rest[k] < Rest[k].rows
      /\ \A j \in DOMAIN Rest : j > k => rest[j] = 0
  BY <1>0, <1>1, Shapes DEF StartFits, SeedTypes, Progress
<1>3. /\ rest' \in [DOMAIN Rest -> Nat] /\ rest'[k] = rest[k] + 1
      /\ \A j \in DOMAIN Rest \ {k} : rest'[j] = rest[j]
  BY <1>0, <1>2
<1>4. /\ start' \in [Starts -> StartRows] /\ start'[s].row = 0
      /\ \A q \in Starts \ {s} : start'[q] = start[q]
      /\ \/ /\ start'[s].stage = "rest" /\ start'[s].at = k
            /\ rest[k] + 1 < Rest[k].rows
         \/ k < 5 /\ start'[s].stage = "rest" /\ start'[s].at = k + 1
         \/ start'[s].stage = "serving"
  <2>1. \/ rest[k] + 1 < Rest[k].rows /\ UNCHANGED start
        \/ k < 5 /\ Step(s, "rest", k + 1)
        \/ End(s, "serving")
    BY Shapes DEF FillRest
  <2>2. k + 1 \in Nat /\ {"rest", "serving"} \subseteq Stages
    BY <1>2 DEF Stages
  <2> HIDE DEF k
  <2>3. CASE rest[k] + 1 < Rest[k].rows /\ UNCHANGED start
    BY <1>0, <1>1, <1>2, <2>3 DEF SeedTypes, k
  <2>4. CASE k < 5 /\ Step(s, "rest", k + 1)
    BY <1>1, <1>2, <2>2, <2>4, Stepping
  <2>5. CASE End(s, "serving")
    BY <1>1, <2>2, <2>5, Stepping
  <2> QED BY <2>1, <2>3, <2>4, <2>5
<1>5. SeedTypes'
  BY <1>0, <1>1, <1>3, <1>4 DEF SeedTypes
<1> HIDE DEF k
<1>6. Past(s)' => Progress(s)'
  <2> SUFFICES ASSUME Past(s)' PROVE Progress(s)'
    OBVIOUS
  <2>1. CASE start'[s].stage = "rest" /\ start'[s].at = k /\ rest[k] + 1 < Rest[k].rows
    <3>1. \A j \in DOMAIN Rest : j > k => rest'[j] = 0
      BY <1>2, <1>3
    <3> QED BY <1>2, <1>3, <1>4, <2>1, <3>1 DEF Progress, StartFits
  <2>2. CASE k < 5 /\ start'[s].stage = "rest" /\ start'[s].at = k + 1
    <3>1. k + 1 \in DOMAIN Rest
      BY <1>2, <2>2, Shapes
    <3>2. \A j \in DOMAIN Rest : j > k => rest'[j] = 0
      BY <1>2, <1>3
    <3>3. rest'[k + 1] = 0 /\ Rest[k + 1].rows \in Nat \ {0}
      BY <1>2, <3>1, <3>2, Shapes
    <3>4. \A j \in DOMAIN Rest : j > k + 1 => rest'[j] = 0
      BY <1>2, <3>2, Shapes
    <3> QED BY <1>4, <2>2, <3>1, <3>3, <3>4 DEF Progress, StartFits
  <2>3. CASE start'[s].stage = "serving"
    BY <2>3 DEF Past
  <2> QED BY <1>4, <2>1, <2>2, <2>3
<1>7. ~Past(s)' => start'[s].stage # "templates"
  BY <1>4
<1>8. SeededOnce'
  <2>1. \A j \in DOMAIN Rest : rest'[j] <= Rest[j].rows
    BY <1>1, <1>2, <1>3 DEF SeededOnce
  <2> QED BY <1>0, <1>1, <2>1 DEF SeededOnce
<1> QED BY <1>0, <1>1, <1>4, <1>5, <1>6, <1>7, <1>8, OnePasses

\* A template that is taken out of service stays in its table.
LEMMA SeedRetire ==
  ASSUME SeedInv, NEW k \in DOMAIN Templates, Retire(k)
  PROVE  SeedInv'
<1>1. /\ UNCHANGED <<demo, always, requested, rest, start>>
      /\ templates[k] = "active" /\ templates' = [templates EXCEPT ![k] = "retired"]
  BY DEF Retire
<1>2. SeedTypes'
  BY <1>1 DEF SeedInv, SeedTypes
<1>3. templates'[1] # "absent" <=> templates[1] # "absent"
  BY <1>1, Shapes DEF SeedInv, SeedTypes
<1>4. /\ \A q \in Starts : Past(q)' <=> Past(q)
      /\ \A q \in Starts : Progress(q)' <=> Progress(q)
  BY <1>1 DEF Past, Progress, StartFits
<1>5. SeededOnce'
  BY <1>1 DEF SeedInv, SeededOnce
<1> QED BY <1>1, <1>2, <1>3, <1>4, <1>5 DEF SeedInv

LEMMA SeedInitInv == SeedInit => SeedInv
<1> SUFFICES ASSUME SeedInit PROVE SeedInv
  OBVIOUS
<1>1. Off \in StartRows /\ Off.stage = "off" /\ Off.row = 0
  BY DEF Off, StartRows, Stages
<1>2. /\ demo = <<>> /\ demo \in Seq(DemoRows) /\ DOMAIN demo = {}
      /\ always = 0 /\ \A k \in DOMAIN Rest : rest[k] = 0
  BY DEF SeedInit
<1>3. SeedTypes
  BY <1>1, <1>2 DEF SeedInit, SeedTypes
<1>4. \A s \in Starts : ~Past(s) /\ start[s].row = 0 /\ start[s].stage = "off"
  BY <1>1 DEF SeedInit, Past
<1>5. SeededOnce
  <2>1. ASSUME NEW k \in DOMAIN Rest PROVE rest[k] <= Rest[k].rows
    <3>1. rest[k] = 0 /\ Rest[k].rows \in Nat
      BY <1>2, Shapes
    <3> QED BY <3>1
  <2>2. \A q, r \in DOMAIN demo : demo[q].of = demo[r].of => q = r
    BY <1>2
  <2>3. always <= 1
    BY <1>2
  <2> QED BY <2>1, <2>2, <2>3 DEF SeededOnce
<1> QED BY <1>2, <1>3, <1>4, <1>5 DEF SeedInv

\* Every step keeps SeedInv.
LEMMA SeedStep == ASSUME SeedInv, [SeedNext]_seedVars PROVE SeedInv'
<1>1. ASSUME NEW s \in Starts, StartUp(s) \/ Kill(s) PROVE SeedInv'
  BY <1>1, SeedStartUp
<1>2. ASSUME NEW s \in Starts, CreateTemplate(s) PROVE SeedInv'
  BY <1>2, SeedTemplate
<1>3. ASSUME NEW s \in Starts, CreateDemoOrder(s) PROVE SeedInv'
  BY <1>3, SeedOrder
<1>4. ASSUME NEW s \in Starts, AddDemoItem(s) \/ AdvanceDemoOrder(s) PROVE SeedInv'
  BY <1>4, SeedOrderGrows
<1>5. ASSUME NEW s \in Starts, NextDemoOrder(s) PROVE SeedInv'
  BY <1>5, SeedNextOrder
<1>6. ASSUME NEW s \in Starts, CreateAlwaysRule(s) \/ FindSubmitted(s) PROVE SeedInv'
  BY <1>6, SeedRule
<1>7. ASSUME NEW s \in Starts, RequestApproval(s) PROVE SeedInv'
  BY <1>7, SeedRequest
<1>8. ASSUME NEW s \in Starts, SetPending(s) PROVE SeedInv'
  BY <1>8, SeedPending
<1>9. ASSUME NEW s \in Starts, FillRest(s) PROVE SeedInv'
  BY <1>9, SeedRest
<1>10. ASSUME NEW k \in DOMAIN Templates, Retire(k) PROVE SeedInv'
  BY <1>10, SeedRetire
<1>11. CASE UNCHANGED seedVars
  BY <1>11 DEF seedVars, SeedInv, SeedTypes, Past, Progress, StartFits, SeededOnce
<1> QED BY <1>1, <1>2, <1>3, <1>4, <1>5, <1>6, <1>7, <1>8, <1>9, <1>10, <1>11
         DEF SeedNext

\* However many starts overlap, die at any commit and are repeated, and
\* whatever administrators take out of service, no demo row is there twice.
THEOREM DemoDataIsSeededOnce == SeedSpec => []SeededOnce
<1>1. SeedInit => SeedInv
  BY SeedInitInv
<1>2. SeedInv /\ [SeedNext]_seedVars => SeedInv'
  BY SeedStep
<1>3. SeedInv => SeededOnce
  BY DEF SeedInv
<1> QED BY <1>1, <1>2, <1>3, PTL DEF SeedSpec

-----------------------------------------------------------------------------
(* Availability rules *)

\* A list of rules, each with a priority.
Ranked(rows, ids) == IsFiniteSet(ids) /\ \A r \in ids : rows[r].priority \in Int

\* What Ordered says, by position.
LEMMA OrderedMeans ==
  ASSUME NEW rows, NEW ids, IsFiniteSet(ids), NEW s
  PROVE  /\ Cardinality(ids) \in Nat
         /\ s \in Ordered(rows, ids) <=>
              /\ s \in [1 .. Cardinality(ids) -> ids]
              /\ \A i, j \in 1 .. Cardinality(ids) : i # j => s[i] # s[j]
              /\ \A k \in 1 .. Cardinality(ids) - 1 :
                   rows[s[k]].priority >= rows[s[k + 1]].priority
<1> DEFINE n == Cardinality(ids)
<1>1. n \in Nat
  BY FS_CardinalityType
<1> HIDE DEF n
<1>2. ASSUME s \in [1 .. n -> ids] PROVE Len(s) = n
  <2>1. s \in Seq(ids) /\ DOMAIN s = 1 .. n
    BY <1>1, <1>2
  <2> QED BY <1>1, <2>1
<1> QED BY <1>1, <1>2 DEF Ordered, SetToSeqs, n

\* An enumeration reaches every rule.
LEMMA Reached ==
  ASSUME NEW ids, IsFiniteSet(ids), NEW s \in [1 .. Cardinality(ids) -> ids],
         \A i, j \in 1 .. Cardinality(ids) : i # j => s[i] # s[j]
  PROVE  \A r \in ids : \E i \in 1 .. Cardinality(ids) : s[i] = r
<1> DEFINE n == Cardinality(ids)
<1>1. n \in Nat
  BY FS_CardinalityType
<1>2. s \in Injection(1 .. n, ids)
  BY DEF Injection, IsInjective
<1>3. Cardinality(1 .. n) = n
  BY <1>1, FS_Interval
<1>4. s \in Surjection(1 .. n, ids)
  <2> HIDE DEF n
  <2> QED BY <1>1, <1>2, <1>3, FS_Injection DEF n
<1> QED BY <1>4 DEF Surjection

\* Along an ordered list, priorities only fall.
LEMMA PrioritiesFall ==
  ASSUME NEW rows, NEW ids, Ranked(rows, ids), NEW s \in Ordered(rows, ids),
         NEW i \in 1 .. Cardinality(ids), NEW k \in i .. Cardinality(ids)
  PROVE  rows[s[k]].priority <= rows[s[i]].priority
<1> DEFINE n == Cardinality(ids)
           P(j) == rows[s[j]].priority
<1>1. n \in Nat /\ IsFiniteSet(ids)
  BY FS_CardinalityType DEF Ranked
<1>2. /\ s \in [1 .. n -> ids]
      /\ \A j \in 1 .. n - 1 : P(j) >= P(j + 1)
  BY <1>1, OrderedMeans
<1>3. i \in 1 .. n /\ k \in i .. n
  OBVIOUS
<1> HIDE DEF n
<1>4. \A j \in 1 .. n : P(j) \in Int
  BY <1>2 DEF Ranked
<1>5. \A j \in i .. n : j \in 1 .. n
  BY <1>1, <1>3
<1> DEFINE rising == {j \in i .. n : P(j) > P(i)}
<1> HIDE DEF P
<1>6. CASE rising = {}
  <2>1. ~(P(k) > P(i))
    BY <1>3, <1>6
  <2>2. P(k) \in Int /\ P(i) \in Int
    BY <1>3, <1>4, <1>5
  <2> QED BY <2>1, <2>2 DEF P
<1>7. CASE rising # {}
  <2>1. rising \in SUBSET Nat
    BY <1>1, <1>3
  <2>2. PICK j \in rising : \A h \in rising : j <= h
    BY <1>7, <2>1, LeastNumber
  <2>3. j \in i .. n /\ P(j) > P(i) /\ P(i) \in Int /\ P(j) \in Int
    BY <1>3, <1>4, <1>5, <2>2
  <2>4. j # i
    BY <2>3
  <2>5. j - 1 \in i .. n /\ j - 1 \in 1 .. n - 1 /\ (j - 1) + 1 = j /\ j \in Nat
    BY <1>1, <1>3, <2>3, <2>4
  <2>6. P(j - 1) >= P(j)
    BY <1>2, <2>5
  <2>7. j - 1 \notin rising
    BY <2>2, <2>5
  <2>8. ~(P(j - 1) > P(i)) /\ P(j - 1) \in Int
    BY <1>4, <1>5, <2>5, <2>7
  <2> QED BY <2>3, <2>6, <2>8
<1> QED BY <1>6, <1>7

\* The first of an ordered list is strongest.
LEMMA FirstIsStrongest ==
  ASSUME NEW rows, NEW ids, Ranked(rows, ids), ids # {}, NEW s \in Ordered(rows, ids)
  PROVE  s # <<>> /\ s[1] \in Strongest(rows, ids)
<1> DEFINE n == Cardinality(ids)
           P(k) == rows[s[k]].priority
<1>0. IsFiniteSet(ids)
  BY DEF Ranked
<1>1. n \in Nat /\ n # 0
  BY <1>0, FS_EmptySet, FS_CardinalityType
<1>2. /\ s \in [1 .. n -> ids] /\ \A i, j \in 1 .. n : i # j => s[i] # s[j]
      /\ \A k \in 1 .. n - 1 : P(k) >= P(k + 1)
  BY <1>0, OrderedMeans
<1> HIDE DEF n
<1>3. \A k \in 1 .. n : P(k) \in Int
  BY <1>2 DEF Ranked
<1>4. 1 \in 1 .. n
  BY <1>1
<1>5. ASSUME NEW k \in 1 .. n PROVE P(k) <= P(1)
  BY <1>4, PrioritiesFall DEF n
<1>6. ASSUME NEW q \in ids PROVE rows[q].priority <= rows[s[1]].priority
  <2>1. s \in [1 .. n -> ids] /\ \A i, j \in 1 .. n : i # j => s[i] # s[j]
    BY <1>2
  <2>2. \A r \in ids : \E k \in 1 .. n : s[k] = r
    BY <1>0, <2>1, Reached DEF n
  <2>3. PICK k \in 1 .. n : s[k] = q
    BY <2>2
  <2>4. P(k) <= P(1)
    BY <1>5
  <2> QED BY <2>3, <2>4
<1>7. s[1] \in ids
  BY <1>2, <1>4
<1>8. s # <<>>
  <2>1. 1 \in DOMAIN s
    BY <1>2, <1>4
  <2> QED BY <2>1
<1> QED BY <1>6, <1>7, <1>8 DEF Strongest

\* Among finitely many rules one is strongest: the one that the fewest exceed.
LEMMA StrongestExists ==
  ASSUME NEW rows, NEW ids, Ranked(rows, ids), ids # {}
  PROVE  Strongest(rows, ids) # {}
<1> DEFINE P(r)      == rows[r].priority
           Above(r)  == {q \in ids : P(q) > P(r)}
           heights   == {Cardinality(Above(r)) : r \in ids}
<1>0. IsFiniteSet(ids) /\ \A r \in ids : P(r) \in Int
  BY DEF Ranked
<1>1. \A r \in ids : IsFiniteSet(Above(r)) /\ Cardinality(Above(r)) \in Nat
  <2>1. \A r \in ids : Above(r) \in SUBSET ids
    OBVIOUS
  <2> HIDE DEF Above
  <2> QED BY <1>0, <2>1, FS_Subset, FS_CardinalityType
<1>2. PICK r \in ids : \A q \in ids : Cardinality(Above(r)) <= Cardinality(Above(q))
  <2> HIDE DEF Above
  <2>1. heights \in SUBSET Nat /\ heights # {}
    BY <1>1
  <2>2. PICK h \in heights : \A g \in heights : h <= g
    BY <2>1, LeastNumber
  <2> QED BY <2>2
<1>3. ASSUME NEW q \in ids PROVE P(q) <= P(r)
  <2> SUFFICES ASSUME P(q) > P(r) PROVE FALSE
    BY <1>0
  <2>1. Above(q) \in SUBSET Above(r) /\ q \in Above(r) /\ q \notin Above(q)
    BY <1>0
  <2> HIDE DEF Above, P
  <2>2. Cardinality(Above(q)) <= Cardinality(Above(r)) /\ Above(q) # Above(r)
    BY <1>1, <2>1, FS_Subset
  <2>3. Cardinality(Above(q)) # Cardinality(Above(r))
    BY <1>1, <2>1, <2>2, FS_Subset
  <2> QED BY <1>1, <1>2, <2>2, <2>3
<1> QED BY <1>3 DEF Strongest

\* A strongest rule may come first: the others follow in any of their orders.
LEMMA StrongestMayLead ==
  ASSUME NEW rows, NEW ids, Ranked(rows, ids), NEW r \in Strongest(rows, ids),
         NEW others \in Ordered(rows, ids \ {r})
  PROVE  \E s \in Ordered(rows, ids) : s[1] = r
<1> DEFINE n == Cardinality(ids)
           s == [i \in 1 .. n |-> IF i = 1 THEN r ELSE others[i - 1]]
<1>0. IsFiniteSet(ids) /\ IsFiniteSet(ids \ {r}) /\ r \in ids
      /\ \A q \in ids : /\ rows[q].priority \in Int
                        /\ rows[r].priority >= rows[q].priority
  BY FS_RemoveElement DEF Ranked, Strongest
<1>1. n \in Nat \ {0} /\ Cardinality(ids \ {r}) = n - 1
  BY <1>0, FS_EmptySet, FS_CardinalityType, FS_RemoveElement
<1>2. /\ others \in [1 .. n - 1 -> ids \ {r}]
      /\ \A i, j \in 1 .. n - 1 : i # j => others[i] # others[j]
      /\ \A k \in 1 .. (n - 1) - 1 :
           rows[others[k]].priority >= rows[others[k + 1]].priority
  BY <1>0, <1>1, OrderedMeans
<1> HIDE DEF n
<1>3. \A i \in 1 .. n : i # 1 => i - 1 \in 1 .. n - 1
  BY <1>1
<1>4. s \in [1 .. n -> ids]
  BY <1>0, <1>2, <1>3
<1>5. /\ s[1] = r
      /\ \A i \in 1 .. n : i # 1 => s[i] = others[i - 1]
  BY <1>1
<1> HIDE DEF s
<1>6. \A i, j \in 1 .. n : i # j => s[i] # s[j]
  <2> SUFFICES ASSUME NEW i \in 1 .. n, NEW j \in 1 .. n, i # j PROVE s[i] # s[j]
    OBVIOUS
  <2>1. CASE i = 1 \/ j = 1
    BY <1>2, <1>3, <1>5, <2>1
  <2>2. CASE i # 1 /\ j # 1
    <3>1. i - 1 # j - 1
      BY <1>1
    <3> QED BY <1>2, <1>3, <1>5, <2>2, <3>1
  <2> QED BY <2>1, <2>2
<1>7. \A k \in 1 .. n - 1 : rows[s[k]].priority >= rows[s[k + 1]].priority
  <2> SUFFICES ASSUME NEW k \in 1 .. n - 1
               PROVE  rows[s[k]].priority >= rows[s[k + 1]].priority
    OBVIOUS
  <2>1. k \in 1 .. n /\ k + 1 \in 1 .. n /\ k + 1 # 1 /\ (k + 1) - 1 = k
    BY <1>1
  <2>2. CASE k = 1
    BY <1>0, <1>4, <1>5, <2>1, <2>2
  <2>3. CASE k # 1
    <3>1. k - 1 \in 1 .. (n - 1) - 1 /\ (k - 1) + 1 = k
      BY <1>1, <2>3
    <3>2. s[k] = others[k - 1] /\ s[k + 1] = others[k]
      BY <1>5, <2>1, <2>3
    <3>3. rows[others[k - 1]].priority >= rows[others[(k - 1) + 1]].priority
      BY <1>2, <3>1
    <3> QED BY <3>1, <3>2, <3>3
  <2> QED BY <2>2, <2>3
<1>8. s \in Ordered(rows, ids)
  BY <1>0, <1>4, <1>6, <1>7, OrderedMeans DEF n
<1> QED BY <1>5, <1>8

\* Finitely many rules can be ordered: strongest first, the rest likewise.
LEMMA OrderExists ==
  ASSUME NEW rows, NEW ids, Ranked(rows, ids)
  PROVE  Ordered(rows, ids) # {}
<1> DEFINE stuck == {S \in SUBSET ids : Ordered(rows, S) = {}}
           sizes == {Cardinality(S) : S \in stuck}
<1> SUFFICES ASSUME stuck # {} PROVE FALSE
  OBVIOUS
<1>0. \A S \in SUBSET ids : Ranked(rows, S) /\ IsFiniteSet(S) /\ Cardinality(S) \in Nat
  BY FS_Subset, FS_CardinalityType DEF Ranked
<1>1. PICK S \in stuck : \A T \in stuck : Cardinality(S) <= Cardinality(T)
  <2> HIDE DEF stuck
  <2>1. sizes \in SUBSET Nat /\ sizes # {}
    <3>1. \A T \in stuck : Cardinality(T) \in Nat
      BY <1>0 DEF stuck
    <3> QED BY <3>1
  <2>2. PICK h \in sizes : \A g \in sizes : h <= g
    BY <2>1, LeastNumber
  <2> QED BY <2>2
<1>2. S \in SUBSET ids /\ Ordered(rows, S) = {}
  OBVIOUS
<1>3. CASE S = {}
  <2>1. Cardinality({}) = 0 /\ IsFiniteSet({})
    BY FS_EmptySet
  <2> DEFINE s == [i \in 1 .. 0 |-> i]
  <2>2. s \in [1 .. 0 -> {}]
    OBVIOUS
  <2> HIDE DEF s
  <2>3. 1 .. 0 = {} /\ 1 .. 0 - 1 = {}
    OBVIOUS
  <2>4. s \in Ordered(rows, {})
    BY <2>1, <2>2, <2>3, OrderedMeans
  <2> QED BY <1>2, <1>3, <2>4
<1>4. CASE S # {}
  <2>1. PICK r \in Strongest(rows, S) : TRUE
    BY <1>0, <1>2, <1>4, StrongestExists
  <2>2. r \in S /\ S \ {r} \in SUBSET ids
    BY <1>2, <2>1 DEF Strongest
  <2>3. Cardinality(S \ {r}) = Cardinality(S) - 1
    BY <1>0, <1>2, <2>2, FS_RemoveElement
  <2>4. S \ {r} \notin stuck
    BY <1>0, <1>1, <1>2, <2>2, <2>3
  <2>5. PICK others \in Ordered(rows, S \ {r}) : TRUE
    BY <2>2, <2>4
  <2>6. \E s \in Ordered(rows, S) : s[1] = r
    BY <1>0, <1>2, <2>1, <2>5, StrongestMayLead
  <2> QED BY <1>2, <2>6
<1> QED BY <1>3, <1>4

ContextRuleTypes ==
  /\ availability \in [AvailabilityIds -> AvailabilityRows \cup {NoContextRule}]
  /\ restrictions \in [RestrictionIds -> RestrictionRows \cup {NoContextRule}]

LEMMA ContextRuleTypesStep ==
  ContextRuleTypes /\ [ContextRuleNext]_contextRuleVars => ContextRuleTypes'
BY DEF ContextRuleTypes, ContextRuleNext, contextRuleVars, CreateAvailabilityRule,
       UpdateAvailabilityRule, DeleteAvailabilityRule, CreateRestriction,
       DeleteRestriction

\* Whether a service is available is what the strongest of finitely many rules
\* say, whichever of the orders of equal priorities the database returns.
THEOREM TheStrongestRuleDecides ==
  ASSUME IsFiniteSet(AvailabilityIds)
  PROVE  ContextRuleSpec => []StrongestRuleDecides
<1>1. ContextRuleInit => ContextRuleTypes
  BY DEF ContextRuleInit, ContextRuleTypes
<1>2. ASSUME ContextRuleTypes, NEW context \in Circumstances
      PROVE  CheckAvailability(context) =
               LET strongest == Strongest(availability, RulesFor(context)) IN
               IF strongest = {} THEN {TRUE}
               ELSE {availability[r].type = "allow" : r \in strongest}
  <2> DEFINE ids       == RulesFor(context)
             strongest == Strongest(availability, ids)
             Answer(s) == s = <<>> \/ availability[s[1]].type = "allow"
  <2>1. Ranked(availability, ids)
    <3>1. ids \in SUBSET AvailabilityIds
      BY DEF RulesFor
    <3>2. ASSUME NEW r \in ids PROVE availability[r].priority \in Int
      <4>1. r \in AvailabilityIds /\ availability[r].present
        BY DEF RulesFor
      <4>2. availability[r] \in AvailabilityRows
        BY <1>2, <4>1 DEF ContextRuleTypes, NoContextRule
      <4> QED BY <4>2, ContextRuleAssumption DEF AvailabilityRows
    <3> HIDE DEF ids
    <3> QED BY <3>1, <3>2, FS_Subset DEF Ranked
  <2> HIDE DEF ids
  <2>2. CASE ids = {}
    <3>1. Cardinality({}) = 0 /\ IsFiniteSet({})
      BY FS_EmptySet
    <3>2. \A s \in Ordered(availability, ids) : s = <<>>
      BY <2>2, <3>1, OrderedMeans
    <3>3. Ordered(availability, ids) # {} /\ strongest = {}
      BY <2>1, <2>2, OrderExists DEF Strongest
    <3> QED BY <3>2, <3>3 DEF CheckAvailability, ids
  <2>3. CASE ids # {}
    <3>1. strongest # {}
      BY <2>1, <2>3, StrongestExists
    <3>2. \A s \in Ordered(availability, ids) : s # <<>> /\ s[1] \in strongest
      BY <2>1, <2>3, FirstIsStrongest
    <3>3. ASSUME NEW r \in strongest
          PROVE  \E s \in Ordered(availability, ids) : s[1] = r
      <4>1. Ranked(availability, ids \ {r})
        BY <2>1, FS_Subset DEF Ranked
      <4>2. PICK others \in Ordered(availability, ids \ {r}) : TRUE
        BY <4>1, OrderExists
      <4> QED BY <2>1, <4>2, StrongestMayLead
    <3> HIDE DEF strongest
    <3>4. {Answer(s) : s \in Ordered(availability, ids)}
            = {availability[r].type = "allow" : r \in strongest}
      BY <3>2, <3>3
    <3> QED BY <3>1, <3>4 DEF CheckAvailability, ids, strongest
  <2> QED BY <2>2, <2>3
<1>3. ContextRuleTypes => StrongestRuleDecides
  BY <1>2 DEF StrongestRuleDecides
<1> QED BY <1>1, <1>3, ContextRuleTypesStep, PTL DEF ContextRuleSpec

\* The loop of resolve_parameters, after k of the restrictions in s.
Merged(s) ==
  LET merged[k \in 0 .. Len(s)] ==
        IF k = 0 THEN <<>> ELSE AddMissing(merged[k - 1], restrictions[s[k]].effect)
  IN merged

\* The loop has a result after each restriction: one more round continues the
\* rounds before it.
LEMMA MergedRounds ==
  ASSUME NEW s, Len(s) \in Nat
  PROVE  Merged(s) = [k \in 0 .. Len(s) |->
           IF k = 0 THEN <<>> ELSE AddMissing(Merged(s)[k - 1], restrictions[s[k]].effect)]
<1> DEFINE n == Len(s)
           Round(g, k) == IF k = 0 THEN <<>> ELSE AddMissing(g[k - 1], restrictions[s[k]].effect)
           Runs(g, m) == g = [k \in 0 .. m |-> Round(g, k)]
           stuck == {m \in 0 .. n : ~\E g : Runs(g, m)}
<1>1. \E g : Runs(g, n)
  <2> SUFFICES ASSUME stuck # {} PROVE FALSE
    OBVIOUS
  <2>1. PICK m \in stuck : \A h \in stuck : m <= h
    <3>1. stuck \in SUBSET Nat
      OBVIOUS
    <3> HIDE DEF stuck
    <3> QED BY <3>1, LeastNumber
  <2>2. CASE m = 0
    <3> DEFINE g == [k \in 0 .. 0 |-> <<>>]
    <3>1. g = [k \in 0 .. 0 |-> Round(g, k)]
      OBVIOUS
    <3> QED BY <2>1, <2>2, <3>1
  <2>3. CASE m # 0
    <3>1. m \in 1 .. n /\ m - 1 \in 0 .. n /\ m - 1 \notin stuck
      <4>1. m \in 0 .. n /\ \A h \in stuck : m <= h
        BY <2>1
      <4> HIDE DEF stuck
      <4>2. m \in 1 .. n /\ m - 1 \in 0 .. n /\ ~(m <= m - 1)
        BY <2>3, <4>1
      <4> QED BY <4>1, <4>2
    <3>2. PICK g : Runs(g, m - 1)
      BY <3>1
    <3> DEFINE h == [k \in 0 .. m |-> IF k = m THEN Round(g, m) ELSE g[k]]
    <3>3. \A k \in 0 .. m : h[k] = Round(h, k)
      <4> TAKE k \in 0 .. m
      <4>1. CASE k = m
        <5>1. m - 1 \in 0 .. m /\ m - 1 # m /\ m \in 0 .. m /\ m # 0
          BY <3>1
        <5>2. h[m - 1] = g[m - 1] /\ h[m] = Round(g, m)
          BY <5>1
        <5> HIDE DEF h
        <5> QED BY <4>1, <5>1, <5>2
      <4>2. CASE k # m
        <5>1. k \in 0 .. m - 1 /\ (k # 0 => k - 1 \in 0 .. m /\ k - 1 # m)
          BY <3>1, <4>2
        <5>2. h[k] = g[k] /\ (k # 0 => h[k - 1] = g[k - 1])
          BY <4>2, <5>1
        <5>3. g[k] = Round(g, k)
          <6> HIDE DEF Round
          <6> QED BY <3>2, <5>1
        <5> HIDE DEF h
        <5> QED BY <5>2, <5>3
      <4> QED BY <4>1, <4>2
    <3>4. h = [k \in 0 .. m |-> h[k]]
      OBVIOUS
    <3> HIDE DEF h, Round
    <3>5. h = [k \in 0 .. m |-> Round(h, k)]
      BY <3>3, <3>4
    <3>6. Runs(h, m)
      BY <3>5
    <3> QED BY <2>1, <3>6
  <2> QED BY <2>2, <2>3
<1>2. Merged(s) = CHOOSE g : Runs(g, n)
  BY DEF Merged
<1> HIDE DEF Round
<1>3. Runs(Merged(s), n)
  <2> HIDE DEF Runs
  <2> QED BY <1>1, <1>2
<1> QED BY <1>3 DEF Round

\* The constraints after k rounds are those of the first k restrictions, each
\* with the value of the first that sets it.
LEMMA MergedHolds ==
  ASSUME NEW s, Len(s) \in Nat, NEW k \in 0 .. Len(s)
  PROVE  LET effect(j) == restrictions[s[j]].effect IN
         /\ DOMAIN Merged(s)[k] = UNION {DOMAIN effect(j) : j \in 1 .. k}
         /\ \A c \in DOMAIN Merged(s)[k] :
              \E i \in 1 .. k :
                /\ c \in DOMAIN effect(i) /\ Merged(s)[k][c] = effect(i)[c]
                /\ \A j \in 1 .. i - 1 : c \notin DOMAIN effect(j)
<1> DEFINE n == Len(s)
           effect(j) == restrictions[s[j]].effect
           Good(m) == /\ DOMAIN Merged(s)[m] = UNION {DOMAIN effect(j) : j \in 1 .. m}
                      /\ \A c \in DOMAIN Merged(s)[m] :
                           \E i \in 1 .. m :
                             /\ c \in DOMAIN effect(i) /\ Merged(s)[m][c] = effect(i)[c]
                             /\ \A j \in 1 .. i - 1 : c \notin DOMAIN effect(j)
           bad == {m \in 0 .. n : ~Good(m)}
<1> SUFFICES ASSUME bad # {} PROVE FALSE
  OBVIOUS
<1>1. PICK m \in bad : \A h \in bad : m <= h
  <2>1. bad \in SUBSET Nat
    OBVIOUS
  <2> HIDE DEF bad
  <2> QED BY <2>1, LeastNumber
<1>2. CASE m = 0
  <2>1. Merged(s)[0] = <<>> /\ DOMAIN Merged(s)[0] = {}
    BY MergedRounds
  <2>2. 1 .. 0 = {}
    OBVIOUS
  <2> QED BY <1>1, <1>2, <2>1, <2>2
<1>3. CASE m # 0
  <2>1. m \in 1 .. n /\ m \in 0 .. n /\ m - 1 \in 0 .. n /\ m - 1 \notin bad
    BY <1>1, <1>3
  <2> DEFINE old == Merged(s)[m - 1]
             new == Merged(s)[m]
  <2>2. new = AddMissing(old, effect(m))
    BY <2>1, MergedRounds
  <2>3. Good(m - 1)
    BY <2>1
  <2> HIDE DEF old, new, effect
  <2>4. /\ DOMAIN new = DOMAIN old \cup DOMAIN effect(m)
        /\ \A c \in DOMAIN new : new[c] = IF c \in DOMAIN old THEN old[c] ELSE effect(m)[c]
    BY <2>2 DEF AddMissing
  <2>5. \A j : j \in 1 .. m <=> j \in 1 .. m - 1 \/ j = m
    BY <2>1
  <2>6. /\ DOMAIN old = UNION {DOMAIN effect(j) : j \in 1 .. m - 1}
        /\ \A c \in DOMAIN old :
             \E i \in 1 .. m - 1 :
               /\ c \in DOMAIN effect(i) /\ old[c] = effect(i)[c]
               /\ \A j \in 1 .. i - 1 : c \notin DOMAIN effect(j)
    BY <2>3 DEF old
  <2>7. DOMAIN new = UNION {DOMAIN effect(j) : j \in 1 .. m}
    BY <2>4, <2>5, <2>6
  <2>8. ASSUME NEW c \in DOMAIN new
        PROVE  \E i \in 1 .. m :
                 /\ c \in DOMAIN effect(i) /\ new[c] = effect(i)[c]
                 /\ \A j \in 1 .. i - 1 : c \notin DOMAIN effect(j)
    <3>1. CASE c \in DOMAIN old
      BY <2>4, <2>5, <2>6, <3>1
    <3>2. CASE c \notin DOMAIN old
      BY <2>1, <2>4, <2>5, <2>6, <3>2
    <3> QED BY <3>1, <3>2
  <2> QED BY <1>1, <2>7, <2>8 DEF new
<1> QED BY <1>2, <1>3

\* The constraint that the loop keeps for c is that of a strongest restriction
\* among those that set c.
LEMMA MergeKeepsStrongest ==
  ASSUME NEW ids, Ranked(restrictions, ids), NEW s \in Ordered(restrictions, ids)
  PROVE  LET Setting(c) == {r \in ids : c \in DOMAIN restrictions[r].effect} IN
         /\ DOMAIN MergeEffects(s) = UNION {DOMAIN restrictions[r].effect : r \in ids}
         /\ \A c \in DOMAIN MergeEffects(s) :
              \E r \in Strongest(restrictions, Setting(c)) :
                MergeEffects(s)[c] = restrictions[r].effect[c]
<1> DEFINE n == Cardinality(ids)
           effect(j) == restrictions[s[j]].effect
           Setting(c) == {r \in ids : c \in DOMAIN restrictions[r].effect}
<1>1. n \in Nat /\ IsFiniteSet(ids)
  BY FS_CardinalityType DEF Ranked
<1>2. s \in [1 .. n -> ids] /\ \A i, j \in 1 .. n : i # j => s[i] # s[j]
  BY <1>1, OrderedMeans
<1>3. \A r \in ids : \E i \in 1 .. n : s[i] = r
  BY <1>1, <1>2, Reached
<1>4. Len(s) = n
  <2> HIDE DEF n
  <2>1. s \in Seq(ids) /\ DOMAIN s = 1 .. n
    BY <1>1, <1>2
  <2> QED BY <1>1, <2>1
<1>5. MergeEffects(s) = Merged(s)[n]
  BY <1>4 DEF MergeEffects, Merged
<1>6. /\ DOMAIN Merged(s)[n] = UNION {DOMAIN effect(j) : j \in 1 .. n}
      /\ \A c \in DOMAIN Merged(s)[n] :
           \E i \in 1 .. n :
             /\ c \in DOMAIN effect(i) /\ Merged(s)[n][c] = effect(i)[c]
             /\ \A j \in 1 .. i - 1 : c \notin DOMAIN effect(j)
  <2>1. n \in 0 .. Len(s) /\ Len(s) \in Nat
    BY <1>1, <1>4
  <2> QED BY <2>1, MergedHolds
<1>7. UNION {DOMAIN effect(j) : j \in 1 .. n}
        = UNION {DOMAIN restrictions[r].effect : r \in ids}
  <2> HIDE DEF n
  <2> QED BY <1>2, <1>3
<1>8. ASSUME NEW c \in DOMAIN Merged(s)[n]
      PROVE  \E r \in Strongest(restrictions, Setting(c)) :
               Merged(s)[n][c] = restrictions[r].effect[c]
  <2>1. PICK i \in 1 .. n :
          /\ c \in DOMAIN effect(i) /\ Merged(s)[n][c] = effect(i)[c]
          /\ \A j \in 1 .. i - 1 : c \notin DOMAIN effect(j)
    BY <1>6
  <2>2. s[i] \in Setting(c)
    BY <1>2, <2>1
  <2>3. ASSUME NEW q \in Setting(c)
        PROVE  restrictions[q].priority <= restrictions[s[i]].priority
    <3>1. PICK j \in 1 .. n : s[j] = q
      BY <1>3
    <3>2. j \notin 1 .. i - 1
      BY <2>1, <3>1
    <3>3. j \in i .. n
      BY <1>1, <3>2
    <3> QED BY <3>1, <3>3, PrioritiesFall
  <2> QED BY <2>1, <2>2, <2>3 DEF Strongest
<1> QED BY <1>5, <1>6, <1>7, <1>8

\* However the database orders restrictions of equal priority, each constraint
\* in force is that of a strongest restriction which sets it.
THEOREM TheStrongestRestrictionDecides ==
  ASSUME IsFiniteSet(RestrictionIds)
  PROVE  ContextRuleSpec => []StrongestRestrictionDecides
<1>1. ContextRuleInit => ContextRuleTypes
  BY DEF ContextRuleInit, ContextRuleTypes
<1>2. ASSUME ContextRuleTypes, NEW context \in Circumstances
      PROVE  Ranked(restrictions, RestrictionsFor(context))
  <2> DEFINE ids == RestrictionsFor(context)
  <2>1. ids \in SUBSET RestrictionIds
    BY DEF RestrictionsFor
  <2>2. ASSUME NEW r \in ids PROVE restrictions[r].priority \in Int
    <3>1. r \in RestrictionIds /\ restrictions[r].present
      BY DEF RestrictionsFor
    <3>2. restrictions[r] \in RestrictionRows
      BY <1>2, <3>1 DEF ContextRuleTypes, NoContextRule
    <3> QED BY <3>2, ContextRuleAssumption DEF RestrictionRows
  <2> HIDE DEF ids
  <2>3. Ranked(restrictions, ids)
    BY <2>1, <2>2, FS_Subset DEF Ranked
  <2> QED BY <2>3 DEF ids
<1>3. ASSUME ContextRuleTypes, NEW context \in Circumstances,
             NEW merged \in ResolveParameters(context)
      PROVE  LET applies    == RestrictionsFor(context)
                 Setting(c) == {r \in applies : c \in DOMAIN restrictions[r].effect}
             IN
             /\ DOMAIN merged = UNION {DOMAIN restrictions[r].effect : r \in applies}
             /\ \A c \in DOMAIN merged :
                  \E r \in Strongest(restrictions, Setting(c)) :
                    merged[c] = restrictions[r].effect[c]
  <2> DEFINE ids == RestrictionsFor(context)
  <2>1. Ranked(restrictions, ids)
    BY <1>2, <1>3
  <2>2. PICK s \in Ordered(restrictions, ids) : merged = MergeEffects(s)
    BY DEF ResolveParameters
  <2> HIDE DEF ids
  <2>3. LET Setting(c) == {r \in ids : c \in DOMAIN restrictions[r].effect} IN
        /\ DOMAIN merged = UNION {DOMAIN restrictions[r].effect : r \in ids}
        /\ \A c \in DOMAIN merged :
             \E r \in Strongest(restrictions, Setting(c)) :
               merged[c] = restrictions[r].effect[c]
    BY <2>1, <2>2, MergeKeepsStrongest
  <2> QED BY <2>3 DEF ids
<1>4. ContextRuleTypes => StrongestRestrictionDecides
  BY <1>3, Zenon DEF StrongestRestrictionDecides
<1> QED BY <1>1, <1>4, ContextRuleTypesStep, PTL DEF ContextRuleSpec
============================================================================
