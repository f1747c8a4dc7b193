------------------------ MODULE CredentialLinksProofs ------------------------
(***************************************************************************)
(* How often a one-time link is delivered, for any number of links and     *)
(* workers, wherever workers die.                                          *)
(***************************************************************************)
EXTENDS CredentialLinks, FiniteSetTheorems, TLAPS

\* Workers that have passed the test of link l and owe their reply.
Passing(l) == {w \in Workers : pc[w] \in {"link_consume", "link_deliver"}
                                /\ linkLoc[w] = l}

\* Before the first commit nobody has delivered or is about to; at any time
\* what was delivered and what may still be delivered fit the workers that
\* retrieve.  The bound alone is not kept by Deliver.
LinkInv ==
  /\ LinkTypeOK
  /\ pc \in [Workers -> LinkPC]
  /\ \A w \in Workers : pc[w] # "idle" => w \in Retrievers /\ linkLoc[w] \in Links
  /\ \A l \in Links : ~links[l].consumed =>
       delivered[l] = 0 /\ \A w \in Passing(l) : pc[w] # "link_deliver"
  /\ \A l \in Links :
       delivered[l] + Cardinality(Passing(l)) <= Cardinality(Retrievers)

\* The sets of workers are finite.
LEMMA FewWorkers ==
  /\ IsFiniteSet(Retrievers) /\ Cardinality(Retrievers) \in Nat
  /\ \A l : IsFiniteSet(Passing(l)) /\ Cardinality(Passing(l)) \in Nat
<1>1. IsFiniteSet(Workers) /\ Retrievers \subseteq Workers
      /\ \A l : Passing(l) \subseteq Workers
  BY LinkAssumption DEF Retrievers, Passing
<1> QED BY <1>1, FS_Subset, FS_CardinalityType

\* A worker that ends its call passes no longer.
LEMMA OneLeaves ==
  ASSUME NEW l \in Links, NEW w \in Passing(l), Passing(l)' = Passing(l) \ {w}
  PROVE  Cardinality(Passing(l)') = Cardinality(Passing(l)) - 1
BY FewWorkers, FS_RemoveElement

\* A set of passing workers that grows smaller counts less.
LEMMA FewerPass ==
  ASSUME NEW l \in Links, Passing(l)' \subseteq Passing(l)
  PROVE  Cardinality(Passing(l)') <= Cardinality(Passing(l))
         /\ Cardinality(Passing(l)') \in Nat
BY FewWorkers, FS_Subset, FS_CardinalityType

\* No link is there at the beginning.
LEMMA LinkInitInv == LinkInit => LinkInv
<1> SUFFICES ASSUME LinkInit PROVE LinkInv
  OBVIOUS
<1>1. LinkTypeOK /\ pc \in [Workers -> LinkPC]
  BY DEF LinkInit, PcInit, LinkTypeOK, LinkPC
<1>2. \A l \in Links : Passing(l) = {}
  BY DEF LinkInit, PcInit, Passing
<1>3. \A l \in Links : Cardinality(Passing(l)) = 0 /\ delivered[l] = 0
  BY <1>2, FS_EmptySet DEF LinkInit
<1> QED BY <1>1, <1>2, <1>3, FewWorkers DEF LinkInit, PcInit, LinkInv

\* Time and administration move no worker.
LEMMA QuietStep ==
  ASSUME LinkInv, UNCHANGED <<pc, linkLoc, delivered>>,
         links' \in [Links -> [made : BOOLEAN, consumed : BOOLEAN, expired : BOOLEAN]],
         \A l \in Links : links'[l].consumed = links[l].consumed
  PROVE  LinkInv'
<1>1. \A l : Passing(l)' = Passing(l)
  BY DEF Passing
<1>2. Retrievers' = Retrievers
  BY DEF Retrievers
<1> QED BY <1>1, <1>2 DEF LinkInv, LinkTypeOK

\* The test is passed by workers that retrieve, while nothing was delivered.
LEMMA RetrieveStep ==
  ASSUME LinkInv, NEW w \in Workers, NEW k \in Links, RetrieveRead(w, k)
  PROVE  LinkInv'
<1> USE DEF RetrieveRead, Begin, Goto
<1>1. LinkTypeOK' /\ pc' \in [Workers -> LinkPC]
  BY DEF LinkInv, LinkTypeOK, LinkPC
<1>2. \A v \in Workers : pc'[v] # "idle" => v \in Retrievers' /\ linkLoc'[v] \in Links
  BY DEF LinkInv, LinkTypeOK, Retrievers
<1>3. \A l \in Links : l # k => Passing(l)' \subseteq Passing(l)
  BY DEF LinkInv, LinkTypeOK, Passing
<1>4. Passing(k)' \subseteq Retrievers /\ Retrievers' = Retrievers
  BY <1>2 DEF Passing, Retrievers
<1>5. Cardinality(Passing(k)') <= Cardinality(Retrievers) /\ Cardinality(Passing(k)') \in Nat
  BY <1>4, FewWorkers, FS_Subset, FS_CardinalityType
<1>6. delivered[k] = 0 /\ delivered' = delivered /\ links' = links
  BY DEF LinkInv
<1>7. \A v \in Passing(k)' : pc'[v] # "link_deliver"
  BY DEF LinkInv, LinkTypeOK, Passing
<1>8. \A l \in Links :
        delivered'[l] + Cardinality(Passing(l)') <= Cardinality(Retrievers')
  <2> SUFFICES ASSUME NEW l \in Links
               PROVE  delivered'[l] + Cardinality(Passing(l)') <= Cardinality(Retrievers')
    OBVIOUS
  <2>1. CASE l = k
    BY <2>1, <1>4, <1>5, <1>6, FewWorkers
  <2>2. CASE l # k
    BY <2>2, <1>3, <1>4, <1>6, FewerPass, FewWorkers DEF LinkInv, LinkTypeOK
  <2> QED BY <2>1, <2>2
<1>9. \A l \in Links : ~links'[l].consumed =>
        delivered'[l] = 0 /\ \A v \in Passing(l)' : pc'[v] # "link_deliver"
  BY <1>3, <1>6, <1>7 DEF LinkInv, LinkTypeOK, Passing
<1> QED BY <1>1, <1>2, <1>8, <1>9 DEF LinkInv

\* A worker goes on, or dies: nobody else passes for it, and what it delivers
\* it was passing for.
LEMMA ConsumeStep ==
  ASSUME LinkInv, NEW w \in Workers, Consume(w)
  PROVE  LinkInv'
<1> USE DEF Consume, At, Goto
<1>1. linkLoc[w] \in Links /\ w \in Retrievers /\ Retrievers' = Retrievers
  BY DEF LinkInv, Retrievers
<1>2. LinkTypeOK' /\ pc' \in [Workers -> LinkPC]
  BY <1>1 DEF LinkInv, LinkTypeOK, LinkPC
<1>3. \A l \in Links : Passing(l)' = Passing(l)
  BY DEF LinkInv, LinkTypeOK, Passing
<1>4. \A v \in Workers : pc'[v] # "idle" => v \in Retrievers' /\ linkLoc'[v] \in Links
  BY <1>1 DEF LinkInv, LinkTypeOK
<1>5. \A l \in Links : ~links'[l].consumed =>
        /\ l # linkLoc[w] /\ ~links[l].consumed
        /\ delivered'[l] = 0 /\ \A v \in Passing(l)' : pc'[v] # "link_deliver"
  BY <1>1, <1>3 DEF LinkInv, LinkTypeOK, Passing
<1> QED BY <1>1, <1>2, <1>3, <1>4, <1>5 DEF LinkInv

LEMMA EndStep ==
  ASSUME LinkInv, NEW w \in Workers, Deliver(w) \/ LinkCrash(w)
  PROVE  LinkInv'
<1> USE DEF At, Goto, EndLink, Reply
<1>1. linkLoc[w] \in Links /\ Retrievers' = Retrievers /\ links' = links
      /\ pc[w] \in {"link_consume", "link_deliver"} /\ pc' = [pc EXCEPT ![w] = "idle"]
      /\ linkLoc' = [linkLoc EXCEPT ![w] = NoLink]
  BY DEF LinkInv, LinkTypeOK, Retrievers, Deliver, LinkCrash, LinkPC
<1>2. LinkTypeOK' /\ pc' \in [Workers -> LinkPC]
  BY <1>1 DEF LinkInv, LinkTypeOK, LinkPC, Deliver, LinkCrash
<1>3. /\ \A l \in Links : Passing(l)' = Passing(l) \ {w}
      /\ w \in Passing(linkLoc[w])
      /\ \A l \in Links : l # linkLoc[w] => w \notin Passing(l)
  BY <1>1, LinkAssumption DEF LinkInv, LinkTypeOK, Passing
<1>4. \A v \in Workers : pc'[v] # "idle" => v \in Retrievers' /\ linkLoc'[v] \in Links
  BY <1>1 DEF LinkInv, LinkTypeOK
<1>5. \A l \in Links :
        \/ delivered'[l] = delivered[l]
        \/ /\ l = linkLoc[w]
           /\ delivered'[l] = delivered[l] + 1
           /\ pc[w] = "link_deliver"
  <2>1. CASE Deliver(w)
    <3>1. delivered' = [delivered EXCEPT ![linkLoc[w]] = @ + 1] /\ pc[w] = "link_deliver"
      BY <2>1 DEF Deliver
    <3> QED BY <3>1, <1>1 DEF LinkInv, LinkTypeOK
  <2>2. CASE LinkCrash(w)
    BY <2>2 DEF LinkCrash
  <2> QED BY <2>1, <2>2
<1>6. \A l \in Links : ~links'[l].consumed =>
        delivered'[l] = 0 /\ \A v \in Passing(l)' : pc'[v] # "link_deliver"
  BY <1>1, <1>3, <1>5 DEF LinkInv, LinkTypeOK, Passing
<1>7. \A l \in Links :
        delivered'[l] + Cardinality(Passing(l)') <= Cardinality(Retrievers')
  <2> SUFFICES ASSUME NEW l \in Links
               PROVE  delivered'[l] + Cardinality(Passing(l)') <= Cardinality(Retrievers')
    OBVIOUS
  <2>1. delivered[l] + Cardinality(Passing(l)) <= Cardinality(Retrievers)
        /\ delivered[l] \in Nat
    BY DEF LinkInv, LinkTypeOK
  <2>2. CASE l = linkLoc[w]
    <3>1. Cardinality(Passing(l)') = Cardinality(Passing(l)) - 1
      BY <2>2, <1>3, OneLeaves
    <3> QED BY <3>1, <2>1, <1>1, <1>5, FewWorkers
  <2>3. CASE l # linkLoc[w]
    BY <2>1, <2>3, <1>1, <1>3, <1>5, FewerPass, FewWorkers
  <2> QED BY <2>2, <2>3
<1> QED BY <1>1, <1>2, <1>4, <1>6, <1>7 DEF LinkInv

\* The invariant is kept by every step.
LEMMA LinkNextInv == LinkInv /\ [LinkNext]_linkVars => LinkInv'
<1> SUFFICES ASSUME LinkInv, [LinkNext]_linkVars PROVE LinkInv'
  OBVIOUS
<1>1. ASSUME NEW w \in Workers, NEW l \in Links, CreateLink(w, l) PROVE LinkInv'
  <2>1. UNCHANGED <<pc, linkLoc, delivered>>
    BY <1>1 DEF CreateLink
  <2>2. links' \in [Links -> [made : BOOLEAN, consumed : BOOLEAN, expired : BOOLEAN]]
        /\ \A k \in Links : links'[k].consumed = links[k].consumed
    BY <1>1 DEF CreateLink, LinkInv, LinkTypeOK
  <2> QED BY <2>1, <2>2, QuietStep
<1>2. ASSUME NEW l \in Links, Expire(l) PROVE LinkInv'
  <2>1. UNCHANGED <<pc, linkLoc, delivered>>
    BY <1>2 DEF Expire
  <2>2. links' \in [Links -> [made : BOOLEAN, consumed : BOOLEAN, expired : BOOLEAN]]
        /\ \A k \in Links : links'[k].consumed = links[k].consumed
    BY <1>2 DEF Expire, LinkInv, LinkTypeOK
  <2> QED BY <2>1, <2>2, QuietStep
<1>3. ASSUME UNCHANGED linkVars PROVE LinkInv'
  <2>1. UNCHANGED <<pc, linkLoc, delivered, links>>
    BY <1>3 DEF linkVars
  <2> QED BY <2>1, QuietStep DEF LinkInv, LinkTypeOK
<1> QED BY <1>1, <1>2, <1>3, RetrieveStep, ConsumeStep, EndStep DEF LinkNext

\* Rows and locals keep their types.
THEOREM LinkTypeCorrect == LinkSpec => []LinkTypeOK
<1>1. LinkInv => LinkTypeOK
  BY DEF LinkInv
<1> QED BY <1>1, LinkInitInv, LinkNextInv, PTL DEF LinkSpec

\* For any number of workers, a one-time link is delivered at most once for
\* each worker that retrieves: exactly once at most where one worker does.
THEOREM LinkBound == LinkSpec => []DeliveredOncePerWorker
<1>1. LinkInv => DeliveredOncePerWorker
  BY FewWorkers DEF LinkInv, LinkTypeOK, DeliveredOncePerWorker
<1> QED BY <1>1, LinkInitInv, LinkNextInv, PTL DEF LinkSpec
==============================================================================
