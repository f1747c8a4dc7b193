--------------------------- MODULE CredentialLinks ---------------------------
(***************************************************************************)
(* One-time links to the credentials of a provisioned item                 *)
(* (credential_service.py, the last two endpoints of                       *)
(* api/v1/provisioning.py).                                                *)
(***************************************************************************)
EXTENDS Handlers, Naturals, FiniteSets

CONSTANTS
  Links,   \* the tokens
  NoLink,  \* no link at hand
  MayFail  \* may workers die?

LinkPC == {"idle", "link_consume", "link_deliver"}

ASSUME LinkAssumption ==
  /\ NoLink \notin Links
  /\ MayFail \in BOOLEAN
  /\ IsFiniteSet(Workers)

VARIABLES
  links,     \* rows of credential_links: made, is_consumed, expired
  delivered, \* delivered[l]: replies that carried the credentials
  linkLoc    \* the link a worker has read

linkVars == <<pc, links, delivered, linkLoc>>

LinkInit ==
  /\ PcInit
  /\ links = [l \in Links |-> [made |-> FALSE, consumed |-> FALSE,
                               expired |-> FALSE]]
  /\ delivered = [l \in Links |-> 0]
  /\ linkLoc = [w \in Workers |-> NoLink]

EndLink(w) == Reply(w) /\ linkLoc' = [linkLoc EXCEPT ![w] = NoLink]

CreateLink(w, l) ==
  /\ Begin(w, "link")
  /\ ~links[l].made
  /\ links' = [links EXCEPT ![l].made = TRUE]
  /\ UNCHANGED <<pc, delivered, linkLoc>>

\* Time passes: expires_at is reached.
Expire(l) ==
  /\ links[l].made
  /\ links' = [links EXCEPT ![l].expired = TRUE]
  /\ UNCHANGED <<pc, delivered, linkLoc>>

\* Mutant of RetrieveRead: is_consumed is set but never looked at.
RetrieveAgain(w, l) ==
  /\ Begin(w, "retrieve")
  /\ links[l].made /\ ~links[l].expired
  /\ Goto(w, "link_consume")
  /\ linkLoc' = [linkLoc EXCEPT ![w] = l]
  /\ UNCHANGED <<links, delivered>>

RetrieveRead(w, l) ==
  /\ Begin(w, "retrieve")
  /\ links[l].made /\ ~links[l].consumed /\ ~links[l].expired
  /\ Goto(w, "link_consume")
  /\ linkLoc' = [linkLoc EXCEPT ![w] = l]
  /\ UNCHANGED <<links, delivered>>

\* The commit looks at nothing: a link consumed meanwhile is consumed again.
Consume(w) ==
  /\ At(w, "link_consume")
  /\ links' = [links EXCEPT ![linkLoc[w]].consumed = TRUE]
  /\ Goto(w, "link_deliver")
  /\ UNCHANGED <<delivered, linkLoc>>

Deliver(w) ==
  /\ At(w, "link_deliver")
  /\ delivered' = [delivered EXCEPT ![linkLoc[w]] = @ + 1]
  /\ EndLink(w)
  /\ UNCHANGED links

\* A worker that dies after the commit takes the credentials with it.
LinkCrash(w) ==
  /\ MayFail
  /\ pc[w] \in LinkPC \ {"idle"}
  /\ EndLink(w)
  /\ UNCHANGED <<links, delivered>>

LinkNext ==
  \/ \E w \in Workers :
       \/ \E l \in Links : CreateLink(w, l) \/ RetrieveRead(w, l)
       \/ Consume(w) \/ Deliver(w) \/ LinkCrash(w)
  \/ \E l \in Links : Expire(l)

LinkSpec == LinkInit /\ [][LinkNext]_linkVars

(***************************************************************************)
(* Properties                                                              *)
(***************************************************************************)
\* Columns and locals have their types.
LinkTypeOK ==
  /\ links \in [Links -> [made : BOOLEAN, consumed : BOOLEAN, expired : BOOLEAN]]
  /\ delivered \in [Links -> Nat]
  /\ linkLoc \in [Workers -> Links \cup {NoLink}]

Retrievers == {w \in Workers : "retrieve" \in Calls[w]}

\* How far "one-time" goes.  The test and the commit of retrieve_credentials
\* are separate steps, so each worker process may pass the test once before
\* the first of them commits; after that none does.  A link is delivered at
\* most as often as there are workers that retrieve, and once with one worker.
DeliveredOncePerWorker ==
  \A l \in Links : delivered[l] <= Cardinality(Retrievers)
==============================================================================
