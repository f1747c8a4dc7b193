----------------------------- MODULE MCSatellites -----------------------------
(***************************************************************************)
(* What surrounds an order: how it is created and grouped before it is     *)
(* validated, what its requester has to do with it after it is submitted,  *)
(* and what administrators and the seed script leave behind.  The          *)
(* components share no row, so that each is explored while the others      *)
(* rest; two workers overlap in each of them.                              *)
(***************************************************************************)
EXTENDS OrderCreation, OrderGroups, Subscriptions, CredentialLinks, Notifications,
        ApprovalRules, ContextRules, SeedData

CONSTANTS w1, w2, l1, l2, t1, t2, z1, u1, o1, o2, i1, i2, c1, link, note,
          ann, bob, linux, windows, r1, r2

\* w1 serves the requester and an administrator, one call after the other; w2
\* everybody else and a second window of the requester.  No deletion of a rule
\* overlaps a submission, and no PATCH of a template the evaluation of rules.
TwoWindows ==
  [w \in Workers |->
     IF w = w1
       THEN {"create_order", "delete_order", "create_group", "delete_group",
             "reorder_groups", "create", "change", "cancel", "retrieve", "mark",
             "submit", "create_rule", "update_rule", "delete_rule",
             "create_availability", "update_availability", "delete_availability",
             "create_restriction", "delete_restriction"}
       ELSE {"create_order", "assign_tenant", "delete_assignment",
             "create_group", "assign", "toggle", "activate", "grant", "refuse",
             "link", "notify", "retrieve", "mark_all", "decide", "settings"}]

\* A network at each location.
TwoNetworks == {[id |-> "n1", location |-> l1, zone |-> z1],
                [id |-> "n2", location |-> l2, zone |-> z1]}

\* i2 is an item of o2 that is also named under o1.
OneItemAstray == (o1 :> {i1, i2}) @@ (o2 :> {i2})

\* ann orders two machines, bob an old one whose template is disabled, and one.
TwoRequesters == 1 :> ann @@ 2 :> bob
TwoBaskets    == 1 :> <<linux, linux>> @@ 2 :> <<"retired", windows>>

SeedCosts == linux :> 85 @@ windows :> 150
SeedTypes == linux :> {linux} @@ windows :> {windows}

\* Contexts with and without a zone; conditions that ask for one or nothing.
TwoCircumstances == {<<>>, "zone" :> z1}
TwoConditions    == {<<>>, "zone" :> z1}
TwoEffects       == {"max" :> 8, "max" :> 16 @@ "min" :> 2}

VARIABLE part  \* the component that moves

creationRows == <<used, assigned, creationLoc>>
groupRows    == <<editable, made, position, groupOf, groupLoc>>
subRows      == <<subs, subLoc>>
linkRows     == <<links, delivered, linkLoc>>
noteRows     == <<notes, counted, noteLoc>>
approvalRows == <<rules, asked, settings, ruleLoc>>
contextRows  == <<availability, restrictions>>

satelliteVars == <<pc, creationRows, groupRows, subRows, linkRows, noteRows,
                   approvalRows, contextRows, seedVars, part>>

SatellitesInit ==
  /\ CreationInit /\ GroupInit /\ SubscriptionInit /\ LinkInit /\ NoteInit
  /\ RuleInit /\ ContextRuleInit /\ SeedInit
  /\ part \in {"creation", "groups", "subscriptions", "links", "notes",
               "approvals", "context", "seed"}
  /\ part # "creation" => \A user \in Users : assigned[user] = {}

\* A component moves, and the rows of the others are left alone.
SatellitesNext ==
  /\ UNCHANGED part
  /\ \/ part = "creation" /\ CreationNext
     \/ part # "creation" /\ UNCHANGED creationRows
  /\ \/ part = "groups" /\ GroupNext
     \/ part # "groups" /\ UNCHANGED groupRows
  /\ \/ part = "subscriptions" /\ SubscriptionNext
     \/ part # "subscriptions" /\ UNCHANGED subRows
  /\ \/ part = "links" /\ LinkNext
     \/ part # "links" /\ UNCHANGED linkRows
  /\ \/ part = "notes" /\ NoteNext
     \/ part # "notes" /\ UNCHANGED noteRows
  /\ \/ part = "approvals" /\ ApprovalRulesNext
     \/ part # "approvals" /\ UNCHANGED approvalRows
  /\ \/ part = "context" /\ ContextRuleNext
     \/ part # "context" /\ UNCHANGED contextRows
  /\ \/ part = "seed" /\ SeedNext /\ UNCHANGED pc
     \/ part # "seed" /\ UNCHANGED seedVars

SatellitesSpec == SatellitesInit /\ [][SatellitesNext]_satelliteVars
==============================================================================
