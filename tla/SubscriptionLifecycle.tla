------------------------ MODULE SubscriptionLifecycle ------------------------
(***************************************************************************)
(* What a subscription promises its owner: a change or a cancellation is   *)
(* asked for at once, decided at once, and only a change that was asked    *)
(* for and granted touches the parameters.                                 *)
(***************************************************************************)
CONSTANTS
  Subs,     \* the subscriptions
  Changes,  \* parameter changes an owner may ask for
  NoChange, \* the request that changes nothing
  Cancel,   \* the wish to cancel
  None      \* nothing asked for

VARIABLES
  state,    \* state[s]: absent, ordered, active, changing, cancelling, over
  wish,     \* wish[s]: the change that waits for a decision
  applied   \* applied[s]: the changes that were granted

ALInit ==
  /\ state = [s \in Subs |-> "absent"]
  /\ wish = [s \in Subs |-> None]
  /\ applied = [s \in Subs |-> {}]

Move(s, from, to) == state[s] = from /\ state' = [state EXCEPT ![s] = to]

Order(s)    == Move(s, "absent", "ordered") /\ UNCHANGED <<wish, applied>>
Activate(s) == Move(s, "ordered", "active") /\ UNCHANGED <<wish, applied>>

AskChange(s, c) ==
  /\ Move(s, "active", "changing")
  /\ wish' = [wish EXCEPT ![s] = c]
  /\ UNCHANGED applied

AskCancel(s) == Move(s, "active", "cancelling") /\ UNCHANGED <<wish, applied>>

GrantChange(s) ==
  /\ Move(s, "changing", "active")
  /\ applied' = [applied EXCEPT ![s] = @ \cup ({wish[s]} \ {NoChange})]
  /\ wish' = [wish EXCEPT ![s] = None]

GrantCancel(s) == Move(s, "cancelling", "over") /\ UNCHANGED <<wish, applied>>

Refuse(s) ==
  /\ Move(s, "changing", "active") \/ Move(s, "cancelling", "active")
  /\ wish' = [wish EXCEPT ![s] = None]
  /\ UNCHANGED applied

ALNext ==
  \E s \in Subs :
    \/ Order(s) \/ Activate(s)
    \/ \E c \in Changes \cup {NoChange} : AskChange(s, c)
    \/ AskCancel(s)
    \/ GrantChange(s) \/ GrantCancel(s) \/ Refuse(s)

ALSpec == ALInit /\ [][ALNext]_<<state, wish, applied>>
==============================================================================
