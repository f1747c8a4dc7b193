-------------------------- MODULE MCOrderWorkflow --------------------------
(***************************************************************************)
(* Instances of OrderWorkflow for TLC: which worker may get which calls.   *)
(* Calls of one worker follow each other, calls of different workers       *)
(* overlap.                                                                *)
(***************************************************************************)
EXTENDS OrderViews

CONSTANTS w1, w2, w3, owner, boss

Only(calls) == [w \in Workers |-> calls]
Split(calls1, calls2, calls3) ==
  [w \in Workers |-> CASE w = w1 -> calls1 [] w = w2 -> calls2
                       [] OTHER -> calls3]

CallsSequential == Only(CallNames)
CallsDecisions  == Split({"submit", "dispatch", "sync"}, {"approve", "reject"},
                         {"approve", "timeout"})
CallsDispatch   == Split({"submit"}, {"submit", "dispatch", "sync"}, {})
CallsPolling    == Split({"submit"}, {"sync"}, {})
CallsTwoAdmins  == Split({"submit", "approve", "dispatch"}, {"dispatch"}, {})
CallsTimeout    == Only({"submit", "timeout"})
CallsWebhook    == Split({"submit"}, {"webhook"}, {})
=============================================================================
