------------------------------ MODULE Handlers ------------------------------
(***************************************************************************)
(* What the modules about the smaller components share: worker processes   *)
(* that handle one call at a time.  A worker stands at pc[w]; what its     *)
(* session and its local variables hold is a variable of the component.    *)
(***************************************************************************)
CONSTANTS
  Workers,  \* processes that handle calls
  Calls     \* Calls[w]: the calls worker w gets

VARIABLE pc

PcInit == pc = [w \in Workers |-> "idle"]

\* open_session: a call begins only when the worker has ended the last one.
Begin(w, call) == pc[w] = "idle" /\ call \in Calls[w]

At(w, label) == pc[w] = label

Goto(w, label) == pc' = [pc EXCEPT ![w] = label]

\* close_session: the call ends, with or without success.
Reply(w) == Goto(w, "idle")
=============================================================================
