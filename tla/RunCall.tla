------------------------------- MODULE RunCall -------------------------------
(***************************************************************************)
(* What a fitting method of stanr promises the R user who calls it, with   *)
(* no threads, buffers or futures in sight:                                *)
(*   - R receives the messages of the run in the order in which they were  *)
(*     logged, and the call does not end before it has all of them;        *)
(*   - once the user's Ctrl-C has been taken, the call never returns a     *)
(*     value, and only a call that took one reports an interruption;       *)
(*   - nothing is logged after the call has ended.                         *)
(***************************************************************************)
EXTENDS Naturals, Sequences

CONSTANT Message

VARIABLES
  sent,        \* the messages the run has logged
  delivered,   \* the messages R has received
  cancelled,   \* the user's interrupt has been taken
  outcome      \* "running", or how the call ended

callVars == <<sent, delivered, cancelled, outcome>>

Outcomes == {"value", "interrupted", "error"}

Init ==
  /\ sent = <<>>
  /\ delivered = <<>>
  /\ cancelled = FALSE
  /\ outcome = "running"

Log ==
  /\ outcome = "running"
  /\ \E m \in Message : sent' = Append(sent, m)
  /\ UNCHANGED <<delivered, cancelled, outcome>>

Deliver ==
  /\ outcome = "running"
  /\ Len(delivered) < Len(sent)
  /\ delivered' = Append(delivered, sent[Len(delivered) + 1])
  /\ UNCHANGED <<sent, cancelled, outcome>>

Cancel ==
  /\ outcome = "running"
  /\ ~cancelled
  /\ cancelled' = TRUE
  /\ UNCHANGED <<sent, delivered, outcome>>

End ==
  /\ outcome = "running"
  /\ delivered = sent
  /\ \E o \in Outcomes :
       /\ o = "value" => ~cancelled
       /\ o = "interrupted" => cancelled
       /\ outcome' = o
  /\ UNCHANGED <<sent, delivered, cancelled>>

Next == Log \/ Deliver \/ Cancel \/ End

Safety == Init /\ [][Next]_callVars

\* What was logged is delivered without waiting for the run to end.
Spec == Safety /\ WF_callVars(Deliver)
=============================================================================
