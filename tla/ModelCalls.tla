------------------------------ MODULE ModelCalls ------------------------------
(***************************************************************************)
(* What a Stan model promises the threads that evaluate it: each call is a *)
(* function of its own arguments.  It is answered by the value or the row  *)
(* at the point the caller gave, or it fails; what other threads ask at    *)
(* the same time, or asked before, cannot be seen in it.                   *)
(***************************************************************************)
CONSTANTS
  Threads,
  Calls,         \* what can be asked
  NoCall,
  Answers        \* Answers[c]: the answers call c may get

VARIABLES
  asked,    \* the call each thread waits for, or NoCall
  answer    \* its answer, until the thread takes it, or NoCall

callVars == <<asked, answer>>

Init ==
  /\ asked = [t \in Threads |-> NoCall]
  /\ answer = [t \in Threads |-> NoCall]

Ask(t) ==
  /\ asked[t] = NoCall
  /\ \E c \in Calls : asked' = [asked EXCEPT ![t] = c]
  /\ UNCHANGED answer

Answer(t) ==
  /\ asked[t] # NoCall /\ answer[t] = NoCall
  /\ \E a \in Answers[asked[t]] : answer' = [answer EXCEPT ![t] = a]
  /\ UNCHANGED asked

Take(t) ==
  /\ answer[t] # NoCall
  /\ asked' = [asked EXCEPT ![t] = NoCall]
  /\ answer' = [answer EXCEPT ![t] = NoCall]

Next == \E t \in Threads : Ask(t) \/ Answer(t) \/ Take(t)

Safety == Init /\ [][Next]_callVars

\* Every call is answered.
Spec == Safety /\ \A t \in Threads : WF_callVars(Answer(t)) /\ WF_callVars(Take(t))
=============================================================================
