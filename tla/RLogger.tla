------------------------------- MODULE RLogger -------------------------------
(***************************************************************************)
(* stanr::r_logger (inst/include/stanr/r_logger.hpp): the buffered logger  *)
(* that the chains of a run write to from their own threads and that the R *)
(* thread alone flushes to the console and to $output().                   *)
(*                                                                         *)
(* push() runs under mutex_ and is one step.  flush() takes the mutex only *)
(* to swap the buffer out (SwapBuffer); it then prints the entries it took *)
(* one by one without the mutex (PrintEntry), so pushes interleave with    *)
(* the printing.                                                           *)
(*                                                                         *)
(* A message is a record of what push() and flush() look at: its level and *)
(* whether its text starts with one of the two prefixes push() knows or is *)
(* empty.  The field "block" is not in the code: it says which block of    *)
(* exception chatter the caller was writing, the truth that push() tries   *)
(* to recover from the text.                                               *)
(***************************************************************************)
EXTENDS Naturals, Sequences

CONSTANTS
  Writers,          \* the threads that log: the chains of the run
  ShowMessages,     \* show_messages_
  ShowExceptions    \* show_exceptions_

ASSUME GatesAreBoolean == ShowMessages \in BOOLEAN /\ ShowExceptions \in BOOLEAN

VARIABLES
  buffer_,              \* entries pushed and not yet taken by a flush
  metropolis_pending_,  \* open error-level blocks
  init_pending_,        \* continuation lines left of a warn-level block
  entries,              \* flush()'s local: entries taken and not yet printed
  history_,             \* every message flushed so far, for $output()
  printed,              \* the positions of history_ that reached the console
  pushed                \* every message pushed, in mutex order (not in the code)

logVars == <<buffer_, metropolis_pending_, init_pending_, entries, history_,
             printed, pushed>>
-----------------------------------------------------------------------------
Levels == {"info", "warn", "error"}
Texts  == {"informational", "rejecting", "empty", "other"}
Blocks == {"metropolis", "init", "none"}

Message == [src : Writers, lv : Levels, text : Texts, block : Blocks]
Entry   == [msg : Message, exception : BOOLEAN]

\* e.lv >= level::error
Severe(m) == m.lv = "error"

LogTypeOK ==
  /\ buffer_ \in Seq(Entry)
  /\ metropolis_pending_ \in Nat
  /\ init_pending_ \in 0..2
  /\ entries \in Seq(Entry)
  /\ history_ \in Seq(Message)
  /\ printed \subseteq 1..Len(history_)
  /\ pushed \in Seq(Message)

LogInit ==
  /\ buffer_ = <<>>
  /\ metropolis_pending_ = 0
  /\ init_pending_ = 0
  /\ entries = <<>>
  /\ history_ = <<>>
  /\ printed = {}
  /\ pushed = <<>>
-----------------------------------------------------------------------------
(* push(): the classification of a message and the counters it moves.      *)

Opens(m)  == \/ m.lv = "error" /\ m.text = "informational"
             \/ m.lv = "warn"  /\ m.text = "rejecting"

Continues(m) == \/ m.lv = "error" /\ metropolis_pending_ > 0
                \/ m.lv = "warn"  /\ init_pending_ > 0

IsException(m) == Opens(m) \/ Continues(m)

\* Fault: a flag instead of a count.
FaultyMetropolisFlag(m) ==
  IF m.lv # "error" THEN metropolis_pending_
  ELSE CASE m.text = "informational" -> 1
         [] m.text = "empty" -> 0
         [] OTHER -> metropolis_pending_

\* Fault: a blank line closes every block, not one.
FaultyMetropolisReset(m) ==
  IF m.lv # "error" THEN metropolis_pending_
  ELSE CASE m.text = "informational" -> metropolis_pending_ + 1
         [] m.text = "empty" -> 0
         [] OTHER -> metropolis_pending_

\* Fault: the blank line that closes a block is not counted.
FaultyMetropolisLeak(m) ==
  IF m.lv = "error" /\ m.text = "informational" THEN metropolis_pending_ + 1
  ELSE metropolis_pending_

MetropolisAfter(m) ==
  CASE m.lv = "error" /\ m.text = "informational" -> metropolis_pending_ + 1
    [] m.lv = "error" /\ m.text = "empty" /\ metropolis_pending_ > 0
         -> metropolis_pending_ - 1
    [] OTHER -> metropolis_pending_

\* Fault: the header is counted among its continuation lines.
FaultyInitAfter(m) ==
  IF m.lv # "warn" THEN init_pending_
  ELSE IF m.text = "rejecting" THEN 3
  ELSE IF init_pending_ > 0 THEN init_pending_ - 1 ELSE 0

InitAfter(m) ==
  CASE m.lv = "warn" /\ m.text = "rejecting" -> 2
    [] m.lv = "warn" /\ m.text # "rejecting" /\ init_pending_ > 0
         -> init_pending_ - 1
    [] OTHER -> init_pending_

Push(m) ==
  /\ buffer_' = Append(buffer_, [msg |-> m, exception |-> IsException(m)])
  /\ metropolis_pending_' = MetropolisAfter(m)
  /\ init_pending_' = InitAfter(m)
  /\ pushed' = Append(pushed, m)
  /\ UNCHANGED <<entries, history_, printed>>
-----------------------------------------------------------------------------
(* flush(), on the R thread.                                               *)

\* Fault: the buffer is copied and not emptied.
FaultySwapBuffer ==
  /\ entries' = buffer_
  /\ UNCHANGED <<buffer_, metropolis_pending_, init_pending_, history_, printed, pushed>>

SwapBuffer ==
  /\ entries' = buffer_
  /\ buffer_' = <<>>
  /\ UNCHANGED <<metropolis_pending_, init_pending_, history_, printed, pushed>>

Shown(e) == IF e.exception THEN ShowExceptions
            ELSE Severe(e.msg) \/ ShowMessages

PrintEntry ==
  /\ entries # <<>>
  /\ history_' = Append(history_, Head(entries).msg)
  /\ printed' = IF Shown(Head(entries)) THEN printed \cup {Len(history_) + 1}
                ELSE printed
  /\ entries' = Tail(entries)
  /\ UNCHANGED <<buffer_, metropolis_pending_, init_pending_, pushed>>
-----------------------------------------------------------------------------
\* Every message pushed is, at each moment, in exactly one of history_, the
\* entries a flush is printing and the buffer, in the order of the mutex:
\* swapping the buffer while chains push neither loses nor repeats a line of
\* $output() (r_logger.hpp: push() and flush()).
OutputAccounted ==
  /\ Len(pushed) = Len(history_) + Len(entries) + Len(buffer_)
  /\ \A i \in 1..Len(history_) : history_[i] = pushed[i]
  /\ \A i \in 1..Len(entries) : entries[i].msg = pushed[Len(history_) + i]
  /\ \A i \in 1..Len(buffer_) :
       buffer_[i].msg = pushed[Len(history_) + Len(entries) + i]
=============================================================================
