------------------------- MODULE SyncServicesProofs -------------------------
(***************************************************************************)
(* The services on the R thread for every number of iterations and draws   *)
(* and every fit.                                                          *)
(*                                                                         *)
(* That a Ctrl-C is noticed follows it from the callback that takes it to  *)
(* the end of the call; what makes it go wrong is a row that $laplace()    *)
(* can take for a mode, so it has to be known when lbfgs has none.  What a *)
(* code of OK means is a statement on the rows each service has written    *)
(* when it ends, and so on those it has written after every iteration.     *)
(* That a failure is explained follows each error from the action that     *)
(* logs it through push() and flush() to the console (LogInv), and that of *)
(* Pathfinder's warning the lines logged as a whole (WarnedInv).           *)
(***************************************************************************)
EXTENDS SyncServices, FiniteSetTheorems, SequenceTheorems, TLAPS
-----------------------------------------------------------------------------
(* The logger, as in RunWorkerProofs: the types and the account of lines   *)
(* that push() and the two halves of flush() keep.                         *)

\* push() keeps the types of the logger, ...
LEMMA PushType ==
  ASSUME LogTypeOK, NEW m \in Message, Push(m)
  PROVE  LogTypeOK'
<1>1. [msg |-> m, exception |-> IsException(m)] \in Entry
  BY DEF Entry, IsException, Opens, Continues
<1>2. buffer_' \in Seq(Entry)
  BY <1>1 DEF LogTypeOK, Push
<1>3. metropolis_pending_' \in Nat
  BY DEF LogTypeOK, Push, MetropolisAfter
<1>4. init_pending_' \in 0..2
  BY DEF LogTypeOK, Push, InitAfter
<1>5. pushed' \in Seq(Message)
  BY DEF LogTypeOK, Push
<1>6. QED
  BY <1>2, <1>3, <1>4, <1>5 DEF LogTypeOK, Push

\* ... and so do the two halves of flush(), the swap under the mutex ...
LEMMA SwapType ==
  ASSUME LogTypeOK, SwapBuffer
  PROVE  LogTypeOK'
BY DEF LogTypeOK, SwapBuffer

\* ... and the print of an entry.
LEMMA PrintType ==
  ASSUME LogTypeOK, PrintEntry
  PROVE  LogTypeOK'
<1>1. /\ Head(entries) \in Entry
      /\ Tail(entries) \in Seq(Entry)
  BY HeadTailProperties DEF LogTypeOK, PrintEntry
<1>2. Head(entries).msg \in Message
  BY <1>1 DEF Entry
<1>3. history_' \in Seq(Message) /\ Len(history_') = Len(history_) + 1
  BY <1>2 DEF LogTypeOK, PrintEntry
<1>4. printed' \subseteq 1..Len(history_')
  <2>1. Len(history_) \in Nat
    BY DEF LogTypeOK
  <2>2. printed' \subseteq printed \cup {Len(history_) + 1}
    BY DEF PrintEntry
  <2>3. 1..Len(history_) \cup {Len(history_) + 1} \subseteq 1..Len(history_')
    BY <1>3, <2>1
  <2>4. QED
    BY <2>2, <2>3 DEF LogTypeOK
<1>5. QED
  BY <1>1, <1>3, <1>4 DEF LogTypeOK, PrintEntry

\* push() adds the same line to what was pushed and to the buffer, ...
LEMMA OutputPush ==
  ASSUME LogTypeOK, OutputAccounted, NEW m \in Message, Push(m)
  PROVE  OutputAccounted'
<1>1. /\ buffer_ \in Seq(Entry) /\ entries \in Seq(Entry)
      /\ history_ \in Seq(Message) /\ pushed \in Seq(Message)
  BY DEF LogTypeOK
<1>2. /\ Len(buffer_) \in Nat /\ Len(entries) \in Nat
      /\ Len(history_) \in Nat /\ Len(pushed) \in Nat
  BY <1>1
<1>3. PICK x : buffer_' = Append(buffer_, [msg |-> m, exception |-> x])
  BY DEF Push
<1>4. /\ Len(buffer_') = Len(buffer_) + 1
      /\ buffer_'[Len(buffer_) + 1].msg = m
      /\ \A i \in 1..Len(buffer_) : buffer_'[i] = buffer_[i]
  BY <1>1, <1>3
<1>5. /\ Len(pushed') = Len(pushed) + 1
      /\ pushed'[Len(pushed) + 1] = m
      /\ \A i \in 1..Len(pushed) : pushed'[i] = pushed[i]
  BY <1>1 DEF Push
<1>6. entries' = entries /\ history_' = history_
  BY DEF Push
<1>7. Len(pushed') = Len(history_') + Len(entries') + Len(buffer_')
  BY <1>2, <1>4, <1>5, <1>6 DEF OutputAccounted
<1>8. \A i \in 1..Len(history_') : history_'[i] = pushed'[i]
  BY <1>2, <1>5, <1>6 DEF OutputAccounted
<1>9. \A i \in 1..Len(entries') : entries'[i].msg = pushed'[Len(history_') + i]
  BY <1>2, <1>5, <1>6 DEF OutputAccounted
<1>10. ASSUME NEW i \in 1..Len(buffer_')
       PROVE  buffer_'[i].msg = pushed'[Len(history_') + Len(entries') + i]
  <2>1. CASE i \in 1..Len(buffer_)
    BY <2>1, <1>2, <1>4, <1>5, <1>6 DEF OutputAccounted
  <2>2. CASE i = Len(buffer_) + 1
    BY <2>2, <1>2, <1>4, <1>5, <1>6 DEF OutputAccounted
  <2>3. QED
    BY <1>2, <1>4, <2>1, <2>2
<1>11. QED
  BY <1>7, <1>8, <1>9, <1>10 DEF OutputAccounted

\* ... the swap moves the buffer to entries that were all printed, ...
LEMMA OutputSwap ==
  ASSUME LogTypeOK, OutputAccounted, entries = <<>>, SwapBuffer
  PROVE  OutputAccounted'
<1>1. /\ Len(buffer_) \in Nat /\ Len(history_) \in Nat /\ Len(pushed) \in Nat
      /\ Len(entries) = 0
  BY DEF LogTypeOK
<1>2. /\ entries' = buffer_ /\ Len(buffer_') = 0
      /\ history_' = history_ /\ pushed' = pushed
  BY DEF SwapBuffer
<1>3. \A i \in 1..Len(entries') : entries'[i].msg = pushed'[Len(history_') + i]
  BY <1>1, <1>2 DEF OutputAccounted
<1>4. QED
  BY <1>1, <1>2, <1>3 DEF OutputAccounted

\* ... and the print moves the first of these to $output().
LEMMA OutputPrint ==
  ASSUME LogTypeOK, OutputAccounted, PrintEntry
  PROVE  OutputAccounted'
<1>1. /\ Len(buffer_) \in Nat /\ Len(entries) \in Nat
      /\ Len(history_) \in Nat /\ Len(pushed) \in Nat
      /\ entries \in Seq(Entry) /\ history_ \in Seq(Message)
      /\ entries # <<>>
  BY DEF LogTypeOK, PrintEntry
<1>2. /\ Len(entries) # 0
      /\ entries' = Tail(entries)
      /\ Len(entries') = Len(entries) - 1
      /\ \A i \in 1..Len(entries') : entries'[i] = entries[i + 1]
      /\ Head(entries) = entries[1]
      /\ entries[1] \in Entry
  BY <1>1, HeadTailProperties, EmptySeq DEF PrintEntry
<1>3. Head(entries).msg \in Message /\ Head(entries).msg = pushed[Len(history_) + 1]
  BY <1>1, <1>2 DEF Entry, OutputAccounted
<1>4. /\ Len(history_') = Len(history_) + 1
      /\ history_'[Len(history_) + 1] = pushed[Len(history_) + 1]
      /\ \A i \in 1..Len(history_) : history_'[i] = history_[i]
  BY <1>1, <1>3 DEF PrintEntry
<1>5. buffer_' = buffer_ /\ pushed' = pushed
  BY DEF PrintEntry
<1>6. Len(pushed') = Len(history_') + Len(entries') + Len(buffer_')
  <2>1. Len(pushed) = Len(history_) + Len(entries) + Len(buffer_)
    BY DEF OutputAccounted
  <2>2. Len(history_') + Len(entries') = Len(history_) + Len(entries)
    BY <1>1, <1>2, <1>4
  <2>3. QED
    BY <2>1, <2>2, <1>5
<1>7. ASSUME NEW i \in 1..Len(history_')
      PROVE  history_'[i] = pushed'[i]
  <2>1. CASE i \in 1..Len(history_)
    BY <2>1, <1>4, <1>5 DEF OutputAccounted
  <2>2. CASE i = Len(history_) + 1
    BY <2>2, <1>4, <1>5
  <2>3. QED
    BY <1>1, <1>4, <2>1, <2>2
<1>8. ASSUME NEW i \in 1..Len(entries')
      PROVE  entries'[i].msg = pushed'[Len(history_') + i]
  <2>1. i + 1 \in 1..Len(entries) /\ entries'[i] = entries[i + 1]
    BY <1>1, <1>2
  <2>2. entries[i + 1].msg = pushed[Len(history_) + (i + 1)]
    BY <2>1 DEF OutputAccounted
  <2>3. Len(history_) + (i + 1) = Len(history_') + i
    BY <1>1, <1>2, <1>4
  <2>4. QED
    BY <2>1, <2>2, <2>3, <1>5
<1>9. ASSUME NEW i \in 1..Len(buffer_')
      PROVE  buffer_'[i].msg = pushed'[Len(history_') + Len(entries') + i]
  <2>1. Len(history_') + Len(entries') + i = Len(history_) + Len(entries) + i
    BY <1>1, <1>2, <1>4, <1>5
  <2>2. QED
    BY <2>1, <1>5 DEF OutputAccounted
<1>10. QED
  BY <1>6, <1>7, <1>8, <1>9 DEF OutputAccounted
-----------------------------------------------------------------------------
RowSet == Nat \cup [iter : Nat, chain : Nat]

AfterService == stage \in {"flush", "print", "returned"}
Ok == AfterService /\ return_code = "OK"

\* The rows that count, and the last row.
Numbers(n) == [k \in 1..n |-> k]
EndsWith(s, n) == s # <<>> /\ s[Len(s)] = n

CallInv ==
  /\ call \in Calls
  /\ service = call.method \/ ForMode
  /\ stage = "init" => service \notin {"laplace", "gq"}
  /\ done \in Nat
  /\ rows \in Seq(RowSet)

NoticeInv ==
  taken => \/ stage \in {"thrown", "stopped"}
           \/ /\ AfterService /\ return_code \notin {"none", "OK"}
              /\ ForMode /\ ~call.save => rows = <<>>
           \/ call.method = "laplace" /\ call.save

SearchInv ==
  /\ stage = "init" => rows = <<>>
  /\ service = "lbfgs" =>
       /\ stage # "drawing"
       /\ stage \in {"loop", "converged", "failed"} =>
            IF call.save THEN EndsWith(rows, done) ELSE rows = <<>>
       /\ Ok => EndsWith(rows, done)
  /\ service = "newton" /\ Ok => EndsWith(rows, done)
  /\ service = "diagnose" /\ Ok => done = Iterations

DrawInv ==
  /\ service = "laplace" =>
       /\ stage = "loop" => done <= Iterations /\ rows = Numbers(done)
       /\ Ok => rows = Numbers(Iterations)
  /\ service = "advi" =>
       /\ stage = "loop" => done <= Iterations + 1 /\ rows = [k \in 1..done |-> k - 1]
       /\ Ok => rows = [k \in 1..Iterations + 1 |-> k - 1]
  /\ service = "path" =>
       /\ stage = "loop" => rows = <<>>
       /\ stage = "drawing" => done <= Iterations /\ rows = Numbers(done)
  /\ service = "gq" =>
       /\ stage = "loop" => done <= InputRows /\ rows = [k \in 1..done |-> DrawOfRow(k - 1)]
       /\ Ok => rows = [k \in 1..InputRows |-> DrawOfRow(k - 1)]

FitInv == stage = "returned" /\ service # "gq" => fit = Payload

SyncInv == CallInv /\ NoticeInv /\ SearchInv /\ DrawInv /\ FitInv

\* What a service logs: no line of it is taken for the header of a Metropolis block.
Plain == {l \in Message : l.text # "informational"}

ReturnCodes == {"none", "OK", "FAILED", "CONFIG", "DATAERR", "SOFTWARE"}
Failures == {"CONFIG", "DATAERR", "SOFTWARE"}

\* A line that push() takes for a genuine error, and an entry it took for one.
Genuine(l) == l.lv = "error" /\ l.text = "other"
Kept(e) == Severe(e.msg) /\ ~e.exception

\* Where the line that explains a failure may be.
ErrorUnderWay ==
  \/ \E k \in 1..Len(lines) : Genuine(lines[k])
  \/ \E k \in 1..Len(buffer_) : Kept(buffer_[k])
  \/ \E k \in 1..Len(entries) : Kept(entries[k])
  \/ \E k \in printed : Severe(history_[k])

LinesInv ==
  /\ lines \in Seq(Plain)
  /\ metropolis_pending_ = 0
  /\ return_code \in ReturnCodes
  /\ {sigint, taken} \subseteq BOOLEAN
  /\ stage \in {"init", "loop", "converged", "failed", "drawing", "flush", "print",
                "returned", "stopped", "thrown"}

\* Nothing is flushed before the service has returned, and all of it then.
FlushInv ==
  /\ stage \notin {"print", "returned", "stopped"} => entries = <<>> /\ history_ = <<>>
  /\ stage \in {"print", "returned", "stopped"} => lines = <<>> /\ buffer_ = <<>>
  /\ stage \in {"returned", "stopped"} => entries = <<>>

ExplainedInv ==
  /\ stage = "thrown" => service \notin {"laplace", "gq"}
  /\ return_code \in Failures /\ stage # "stopped" => AfterService /\ ErrorUnderWay

LogInv == LogTypeOK /\ OutputAccounted /\ LinesInv /\ FlushInv /\ ExplainedInv

\* The rows and the array of $generate_quantities(), also when it fails halfway.
ArrayInv ==
  service = "gq" =>
    /\ done <= InputRows /\ rows = [k \in 1..done |-> DrawOfRow(k - 1)]
    /\ stage = "returned" =>
         fit = RArray(n_iters, call.shape.nchains, call.shape.n_cols, Copied)
-----------------------------------------------------------------------------
BeforeEnd == {"init", "loop", "converged", "failed", "drawing"}

LEMMA Sizes ==
  ASSUME CallInv
  PROVE  /\ Iterations \in Nat /\ ElboDraws \in Nat
         /\ call.method \in Methods /\ service \in Methods
         /\ call.shape.iterations \in Nat \ {0} /\ call.shape.nchains \in Nat \ {0}
         /\ InputRows \in Nat
<1>1. /\ call.method \in Methods /\ call.shape \in Fits
  BY DEF CallInv, Calls
<1>2. service \in Methods
  BY <1>1 DEF CallInv, ForMode, Methods
<1>3. call.shape.iterations \in Nat \ {0} /\ call.shape.nchains \in Nat \ {0}
  BY <1>1, SyncAssumption
<1> QED BY <1>1, <1>2, <1>3, SyncAssumption DEF InputRows

LEMMA InitEstablishes == Init => SyncInv
<1> SUFFICES ASSUME Init PROVE SyncInv
  OBVIOUS
<1>1. CallInv
  BY DEF Init, CallInv, ForMode
<1>2. NoticeInv /\ FitInv
  BY DEF Init, NoticeInv, FitInv
<1>3. SearchInv
  BY DEF Init, SearchInv, Ok, AfterService
<1>4. InputRows \in Nat /\ Iterations \in Nat
  BY <1>1, Sizes
<1>5. DrawInv
  BY <1>4 DEF Init, DrawInv, Ok, AfterService, Numbers
<1> QED BY <1>1, <1>2, <1>3, <1>5 DEF SyncInv

\* An exception ends the service with a code that is not OK or with none.
LEMMA RaisePreserves ==
  ASSUME SyncInv, stage \in BeforeEnd, NEW said, NEW code, code \notin {"none", "OK"},
         Raise(said, code)
  PROVE  SyncInv'
<1>1. UNCHANGED <<call, service, done, rows, mode, fit>>
  BY DEF Raise, To
<1>2. \/ stage' = "thrown"
      \/ stage' = "flush" /\ return_code' = code
  BY DEF Raise, To
<1>3. CallInv'
  BY <1>1, <1>2 DEF SyncInv, CallInv, ForMode
<1>4. ForMode /\ ~call.save => stage = "drawing" \/ rows = <<>>
  BY DEF SyncInv, SearchInv, ForMode, BeforeEnd
<1>5. ForMode => stage # "drawing"
  BY DEF SyncInv, SearchInv, ForMode
<1>6. NoticeInv'
  BY <1>1, <1>2, <1>4, <1>5 DEF NoticeInv, ForMode, AfterService
<1>7. SearchInv' /\ FitInv'
  BY <1>1, <1>2 DEF SearchInv, FitInv, Ok, AfterService
<1>8. DrawInv'
  BY <1>1, <1>2 DEF DrawInv, Ok, AfterService
<1> QED BY <1>3, <1>6, <1>7, <1>8 DEF SyncInv

\* Logging, printing and a pending Ctrl-C change nothing of this.
LEMMA QuietPreserves ==
  ASSUME SyncInv, Log \/ Flush \/ PrintLine \/ CtrlC \/ UNCHANGED vars
  PROVE  SyncInv'
<1>1. UNCHANGED <<call, service, done, rows, return_code, taken, fit>>
  BY DEF Log, Flush, PrintLine, CtrlC, vars, svcVars
<1>2. stage' = stage \/ (stage = "flush" /\ stage' = "print")
  BY DEF Log, Flush, PrintLine, CtrlC, vars, svcVars
<1>3. CallInv' /\ NoticeInv'
  BY <1>1, <1>2 DEF SyncInv, CallInv, NoticeInv, ForMode, AfterService
<1>4. SearchInv'
  BY <1>1, <1>2 DEF SyncInv, SearchInv, Ok, AfterService
<1>5. DrawInv'
  BY <1>1, <1>2 DEF SyncInv, DrawInv, Ok, AfterService, InputRows, DrawOfRow
<1>6. FitInv'
  BY <1>1, <1>2 DEF SyncInv, FitInv, Payload
<1> QED BY <1>3, <1>4, <1>5, <1>6 DEF SyncInv

LEMMA ExceptionPreserves ==
  ASSUME SyncInv,
         \/ InitFails \/ BeginThrows \/ Interrupted \/ ModelThrows
         \/ LbfgsLastRowThrows \/ NewtonLastRowThrows \/ PathDrawThrows
  PROVE  SyncInv'
<1> USE DEF BeforeEnd, At, Turn, Working
<1> service \in Methods
  BY Sizes DEF SyncInv
<1>1. CASE InitFails
  <2>1. stage = "init" /\ service \notin {"laplace", "gq"}
    BY <1>1 DEF InitFails, SyncInv, CallInv
  <2>2. Codes.init \notin {"none", "OK"}
    BY <2>1 DEF Codes, Methods, LbfgsCodes, NewtonCodes, AdviCodes, PathCodes, DiagnoseCodes
  <2> QED BY <1>1, <2>1, <2>2, RaisePreserves DEF InitFails
<1>2. CASE Interrupted
  <2>1. Codes.interrupt \notin {"none", "OK"}
    BY <1>2 DEF Interrupted, Codes, Methods, LbfgsCodes, NewtonCodes, LaplaceCodes, AdviCodes, PathCodes,
                DiagnoseCodes, GqCodes
  <2> QED BY <1>2, <2>1, RaisePreserves DEF Interrupted
<1>3. CASE ModelThrows
  <2>1. Codes.model \notin {"none", "OK"}
    BY <1>3 DEF ModelThrows, Codes, Methods, LbfgsCodes, NewtonCodes, LaplaceCodes, AdviCodes, PathCodes,
                DiagnoseCodes, GqCodes
  <2> QED BY <1>3, <2>1, RaisePreserves DEF ModelThrows
<1>4. CASE BeginThrows
  BY <1>4, RaisePreserves DEF BeginThrows
<1>5. CASE LbfgsLastRowThrows
  BY <1>5, RaisePreserves DEF LbfgsLastRowThrows
<1>6. CASE NewtonLastRowThrows
  BY <1>6, RaisePreserves DEF NewtonLastRowThrows
<1>7. CASE PathDrawThrows
  BY <1>7, RaisePreserves DEF PathDrawThrows
<1> QED BY <1>1, <1>2, <1>3, <1>4, <1>5, <1>6, <1>7

\* A step of a service that does not end the call: what is left to show of it
\* is what it makes of the rows.
LEMMA ServicePreserves ==
  ASSUME SyncInv, stage \in BeforeEnd, NEW where, NEW count \in Nat, NEW output \in Seq(RowSet),
         NEW code, NEW said, To(where, count, output, code, said), taken' = taken,
         where \in (BeforeEnd \ {"init"}) \cup {"flush"} \/ (where = "init" /\ stage = "init"),
         SearchInv', DrawInv'
  PROVE  SyncInv'
<1>1. /\ UNCHANGED <<call, service, mode, fit>>
      /\ stage' = where /\ done' = count /\ rows' = output
  BY DEF To
<1>2. CallInv'
  BY <1>1 DEF SyncInv, CallInv, ForMode, BeforeEnd
<1>3. NoticeInv'
  BY <1>1 DEF SyncInv, NoticeInv, BeforeEnd, AfterService
<1>4. FitInv'
  BY <1>1 DEF FitInv, BeforeEnd
<1> QED BY <1>2, <1>3, <1>4 DEF SyncInv

\* A row more at the end.
LEMMA AppendedRow ==
  ASSUME NEW s \in Seq(RowSet), NEW x \in RowSet
  PROVE  /\ Append(s, x) \in Seq(RowSet) /\ EndsWith(Append(s, x), x)
         /\ Append(s, x) # <<>>
BY DEF EndsWith

LEMMA AppendedNumbers ==
  ASSUME NEW n \in Nat
  PROVE  /\ Append(Numbers(n), n + 1) = Numbers(n + 1)
         /\ Append([k \in 1..n |-> k - 1], n) = [k \in 1..n + 1 |-> k - 1]
         /\ Append([k \in 1..n |-> DrawOfRow(k - 1)], DrawOfRow(n)) = [k \in 1..n + 1 |-> DrawOfRow(k - 1)]
         /\ Numbers(0) = <<>> /\ [k \in 1..0 |-> k - 1] = <<>>
BY DEF Numbers

\* What a service leaves alone when it takes a step.
LEMMA StepOf ==
  ASSUME NEW where, NEW count, NEW output, NEW code, NEW said, To(where, count, output, code, said)
  PROVE  /\ stage' = where /\ done' = count /\ rows' = output /\ return_code' = code
         /\ UNCHANGED <<call, service, fit>> /\ InputRows' = InputRows
         /\ \A k : DrawOfRow(k)' = DrawOfRow(k)
BY DEF To, InputRows, DrawOfRow

LEMMA InitStagePreserves ==
  ASSUME SyncInv, RejectInitial \/ Begin
  PROVE  SyncInv'
<1>1. stage = "init" /\ rows = <<>> /\ done \in Nat /\ <<>> \in Seq(RowSet)
  BY DEF RejectInitial, Begin, At, SyncInv, SearchInv, CallInv
<1>2. CASE RejectInitial
  <2>1. PICK said : To("init", done + 1, rows, "none", said)
    BY <1>2 DEF RejectInitial
  <2>2. taken' = taken /\ done + 1 \in Nat
    BY <1>1, <1>2 DEF RejectInitial, Stay
  <2>3. stage' = "init" /\ rows' = <<>> /\ UNCHANGED <<call, service>>
    BY <1>1, <2>1 DEF To
  <2>4. SearchInv' /\ DrawInv'
    BY <2>3 DEF SearchInv, DrawInv, Ok, AfterService
  <2> QED BY <1>1, <2>1, <2>2, <2>4, ServicePreserves DEF BeforeEnd
<1>3. CASE Begin
  <2>1. PICK said, output : /\ To("loop", 0, output, "none", said)
                            /\ output = IF service = "lbfgs" /\ call.save THEN <<0>> ELSE <<>>
    BY <1>3 DEF Begin
  <2>2. output \in Seq(RowSet) /\ (output # <<>> => EndsWith(output, 0))
    <3>1. 0 \in RowSet
      BY DEF RowSet
    <3>2. <<0>> \in Seq(RowSet) /\ Len(<<0>>) = 1 /\ <<0>>[1] = 0
      BY <3>1
    <3> QED BY <1>1, <2>1, <3>2 DEF EndsWith
  <2>3. /\ stage' = "loop" /\ done' = 0 /\ rows' = output /\ UNCHANGED <<call, service>>
        /\ taken' = taken
    BY <1>3, <2>1 DEF To, Begin, Stay
  <2>4. SearchInv'
    BY <2>1, <2>2, <2>3 DEF SearchInv, Ok, AfterService, EndsWith
  <2>5. DrawInv'
    <3>1. Iterations \in Nat /\ InputRows \in Nat
      BY Sizes DEF SyncInv
    <3>2. service \notin {"laplace", "gq"}
      BY <1>1 DEF SyncInv, CallInv
    <3> QED BY <2>1, <2>3, <3>1, <3>2, AppendedNumbers DEF DrawInv, Ok, AfterService
  <2> QED BY <1>1, <2>1, <2>2, <2>3, <2>4, <2>5, ServicePreserves DEF BeforeEnd
<1> QED BY <1>2, <1>3

\* The services that look for one solution; their last row is the latest.
LEMMA SearchPreserves ==
  ASSUME SyncInv, LbfgsStep \/ LbfgsEnds \/ NewtonStep \/ NewtonEnds \/ DiagnoseStep \/ DiagnoseEnds
  PROVE  SyncInv'
<1>1. /\ done \in Nat /\ rows \in Seq(RowSet) /\ Iterations \in Nat
      /\ done \in RowSet /\ done + 1 \in RowSet /\ done + 1 \in Nat
  BY Sizes DEF SyncInv, CallInv, RowSet
<1>2. PICK a, b : a = Append(rows, done) /\ b = Append(rows, done + 1)
  OBVIOUS
<1>3. /\ a \in Seq(RowSet) /\ EndsWith(a, done)
      /\ b \in Seq(RowSet) /\ EndsWith(b, done + 1)
  BY <1>1, <1>2, AppendedRow
<1>4. taken' = taken /\ stage \in BeforeEnd
  BY DEF LbfgsStep, LbfgsEnds, NewtonStep, NewtonEnds, DiagnoseStep, DiagnoseEnds, Stay, Turn, At, BeforeEnd
<1>5. CASE LbfgsStep
  <2>1. PICK where, said :
          /\ where \in {"loop", "converged", "failed"}
          /\ To(where, done + 1, IF call.save THEN b ELSE rows, "none", said)
    BY <1>2, <1>5 DEF LbfgsStep
  <2>2. PICK output : output = IF call.save THEN b ELSE rows
    OBVIOUS
  <2>3. /\ service = "lbfgs" /\ stage = "loop" /\ output \in Seq(RowSet)
        /\ IF call.save THEN EndsWith(output, done + 1) ELSE output = <<>>
    BY <1>1, <1>3, <1>5, <2>2 DEF LbfgsStep, Turn, At, SyncInv, SearchInv
  <2>4. /\ stage' = where /\ done' = done + 1 /\ rows' = output /\ return_code' = "none"
        /\ UNCHANGED <<call, service>>
        /\ where \in {"loop", "converged", "failed"}
    BY <2>1, <2>2 DEF To
  <2>5. SearchInv' /\ DrawInv'
    BY <2>3, <2>4 DEF SearchInv, DrawInv, Ok, EndsWith
  <2> QED BY <1>1, <1>4, <2>1, <2>2, <2>3, <2>4, <2>5, ServicePreserves DEF BeforeEnd
<1>6. CASE LbfgsEnds
  <2>1. PICK output, code, said :
          /\ To("flush", done, output, code, said)
          /\ output = IF call.save THEN rows ELSE a
    BY <1>2, <1>6 DEF LbfgsEnds
  <2>2. /\ service = "lbfgs" /\ output \in Seq(RowSet) /\ EndsWith(output, done)
    BY <1>1, <1>3, <1>6, <2>1 DEF LbfgsEnds, SyncInv, SearchInv
  <2>3. /\ stage' = "flush" /\ done' = done /\ rows' = output /\ UNCHANGED <<call, service>>
    BY <2>1 DEF To
  <2>4. SearchInv' /\ DrawInv'
    BY <2>2, <2>3 DEF SearchInv, DrawInv, Ok, EndsWith
  <2> QED BY <1>1, <1>4, <2>1, <2>2, <2>4, ServicePreserves DEF BeforeEnd
<1>7. CASE NewtonStep
  <2>1. PICK where, said :
          /\ where \in {"loop", "converged"}
          /\ To(where, done + 1, IF call.save THEN a ELSE rows, "none", said)
    BY <1>2, <1>7 DEF NewtonStep
  <2>2. PICK output : output = IF call.save THEN a ELSE rows
    OBVIOUS
  <2>3. service = "newton" /\ output \in Seq(RowSet)
    BY <1>1, <1>3, <1>7, <2>2 DEF NewtonStep, Turn, At
  <2>4. /\ stage' = where /\ rows' = output /\ return_code' = "none"
        /\ UNCHANGED <<call, service>> /\ where \in {"loop", "converged"}
    BY <2>1, <2>2 DEF To
  <2>5. SearchInv' /\ DrawInv'
    BY <2>3, <2>4 DEF SearchInv, DrawInv, Ok, AfterService
  <2> QED BY <1>1, <1>4, <2>1, <2>2, <2>3, <2>4, <2>5, ServicePreserves DEF BeforeEnd
<1>8. CASE NewtonEnds
  <2>1. PICK said : To("flush", done, a, "OK", said)
    BY <1>2, <1>8 DEF NewtonEnds
  <2>2. service = "newton"
    BY <1>8 DEF NewtonEnds
  <2>3. /\ stage' = "flush" /\ done' = done /\ rows' = a /\ UNCHANGED <<call, service>>
    BY <2>1 DEF To
  <2>4. SearchInv' /\ DrawInv'
    BY <1>3, <2>2, <2>3 DEF SearchInv, DrawInv, EndsWith
  <2> QED BY <1>1, <1>3, <1>4, <2>1, <2>4, ServicePreserves DEF BeforeEnd
<1>9. CASE DiagnoseStep
  <2>1. To("loop", done + 1, rows, "none", <<>>) /\ service = "diagnose"
    BY <1>9 DEF DiagnoseStep, Turn, At
  <2>2. /\ stage' = "loop" /\ return_code' = "none" /\ UNCHANGED <<call, service>>
    BY <2>1 DEF To
  <2>3. SearchInv' /\ DrawInv'
    BY <2>1, <2>2 DEF SearchInv, DrawInv, Ok
  <2> QED BY <1>1, <1>4, <2>1, <2>3, ServicePreserves DEF BeforeEnd
<1>10. CASE DiagnoseEnds
  <2>1. PICK code, said : To("flush", done, rows, code, said)
    BY <1>10 DEF DiagnoseEnds
  <2>2. service = "diagnose" /\ done = Iterations
    BY <1>10 DEF DiagnoseEnds, At
  <2>3. /\ stage' = "flush" /\ done' = done /\ UNCHANGED <<call, service>>
    BY <2>1 DEF To
  <2>4. SearchInv' /\ DrawInv'
    BY <2>2, <2>3 DEF SearchInv, DrawInv
  <2> QED BY <1>1, <1>4, <2>1, <2>4, ServicePreserves DEF BeforeEnd
<1> QED BY <1>5, <1>6, <1>7, <1>8, <1>9, <1>10

\* The services that count their draws.
LEMMA CountPreserves ==
  ASSUME SyncInv, LaplaceDraw \/ AdviDraw \/ GqRow \/ PathDraw
  PROVE  SyncInv'
<1>1. /\ done \in Nat /\ rows \in Seq(RowSet) /\ Iterations \in Nat /\ InputRows \in Nat
      /\ done \in RowSet /\ done + 1 \in RowSet /\ done + 1 \in Nat
  BY Sizes DEF SyncInv, CallInv, RowSet
<1>2. taken' = taken /\ stage \in BeforeEnd
  BY DEF LaplaceDraw, AdviDraw, GqRow, PathDraw, Stay, Turn, At, BeforeEnd
<1>3. DrawOfRow(done) \in RowSet
  <2>1. PICK n \in Nat \ {0} : n = call.shape.iterations
    BY Sizes DEF SyncInv
  <2>2. done % n \in Nat /\ done \div n \in Nat
    BY <1>1
  <2> QED BY <2>1, <2>2 DEF DrawOfRow, RowSet
<1>4. PICK where, x, output :
        /\ To(where, done + 1, output, "none", <<>>)
        /\ where = stage /\ output = Append(rows, x)
        /\ x = CASE service = "advi" -> done [] service = "gq" -> DrawOfRow(done) [] OTHER -> done + 1
  BY DEF LaplaceDraw, AdviDraw, GqRow, PathDraw, Turn, At
<1>5. x \in RowSet /\ output \in Seq(RowSet)
  BY <1>1, <1>3, <1>4, AppendedRow
<1>6. /\ stage' = stage /\ done' = done + 1 /\ rows' = output /\ return_code' = "none"
      /\ UNCHANGED <<call, service>> /\ InputRows' = InputRows
      /\ \A k : DrawOfRow(k)' = DrawOfRow(k)
  BY <1>4, StepOf
<1>7. /\ service \in {"laplace", "advi", "gq", "path"}
      /\ service # "path" => stage = "loop"
      /\ service = "path" => stage = "drawing"
  BY DEF LaplaceDraw, AdviDraw, GqRow, PathDraw, Turn, At
<1>8. SearchInv'
  BY <1>6, <1>7 DEF SearchInv, Ok
<1>9. DrawInv'
  <2>1. CASE service = "laplace"
    <3>1. done < Iterations /\ rows = Numbers(done) /\ stage = "loop"
      BY <2>1, <1>7 DEF LaplaceDraw, AdviDraw, GqRow, PathDraw, Turn, At, SyncInv, DrawInv
    <3>2. output = Numbers(done + 1)
      BY <1>1, <1>4, <2>1, <3>1, AppendedNumbers
    <3> QED BY <1>1, <1>6, <2>1, <3>1, <3>2 DEF DrawInv, Ok
  <2>2. CASE service = "advi"
    <3>1. done <= Iterations /\ rows = [k \in 1..done |-> k - 1] /\ stage = "loop"
      BY <2>2, <1>7 DEF LaplaceDraw, AdviDraw, GqRow, PathDraw, Turn, At, SyncInv, DrawInv
    <3>2. output = [k \in 1..done + 1 |-> k - 1]
      BY <1>1, <1>4, <2>2, <3>1, AppendedNumbers
    <3> QED BY <1>1, <1>6, <2>2, <3>1, <3>2 DEF DrawInv, Ok
  <2>3. CASE service = "gq"
    <3>1. done < InputRows /\ rows = [k \in 1..done |-> DrawOfRow(k - 1)] /\ stage = "loop"
      BY <2>3, <1>7 DEF LaplaceDraw, AdviDraw, GqRow, PathDraw, Turn, At, SyncInv, DrawInv
    <3>2. output = [k \in 1..done + 1 |-> DrawOfRow(k - 1)]
      BY <1>1, <1>4, <2>3, <3>1, AppendedNumbers
    <3> QED BY <1>1, <1>6, <2>3, <3>1, <3>2 DEF DrawInv, Ok
  <2>4. CASE service = "path"
    <3>1. done < Iterations /\ rows = Numbers(done) /\ stage = "drawing"
      BY <2>4, <1>7 DEF LaplaceDraw, AdviDraw, GqRow, PathDraw, Turn, At, SyncInv, DrawInv
    <3>2. output = Numbers(done + 1)
      BY <1>1, <1>4, <2>4, <3>1, AppendedNumbers
    <3> QED BY <1>1, <1>6, <2>4, <3>1, <3>2 DEF DrawInv, Ok
  <2> QED BY <1>7, <2>1, <2>2, <2>3, <2>4
<1> QED BY <1>1, <1>2, <1>4, <1>5, <1>7, <1>8, <1>9, ServicePreserves DEF BeforeEnd

LEMMA DrawsEndPreserves ==
  ASSUME SyncInv,
         AllDrawn \/ PathStep \/ PathFails \/ PathFallsBack \/ PathEnds \/ GqRejects \/ GqEnds
  PROVE  SyncInv'
<1>1. /\ done \in Nat /\ rows \in Seq(RowSet) /\ Iterations \in Nat /\ ElboDraws \in Nat
      /\ InputRows \in Nat
  BY Sizes DEF SyncInv, CallInv
<1>2. taken' = taken /\ stage \in BeforeEnd
  BY DEF AllDrawn, PathStep, PathFails, PathFallsBack, PathEnds, GqRejects, GqEnds, Stay, Turn, At, BeforeEnd
<1>3. CASE AllDrawn \/ PathEnds \/ GqEnds
  <2>1. PICK said : To("flush", done, rows, "OK", said)
    BY <1>3 DEF AllDrawn, PathEnds, GqEnds
  <2>2. /\ stage' = "flush" /\ rows' = rows /\ done' = done /\ UNCHANGED <<call, service>>
        /\ InputRows' = InputRows /\ \A k : DrawOfRow(k)' = DrawOfRow(k)
    BY <2>1, StepOf
  <2>3. /\ service = "laplace" => rows = Numbers(Iterations)
        /\ service = "advi" => rows = [k \in 1..Iterations + 1 |-> k - 1]
        /\ service = "path" => rows = Numbers(Iterations)
        /\ service = "gq" => rows = [k \in 1..InputRows |-> DrawOfRow(k - 1)]
        /\ service \in {"laplace", "advi", "path", "gq"}
    BY <1>1, <1>3 DEF AllDrawn, PathEnds, GqEnds, At, SyncInv, DrawInv
  <2>4. SearchInv'
    BY <2>2, <2>3 DEF SearchInv
  <2>5. DrawInv'
    BY <2>2, <2>3 DEF DrawInv
  <2> QED BY <1>1, <1>2, <2>1, <2>4, <2>5, ServicePreserves DEF BeforeEnd
<1>4. CASE PathStep
  <2>1. rows = <<>> /\ service = "path"
    BY <1>4 DEF PathStep, Turn, At, SyncInv, DrawInv
  <2>2. PICK where, count, said :
          /\ where \in {"loop", "drawing"}
          /\ To(where, count, rows, "none", said)
          /\ count \in Nat /\ (where = "drawing" => count = 0)
    BY <1>1, <1>4 DEF PathStep
  <2>3. /\ stage' = where /\ rows' = <<>> /\ done' = count /\ return_code' = "none"
        /\ UNCHANGED <<call, service>>
    BY <2>1, <2>2 DEF To
  <2>4. SearchInv'
    BY <2>1, <2>2, <2>3 DEF SearchInv, Ok
  <2>5. where = "drawing" => rows' = Numbers(done')
    BY <2>2, <2>3, AppendedNumbers
  <2>6. DrawInv'
    BY <1>1, <2>1, <2>2, <2>3, <2>5 DEF DrawInv, Ok, AfterService
  <2> QED BY <1>1, <1>2, <2>2, <2>4, <2>6, ServicePreserves DEF BeforeEnd
<1>5. CASE PathFails \/ GqRejects
  <2>1. PICK code, said : To("flush", done, rows, code, said) /\ code # "OK"
    BY <1>5 DEF PathFails, GqRejects
  <2>2. /\ stage' = "flush" /\ return_code' = code /\ UNCHANGED <<call, service>>
    BY <2>1 DEF To
  <2>3. SearchInv' /\ DrawInv'
    BY <2>1, <2>2 DEF SearchInv, DrawInv, Ok
  <2> QED BY <1>1, <1>2, <2>1, <2>3, ServicePreserves DEF BeforeEnd
<1>6. CASE PathFallsBack
  <2>1. PICK output, said : /\ To("flush", done, output, "OK", said)
                            /\ output = rows \o Numbers(ElboDraws)
    BY <1>6 DEF PathFallsBack, Numbers
  <2>2. Numbers(ElboDraws) \in Seq(RowSet)
    BY <1>1 DEF Numbers, RowSet
  <2>3. output \in Seq(RowSet)
    BY <1>1, <2>1, <2>2
  <2>4. /\ stage' = "flush" /\ UNCHANGED <<call, service>> /\ service = "path"
    BY <1>6, <2>1 DEF To, PathFallsBack, At
  <2>5. SearchInv' /\ DrawInv'
    BY <2>4 DEF SearchInv, DrawInv
  <2> QED BY <1>1, <1>2, <2>1, <2>3, <2>5, ServicePreserves DEF BeforeEnd
<1> QED BY <1>3, <1>4, <1>5, <1>6

\* What R does with the rows.
LEMMA ReturnPreserves ==
  ASSUME SyncInv, ReturnFit \/ NoMode \/ StartLaplace
  PROVE  SyncInv'
<1>1. CASE ReturnFit
  <2>1. /\ UNCHANGED <<call, service, done, rows, return_code, taken>>
        /\ stage = "print" /\ stage' = "returned" /\ ~ForMode
        /\ service # "gq" => fit' = Payload
    BY <1>1 DEF ReturnFit, Served
  <2>2. CallInv' /\ NoticeInv'
    BY <2>1 DEF SyncInv, CallInv, NoticeInv, ForMode, AfterService
  <2>3. SearchInv'
    BY <2>1 DEF SyncInv, SearchInv, Ok, AfterService
  <2>4. DrawInv'
    BY <2>1 DEF SyncInv, DrawInv, Ok, AfterService, InputRows, DrawOfRow
  <2>5. FitInv'
    <3>1. Payload' = Payload
      BY <2>1 DEF Payload
    <3> QED BY <2>1, <3>1 DEF FitInv
  <2> QED BY <2>2, <2>3, <2>4, <2>5 DEF SyncInv
<1>2. CASE NoMode
  <2>1. UNCHANGED <<call, service, done, rows, return_code, taken, fit>> /\ stage' = "stopped"
    BY <1>2 DEF NoMode
  <2>2. CallInv' /\ NoticeInv' /\ SearchInv' /\ FitInv'
    BY <2>1 DEF SyncInv, CallInv, NoticeInv, SearchInv, FitInv, ForMode, Ok, AfterService
  <2>3. DrawInv'
    BY <2>1 DEF DrawInv, Ok, AfterService
  <2> QED BY <2>2, <2>3 DEF SyncInv
<1>3. CASE StartLaplace
  <2>1. /\ call' = call /\ taken' = taken /\ service' = "laplace" /\ stage' = "loop"
        /\ done' = 0 /\ rows' = <<>> /\ return_code' = "none"
        /\ stage = "print" /\ service = "lbfgs" /\ call.method = "laplace" /\ rows # <<>>
    BY <1>3 DEF StartLaplace, Served, ForMode
  <2>2. CallInv'
    BY <2>1 DEF SyncInv, CallInv, ForMode
  <2>3. NoticeInv'
    BY <2>1 DEF SyncInv, NoticeInv, ForMode
  <2>4. SearchInv' /\ FitInv'
    BY <2>1 DEF SearchInv, FitInv, Ok, AfterService
  <2>5. DrawInv'
    <3>1. Iterations \in Nat
      BY Sizes DEF SyncInv
    <3>2. rows' = Numbers(done')
      BY <2>1, AppendedNumbers
    <3> QED BY <2>1, <3>1, <3>2 DEF DrawInv, Ok, AfterService
  <2> QED BY <2>2, <2>3, <2>4, <2>5 DEF SyncInv
<1> QED BY <1>1, <1>2, <1>3

LEMMA StepPreserves == SyncInv /\ [Next]_vars => SyncInv'
<1> SUFFICES ASSUME SyncInv, [Next]_vars PROVE SyncInv'
  OBVIOUS
<1>1. CASE Log \/ Flush \/ PrintLine \/ CtrlC \/ Idle \/ UNCHANGED vars
  BY <1>1, QuietPreserves DEF Idle
<1>2. CASE \/ InitFails \/ BeginThrows \/ Interrupted \/ ModelThrows
           \/ LbfgsLastRowThrows \/ NewtonLastRowThrows \/ PathDrawThrows
  BY <1>2, ExceptionPreserves
<1>3. CASE RejectInitial \/ Begin
  BY <1>3, InitStagePreserves
<1>4. CASE LbfgsStep \/ LbfgsEnds \/ NewtonStep \/ NewtonEnds \/ DiagnoseStep \/ DiagnoseEnds
  BY <1>4, SearchPreserves
<1>5. CASE LaplaceDraw \/ AdviDraw \/ GqRow \/ PathDraw
  BY <1>5, CountPreserves
<1>6. CASE AllDrawn \/ PathStep \/ PathFails \/ PathFallsBack \/ PathEnds \/ GqRejects \/ GqEnds
  BY <1>6, DrawsEndPreserves
<1>7. CASE ReturnFit \/ NoMode \/ StartLaplace
  BY <1>7, ReturnPreserves
<1> QED BY <1>1, <1>2, <1>3, <1>4, <1>5, <1>6, <1>7, Zenon DEF Next

LEMMA SyncInvariant == Spec => []SyncInv
BY InitEstablishes, StepPreserves, PTL DEF Spec
-----------------------------------------------------------------------------
(* What is logged.                                                         *)

LEMMA LineTypes ==
  /\ Info \in Plain /\ Warn \in Plain /\ Err \in Plain
  /\ Line("warn", "rejecting", "init") \in Plain /\ Line("warn", "other", "init") \in Plain
  /\ Genuine(Err)
BY SyncAssumption DEF Info, Warn, Err, Line, Plain, Message, Levels, Texts, Blocks, Genuine

LEMMA SaidTypes ==
  /\ <<>> \in Seq(Plain) /\ <<Info>> \in Seq(Plain) /\ <<Info, Info>> \in Seq(Plain)
  /\ <<Warn, Info>> \in Seq(Plain) /\ <<Err>> \in Seq(Plain) /\ <<Err, Err>> \in Seq(Plain)
  /\ <<Line("warn", "rejecting", "init"), Line("warn", "other", "init"), Line("warn", "other", "init")>> \in Seq(Plain)
<1>1. PICK i, w, e, r, o : /\ i = Info /\ w = Warn /\ e = Err
                           /\ r = Line("warn", "rejecting", "init") /\ o = Line("warn", "other", "init")
  OBVIOUS
<1>2. /\ <<>> \in Seq(Plain) /\ <<i>> \in Seq(Plain) /\ <<i, i>> \in Seq(Plain)
      /\ <<w, i>> \in Seq(Plain) /\ <<e>> \in Seq(Plain) /\ <<e, e>> \in Seq(Plain)
      /\ <<r, o, o>> \in Seq(Plain)
  BY <1>1, LineTypes
<1> QED BY <1>1, <1>2

\* The sequences that end with an error have one in them.
LEMMA SaysError ==
  /\ \E k \in 1..Len(<<Err>>) : Genuine(<<Err>>[k])
  /\ \E k \in 1..Len(<<Err, Err>>) : Genuine(<<Err, Err>>[k])
  /\ \A s \in Seq(Plain) : /\ Append(s, Err) \in Seq(Plain)
                           /\ \E k \in 1..Len(Append(s, Err)) : Genuine(Append(s, Err)[k])
<1>1. PICK e : e = Err
  OBVIOUS
<1>2. e \in Plain /\ Genuine(e)
  BY <1>1, LineTypes
<1>3. <<e>>[1] = e /\ Len(<<e>>) = 1 /\ <<e, e>>[1] = e /\ Len(<<e, e>>) = 2
  OBVIOUS
<1>4. ASSUME NEW s \in Seq(Plain)
      PROVE  /\ Append(s, e) \in Seq(Plain)
             /\ \E k \in 1..Len(Append(s, e)) : Genuine(Append(s, e)[k])
  <2>1. /\ Append(s, e) \in Seq(Plain) /\ Len(s) + 1 \in 1..Len(Append(s, e))
        /\ Append(s, e)[Len(s) + 1] = e
    BY <1>2
  <2> QED BY <1>2, <2>1
<1> QED BY <1>1, <1>2, <1>3, <1>4

\* What the logger and R see of a step of a service.
ServiceStep ==
  /\ lines = <<>> /\ stage \in BeforeEnd
  /\ stage' \in BeforeEnd \cup {"flush", "thrown"}
  /\ lines' \in Seq(Plain)
  /\ return_code' \in ReturnCodes
  /\ return_code' \in Failures => stage' = "flush" /\ \E k \in 1..Len(lines') : Genuine(lines'[k])
  /\ stage' = "thrown" => service \notin {"laplace", "gq"}
  /\ {sigint', taken'} \subseteq BOOLEAN
  /\ UNCHANGED <<call, service, mode, fit, logVars>>

LEMMA RaiseStep ==
  ASSUME lines = <<>>, stage \in BeforeEnd, {sigint', taken'} \subseteq BOOLEAN,
         NEW said \in Seq(Plain), NEW code \in {"escapes"} \cup Failures, Raise(said, code),
         code = "escapes" => service \notin {"laplace", "gq"}
  PROVE  ServiceStep
<1>1. CASE code = "escapes"
  <2>1. To("thrown", done, rows, "none", said)
    BY <1>1 DEF Raise
  <2> QED BY <1>1, <2>1 DEF To, ServiceStep, ReturnCodes, Failures
<1>2. CASE code # "escapes"
  <2>1. To("flush", done, rows, code, Append(said, Err))
    BY <1>2 DEF Raise
  <2>2. /\ stage' = "flush" /\ return_code' = code /\ lines' = Append(said, Err)
        /\ UNCHANGED <<call, service, mode, fit, logVars>>
    BY <2>1 DEF To
  <2>3. Append(said, Err) \in Seq(Plain) /\ \E k \in 1..Len(Append(said, Err)) : Genuine(Append(said, Err)[k])
    BY SaysError
  <2>4. lines' \in Seq(Plain) /\ \E k \in 1..Len(lines') : Genuine(lines'[k])
    BY <2>2, <2>3
  <2>5. code \in ReturnCodes
    BY <1>2 DEF ReturnCodes, Failures
  <2> QED BY <2>2, <2>4, <2>5 DEF ServiceStep
<1> QED BY <1>1, <1>2

LEMMA ToStep ==
  ASSUME lines = <<>>, stage \in BeforeEnd, {sigint', taken'} \subseteq BOOLEAN,
         NEW where \in BeforeEnd \cup {"flush"}, NEW count, NEW output, NEW code \in ReturnCodes,
         NEW said \in Seq(Plain), To(where, count, output, code, said),
         code \in Failures => where = "flush" /\ \E k \in 1..Len(said) : Genuine(said[k])
  PROVE  ServiceStep
<1>1. /\ stage' = where /\ return_code' = code /\ lines' = said
      /\ UNCHANGED <<call, service, mode, fit, logVars>>
  BY DEF To
<1>2. stage' # "thrown"
  BY <1>1 DEF BeforeEnd
<1> QED BY <1>1, <1>2 DEF ServiceStep

\* The services whose exceptions go past the flush are neither laplace nor gq.
LEMMA ExceptionStep ==
  ASSUME SyncInv, LinesInv,
         \/ InitFails \/ BeginThrows \/ Interrupted \/ ModelThrows
         \/ LbfgsLastRowThrows \/ NewtonLastRowThrows \/ PathDrawThrows
  PROVE  ServiceStep
<1> USE DEF BeforeEnd, At, Turn, Working, Stay
<1>1. service \in Methods /\ {sigint, taken} \subseteq BOOLEAN
  BY Sizes DEF SyncInv, LinesInv
<1>2. <<>> \in Seq(Plain) /\ <<Info>> \in Seq(Plain) /\ <<Err, Err>> \in Seq(Plain)
  BY SaidTypes
<1>3. CASE InitFails
  <2>1. stage = "init" /\ service \notin {"laplace", "gq"} /\ lines = <<>>
    BY <1>3 DEF InitFails, SyncInv, CallInv
  <2>2. Codes.init \in {"escapes"} \cup Failures
    BY <1>1, <2>1 DEF Codes, Failures, Methods, LbfgsCodes, NewtonCodes, AdviCodes, PathCodes, DiagnoseCodes
  <2>3. Raise(<<Err, Err>>, Codes.init) /\ {sigint', taken'} \subseteq BOOLEAN
    BY <1>1, <1>3 DEF InitFails
  <2> QED BY <1>2, <2>1, <2>2, <2>3, RaiseStep
<1>4. CASE BeginThrows
  <2>1. /\ lines = <<>> /\ stage \in BeforeEnd /\ service \notin {"laplace", "gq"}
        /\ Raise(<<Info>>, "escapes") /\ {sigint', taken'} \subseteq BOOLEAN
    BY <1>1, <1>4 DEF BeginThrows
  <2> QED BY <1>2, <2>1, RaiseStep
<1>5. CASE Interrupted
  <2>1. /\ lines = <<>> /\ stage \in BeforeEnd /\ Raise(<<>>, Codes.interrupt)
        /\ {sigint', taken'} \subseteq BOOLEAN /\ service # "advi"
    BY <1>1, <1>5 DEF Interrupted
  <2>2. /\ Codes.interrupt \in {"escapes"} \cup Failures
        /\ Codes.interrupt = "escapes" => service \notin {"laplace", "gq"}
    BY <1>1, <2>1 DEF Codes, Failures, Methods, LbfgsCodes, NewtonCodes, LaplaceCodes, PathCodes,
                      DiagnoseCodes, GqCodes
  <2> QED BY <1>2, <2>1, <2>2, RaiseStep
<1>6. CASE ModelThrows
  <2>1. /\ lines = <<>> /\ stage \in BeforeEnd /\ Raise(<<>>, Codes.model)
        /\ {sigint', taken'} \subseteq BOOLEAN
    BY <1>1, <1>6 DEF ModelThrows
  <2>2. /\ Codes.model \in {"escapes"} \cup Failures
        /\ Codes.model = "escapes" => service \notin {"laplace", "gq"}
    BY <1>1 DEF Codes, Failures, Methods, LbfgsCodes, NewtonCodes, LaplaceCodes, AdviCodes, PathCodes,
                DiagnoseCodes, GqCodes
  <2> QED BY <1>2, <2>1, <2>2, RaiseStep
<1>7. CASE LbfgsLastRowThrows
  <2>1. /\ lines = <<>> /\ stage \in BeforeEnd /\ Raise(<<>>, "SOFTWARE")
        /\ {sigint', taken'} \subseteq BOOLEAN
    BY <1>1, <1>7 DEF LbfgsLastRowThrows
  <2> QED BY <1>2, <2>1, RaiseStep DEF Failures
<1>8. CASE NewtonLastRowThrows \/ PathDrawThrows
  <2>1. /\ lines = <<>> /\ stage \in BeforeEnd /\ Raise(<<>>, "escapes")
        /\ {sigint', taken'} \subseteq BOOLEAN /\ service \notin {"laplace", "gq"}
    BY <1>1, <1>8 DEF NewtonLastRowThrows, PathDrawThrows
  <2> QED BY <1>2, <2>1, RaiseStep
<1> QED BY <1>3, <1>4, <1>5, <1>6, <1>7, <1>8

LEMMA WorkStep ==
  ASSUME SyncInv, LinesInv,
         \/ RejectInitial \/ Begin
         \/ LbfgsStep \/ NewtonStep \/ LaplaceDraw \/ AdviDraw \/ PathStep \/ PathDraw
         \/ DiagnoseStep \/ GqRow
  PROVE  ServiceStep
<1>1. {sigint, taken} \subseteq BOOLEAN
  BY DEF LinesInv
<1>2. /\ lines = <<>> /\ stage \in BeforeEnd /\ UNCHANGED <<sigint, taken>>
  BY DEF RejectInitial, Begin, LbfgsStep, NewtonStep, LaplaceDraw, AdviDraw, PathStep, PathDraw,
         DiagnoseStep, GqRow, Turn, At, Stay, BeforeEnd
<1>3. PICK info, warned, rejected :
        /\ info = <<Info>> /\ warned = <<Warn, Info>>
        /\ rejected = <<Line("warn", "rejecting", "init"), Line("warn", "other", "init"), Line("warn", "other", "init")>>
  OBVIOUS
<1>4. /\ info \in Seq(Plain) /\ warned \in Seq(Plain) /\ rejected \in Seq(Plain) /\ <<>> \in Seq(Plain)
  BY <1>3, SaidTypes
<1>5. ASSUME NEW where \in BeforeEnd, NEW count, NEW output, NEW said \in {<<>>, info, warned, rejected},
             To(where, count, output, "none", said)
      PROVE  ServiceStep
  <2>1. said \in Seq(Plain) /\ "none" \in ReturnCodes \ Failures
    BY <1>4 DEF ReturnCodes, Failures
  <2> QED BY <1>1, <1>2, <1>5, <2>1, ToStep
<1>6. CASE RejectInitial
  BY <1>3, <1>5, <1>6 DEF RejectInitial, BeforeEnd
<1>7. CASE Begin
  <2>1. PICK said, output : said \in {<<>>, info} /\ To("loop", 0, output, "none", said)
    BY <1>3, <1>7 DEF Begin
  <2> QED BY <1>5, <2>1 DEF BeforeEnd
<1>8. CASE LbfgsStep
  BY <1>3, <1>5, <1>8 DEF LbfgsStep, BeforeEnd
<1>9. CASE NewtonStep
  BY <1>3, <1>5, <1>9 DEF NewtonStep, BeforeEnd
<1>10. CASE LaplaceDraw \/ AdviDraw \/ DiagnoseStep \/ GqRow
  BY <1>5, <1>10 DEF LaplaceDraw, AdviDraw, DiagnoseStep, GqRow, BeforeEnd
<1>11. CASE PathDraw
  BY <1>5, <1>11 DEF PathDraw, BeforeEnd
<1>12. CASE PathStep
  <2>1. CASE To("loop", done + 1, rows, "none", <<>>)
    BY <1>5, <2>1 DEF BeforeEnd
  <2>2. CASE \E said \in {info, warned} : To("drawing", 0, rows, "none", said)
    BY <1>5, <2>2 DEF BeforeEnd
  <2> QED BY <1>3, <1>12, <2>1, <2>2 DEF PathStep
<1> QED BY <1>6, <1>7, <1>8, <1>9, <1>10, <1>11, <1>12

LEMMA EndStep ==
  ASSUME SyncInv, LinesInv,
         \/ LbfgsEnds \/ NewtonEnds \/ AllDrawn \/ PathFails \/ PathFallsBack \/ PathEnds
         \/ DiagnoseEnds \/ GqRejects \/ GqEnds
  PROVE  ServiceStep
<1>1. {sigint, taken} \subseteq BOOLEAN
  BY DEF LinesInv
<1>2. /\ lines = <<>> /\ stage \in BeforeEnd /\ UNCHANGED <<sigint, taken>>
  BY DEF LbfgsEnds, NewtonEnds, AllDrawn, PathFails, PathFallsBack, PathEnds, DiagnoseEnds, GqRejects,
         GqEnds, Turn, At, Stay, BeforeEnd
<1>3. PICK info, infos, warned, err, errs :
        /\ info = <<Info>> /\ infos = <<Info, Info>> /\ warned = <<Warn, Info>>
        /\ err = <<Err>> /\ errs = <<Err, Err>>
  OBVIOUS
<1>4. /\ <<>> \in Seq(Plain) /\ info \in Seq(Plain) /\ infos \in Seq(Plain) /\ warned \in Seq(Plain)
      /\ err \in Seq(Plain) /\ errs \in Seq(Plain)
      /\ \A s \in {err, errs} : \E k \in 1..Len(s) : Genuine(s[k])
  BY <1>3, SaidTypes, SaysError
<1>5. ASSUME NEW count, NEW output, NEW code \in ReturnCodes, NEW said \in {<<>>, info, infos, warned, err, errs},
             To("flush", count, output, code, said), code \in Failures => said \in {err, errs}
      PROVE  ServiceStep
  <2>1. said \in Seq(Plain)
    BY <1>4
  <2>2. code \in Failures => \E k \in 1..Len(said) : Genuine(said[k])
    BY <1>4, <1>5
  <2> QED BY <1>1, <1>2, <1>5, <2>1, <2>2, ToStep
<1>6. {"OK", "FAILED"} \subseteq ReturnCodes \ Failures /\ {"SOFTWARE", "DATAERR"} \subseteq ReturnCodes
  BY DEF ReturnCodes, Failures
<1>7. CASE LbfgsEnds
  <2>1. PICK output, code, said :
          /\ To("flush", done, output, code, said)
          /\ code = IF stage = "converged" THEN "OK" ELSE "SOFTWARE"
          /\ said = IF stage = "converged" THEN infos ELSE errs
    BY <1>3, <1>7 DEF LbfgsEnds
  <2> QED BY <1>5, <1>6, <2>1
<1>8. CASE NewtonEnds \/ PathEnds \/ GqEnds
  BY <1>5, <1>6, <1>8 DEF NewtonEnds, PathEnds, GqEnds
<1>9. CASE AllDrawn
  <2>1. PICK said : To("flush", done, rows, "OK", said) /\ said \in {<<>>, info}
    BY <1>3, <1>9 DEF AllDrawn
  <2> QED BY <1>5, <1>6, <2>1
<1>10. CASE PathFails \/ GqRejects
  BY <1>3, <1>5, <1>6, <1>10 DEF PathFails, GqRejects
<1>11. CASE PathFallsBack
  BY <1>3, <1>5, <1>6, <1>11 DEF PathFallsBack
<1>12. CASE DiagnoseEnds
  BY <1>3, <1>5, <1>6, <1>12 DEF DiagnoseEnds
<1> QED BY <1>7, <1>8, <1>9, <1>10, <1>11, <1>12
-----------------------------------------------------------------------------
(* The way of a line to the console.                                       *)

LEMMA PlainLines == Seq(Plain) \subseteq Seq(Message)
BY DEF Plain

LEMMA LogInitEstablishes == Init => LogInv
<1> SUFFICES ASSUME Init PROVE LogInv
  OBVIOUS
<1>1. LogTypeOK /\ OutputAccounted
  BY DEF Init, LogInit, LogTypeOK, OutputAccounted
<1>2. LinesInv
  BY SaidTypes DEF Init, LogInit, LinesInv, ReturnCodes
<1>3. FlushInv /\ ExplainedInv
  BY DEF Init, LogInit, FlushInv, ExplainedInv, Failures
<1> QED BY <1>1, <1>2, <1>3 DEF LogInv

LEMMA ServiceStepLogs ==
  ASSUME LogInv, ServiceStep
  PROVE  LogInv'
<1>1. UNCHANGED <<buffer_, metropolis_pending_, init_pending_, entries, history_, printed, pushed>>
  BY DEF ServiceStep, logVars
<1>2. LogTypeOK' /\ OutputAccounted'
  BY <1>1 DEF LogInv, LogTypeOK, OutputAccounted
<1>3. LinesInv'
  BY <1>1 DEF LogInv, LinesInv, ServiceStep, BeforeEnd
<1>4. FlushInv'
  BY <1>1 DEF LogInv, FlushInv, ServiceStep, BeforeEnd
<1>5. ExplainedInv'
  BY DEF ServiceStep, ExplainedInv, ErrorUnderWay, AfterService, BeforeEnd
<1> QED BY <1>2, <1>3, <1>4, <1>5 DEF LogInv

\* A line that is pushed is taken for what it is, because no block is open.
LEMMA LogLogs ==
  ASSUME LogInv, Log
  PROVE  LogInv'
<1>1. /\ lines \in Seq(Plain) /\ lines # <<>> /\ metropolis_pending_ = 0
      /\ stage \notin {"print", "returned", "stopped"}
  BY DEF LogInv, LinesInv, FlushInv, Log
<1>2. PICK l \in Plain : l = Head(lines) /\ l = lines[1] /\ Push(l)
  BY <1>1 DEF Log
<1>3. /\ lines' = Tail(lines) /\ lines' \in Seq(Plain) /\ Len(lines') = Len(lines) - 1
      /\ \A k \in 1..Len(lines') : lines'[k] = lines[k + 1]
  BY <1>1, HeadTailProperties DEF Log
<1>4. UNCHANGED <<call, service, stage, done, rows, return_code, sigint, taken, mode, fit, entries, history_, printed>>
  BY <1>2 DEF Log, Push
<1>5. LogTypeOK' /\ OutputAccounted'
  BY <1>2, PushType, OutputPush DEF LogInv, Plain
<1>6. LinesInv'
  <2>1. metropolis_pending_' = 0
    BY <1>1, <1>2 DEF Push, MetropolisAfter, Plain
  <2> QED BY <1>3, <1>4, <2>1 DEF LogInv, LinesInv
<1>7. FlushInv'
  BY <1>1, <1>4 DEF LogInv, FlushInv
<1>8. PICK e : e = [msg |-> l, exception |-> IsException(l)]
  OBVIOUS
<1>9. buffer_ \in Seq(Entry) /\ buffer_' = Append(buffer_, e)
  BY <1>2, <1>8 DEF LogInv, LogTypeOK, Push
<1>10. /\ Len(buffer_') = Len(buffer_) + 1 /\ buffer_'[Len(buffer_) + 1] = e
       /\ \A k \in 1..Len(buffer_) : buffer_'[k] = buffer_[k]
       /\ Len(buffer_) \in Nat
  BY <1>9
<1>11. Genuine(l) => Kept(e)
  <2> SUFFICES ASSUME Genuine(l) PROVE Kept(e)
    OBVIOUS
  <2>1. ~IsException(l)
    BY <1>1 DEF Genuine, IsException, Opens, Continues
  <2>2. IsException(l) = FALSE
    BY <2>1, Zenon DEF IsException
  <2>3. e = [msg |-> l, exception |-> FALSE]
    BY <1>8, <2>2
  <2> QED BY <2>3 DEF Genuine, Kept, Severe
<1>12. ErrorUnderWay => ErrorUnderWay'
  <2>1. ASSUME NEW k \in 1..Len(lines), Genuine(lines[k]) PROVE ErrorUnderWay'
    <3>1. CASE k = 1
      <4>1. Kept(buffer_'[Len(buffer_) + 1]) /\ Len(buffer_) + 1 \in 1..Len(buffer_')
        BY <1>2, <1>10, <1>11, <2>1, <3>1
      <4> QED BY <4>1 DEF ErrorUnderWay, Kept, Severe
    <3>2. CASE k # 1
      <4>1. k - 1 \in 1..Len(lines') /\ lines'[k - 1] = lines[k]
        BY <1>1, <1>3, <3>2
      <4> QED BY <2>1, <4>1 DEF ErrorUnderWay, Genuine
    <3> QED BY <3>1, <3>2
  <2>2. ASSUME NEW k \in 1..Len(buffer_), Kept(buffer_[k]) PROVE ErrorUnderWay'
    <3>1. k \in 1..Len(buffer_') /\ Kept(buffer_'[k])
      BY <1>10, <2>2
    <3> QED BY <3>1 DEF ErrorUnderWay, Kept, Severe
  <2>3. CASE \/ \E k \in 1..Len(entries) : Kept(entries[k])
             \/ \E k \in printed : Severe(history_[k])
    BY <1>4, <2>3 DEF ErrorUnderWay, Kept, Severe
  <2> QED BY <2>1, <2>2, <2>3 DEF ErrorUnderWay
<1>13. ExplainedInv'
  BY <1>4, <1>12 DEF LogInv, ExplainedInv, AfterService
<1> QED BY <1>5, <1>6, <1>7, <1>13 DEF LogInv

LEMMA FlushLogs ==
  ASSUME LogInv, Flush
  PROVE  LogInv'
<1>1. /\ stage = "flush" /\ stage' = "print" /\ lines = <<>> /\ entries = <<>> /\ SwapBuffer
      /\ UNCHANGED <<call, service, lines, return_code, sigint, taken>>
  BY DEF LogInv, FlushInv, Flush
<1>2. LogTypeOK' /\ OutputAccounted'
  BY <1>1, SwapType, OutputSwap DEF LogInv
<1>3. LinesInv' /\ FlushInv'
  BY <1>1 DEF LogInv, LinesInv, FlushInv, SwapBuffer
<1>4. entries' = buffer_ /\ UNCHANGED <<printed, history_>>
  BY <1>1 DEF SwapBuffer
<1>5. ErrorUnderWay => ErrorUnderWay'
  BY <1>1, <1>4 DEF ErrorUnderWay, Kept, Severe
<1>6. ExplainedInv'
  BY <1>1, <1>5 DEF LogInv, ExplainedInv, AfterService
<1> QED BY <1>2, <1>3, <1>6 DEF LogInv

\* An entry that was taken for a genuine error is shown whatever is switched off.
LEMMA PrintLogs ==
  ASSUME LogInv, PrintLine
  PROVE  LogInv'
<1>1. /\ stage = "print" /\ PrintEntry /\ entries # <<>> /\ lines = <<>> /\ buffer_ = <<>>
      /\ UNCHANGED <<call, service, stage, lines, return_code, sigint, taken, buffer_, metropolis_pending_>>
  BY DEF LogInv, FlushInv, PrintLine, PrintEntry, svcVars
<1>2. LogTypeOK' /\ OutputAccounted'
  BY <1>1, PrintType, OutputPrint DEF LogInv
<1>3. LinesInv' /\ FlushInv'
  BY <1>1 DEF LogInv, LinesInv, FlushInv
<1>4. /\ entries \in Seq(Entry) /\ history_ \in Seq(Message) /\ printed \subseteq 1..Len(history_)
  BY DEF LogInv, LogTypeOK
<1>5. /\ Head(entries) = entries[1] /\ entries[1] \in Entry
      /\ entries' = Tail(entries) /\ Len(entries') = Len(entries) - 1
      /\ \A k \in 1..Len(entries') : entries'[k] = entries[k + 1]
  BY <1>1, <1>4, HeadTailProperties DEF PrintEntry
<1>6. /\ Len(history_) \in Nat
      /\ history_'[Len(history_) + 1] = entries[1].msg
      /\ \A k \in 1..Len(history_) : history_'[k] = history_[k]
  <2>1. entries[1].msg \in Message /\ history_' = Append(history_, entries[1].msg)
    BY <1>1, <1>5 DEF PrintEntry, Entry
  <2> QED BY <1>4, <2>1
<1>7. printed \subseteq printed' /\ (Kept(entries[1]) => Len(history_) + 1 \in printed')
  BY <1>1, <1>5 DEF PrintEntry, Shown, Kept
<1>8. ErrorUnderWay => ErrorUnderWay'
  <2>1. ASSUME NEW k \in 1..Len(entries), Kept(entries[k]) PROVE ErrorUnderWay'
    <3>1. CASE k = 1
      <4>1. Len(history_) + 1 \in printed' /\ Severe(history_'[Len(history_) + 1])
        BY <1>6, <1>7, <2>1, <3>1 DEF Kept
      <4> QED BY <4>1 DEF ErrorUnderWay, Severe
    <3>2. CASE k # 1
      <4>1. k - 1 \in 1..Len(entries') /\ entries'[k - 1] = entries[k]
        BY <1>4, <1>5, <3>2
      <4> QED BY <2>1, <4>1 DEF ErrorUnderWay, Kept, Severe
    <3> QED BY <3>1, <3>2
  <2>2. ASSUME NEW k \in printed, Severe(history_[k]) PROVE ErrorUnderWay'
    <3>1. k \in printed' /\ history_'[k] = history_[k]
      BY <1>4, <1>6, <1>7
    <3> QED BY <2>2, <3>1 DEF ErrorUnderWay, Severe
  <2>3. Len(lines) = 0 /\ Len(buffer_) = 0
    BY <1>1
  <2> QED BY <2>1, <2>2, <2>3 DEF ErrorUnderWay
<1>9. ExplainedInv'
  BY <1>1, <1>8 DEF LogInv, ExplainedInv, AfterService
<1> QED BY <1>2, <1>3, <1>9 DEF LogInv

LEMMA AfterwardsLogs ==
  ASSUME SyncInv, LogInv, ReturnFit \/ NoMode \/ CtrlC \/ UNCHANGED vars
  PROVE  LogInv'
<1>1. /\ UNCHANGED <<service, lines, return_code>>
      /\ UNCHANGED <<buffer_, metropolis_pending_, init_pending_, entries, history_, printed, pushed>>
  BY DEF ReturnFit, NoMode, CtrlC, vars, svcVars, logVars
<1>2. /\ {sigint', taken'} \subseteq BOOLEAN
      /\ \/ stage' = stage
         \/ stage = "print" /\ entries = <<>> /\ stage' \in {"returned", "stopped"}
  BY DEF LogInv, LinesInv, ReturnFit, NoMode, CtrlC, Served, vars, svcVars
<1>3. LogTypeOK' /\ OutputAccounted'
  BY <1>1 DEF LogInv, LogTypeOK, OutputAccounted
<1>4. LinesInv' /\ FlushInv'
  BY <1>1, <1>2 DEF LogInv, LinesInv, FlushInv
<1>5. ErrorUnderWay => ErrorUnderWay'
  BY <1>1 DEF ErrorUnderWay, Kept, Genuine, Severe
<1>6. ExplainedInv'
  BY <1>1, <1>2, <1>5 DEF LogInv, ExplainedInv, AfterService
<1> QED BY <1>3, <1>4, <1>6 DEF LogInv

\* The service that makes the draws begins with a logger of its own.
LEMMA StartLaplaceLogs ==
  ASSUME LogInv, StartLaplace
  PROVE  LogInv'
<1>1. LogTypeOK' /\ OutputAccounted'
  BY DEF StartLaplace, LogTypeOK, OutputAccounted
<1>2. lines' \in Seq(Plain)
  BY SaidTypes DEF StartLaplace
<1>3. LinesInv' /\ FlushInv'
  BY <1>2 DEF StartLaplace, LogInv, LinesInv, FlushInv, ReturnCodes
<1>4. ExplainedInv'
  BY DEF StartLaplace, ExplainedInv, Failures
<1> QED BY <1>1, <1>3, <1>4 DEF LogInv

LEMMA LogStepPreserves == SyncInv /\ LogInv /\ [Next]_vars => LogInv'
<1> SUFFICES ASSUME SyncInv, LogInv, [Next]_vars PROVE LogInv'
  OBVIOUS
<1>1. CASE Log
  BY <1>1, LogLogs
<1>2. CASE Flush
  BY <1>2, FlushLogs
<1>3. CASE PrintLine
  BY <1>3, PrintLogs
<1>4. CASE ReturnFit \/ NoMode \/ CtrlC \/ Idle \/ UNCHANGED vars
  BY <1>4, AfterwardsLogs DEF Idle
<1>5. CASE StartLaplace
  BY <1>5, StartLaplaceLogs
<1>6. CASE \/ InitFails \/ BeginThrows \/ Interrupted \/ ModelThrows
           \/ LbfgsLastRowThrows \/ NewtonLastRowThrows \/ PathDrawThrows
  BY <1>6, ExceptionStep, ServiceStepLogs DEF LogInv
<1>7. CASE \/ RejectInitial \/ Begin
           \/ LbfgsStep \/ NewtonStep \/ LaplaceDraw \/ AdviDraw \/ PathStep \/ PathDraw
           \/ DiagnoseStep \/ GqRow
  BY <1>7, WorkStep, ServiceStepLogs DEF LogInv
<1>8. CASE \/ LbfgsEnds \/ NewtonEnds \/ AllDrawn \/ PathFails \/ PathFallsBack \/ PathEnds
           \/ DiagnoseEnds \/ GqRejects \/ GqEnds
  BY <1>8, EndStep, ServiceStepLogs DEF LogInv
<1> QED BY <1>1, <1>2, <1>3, <1>4, <1>5, <1>6, <1>7, <1>8, Zenon DEF Next

LEMMA LogInvariant == Spec => []LogInv
BY LogInitEstablishes, LogStepPreserves, SyncInvariant, PTL DEF Spec

\* A code of OK of Pathfinder: all draws, or a warning at the end of what is
\* logged, be it pushed already or not.
WarnedInv ==
  service = "path" /\ Ok => rows = Numbers(Iterations) \/ EndsWarned(pushed \o lines)

\* push() moves a line and leaves what is logged as a whole.
LEMMA LogMoves ==
  ASSUME LogInv, Log
  PROVE  pushed' \o lines' = pushed \o lines
<1>1. pushed \in Seq(Message) /\ lines \in Seq(Message) /\ lines # <<>>
  BY PlainLines DEF LogInv, LogTypeOK, LinesInv, Log
<1>2. pushed' = Append(pushed, Head(lines)) /\ lines' = Tail(lines)
  BY DEF Log, Push
<1>3. PICK p, l, m : p = pushed /\ l = lines /\ m = Head(lines)
  OBVIOUS
<1>4. /\ l[1] = m /\ m \in Message /\ Len(Tail(l)) = Len(l) - 1 /\ Tail(l) \in Seq(Message)
      /\ \A k \in 1..Len(Tail(l)) : Tail(l)[k] = l[k + 1]
      /\ Len(l) \in Nat \ {0} /\ Len(p) \in Nat
  BY <1>1, <1>3, HeadTailProperties
<1>5. PICK t : t = Tail(l)
  OBVIOUS
<1>6. PICK s, u : s = Append(p, m) \o t /\ u = p \o l
  OBVIOUS
<1>7. /\ s \in Seq(Message) /\ u \in Seq(Message)
      /\ Len(s) = Len(p) + 1 + Len(t) /\ Len(u) = Len(p) + Len(l)
  BY <1>1, <1>3, <1>4, <1>5, <1>6
<1>8. ASSUME NEW k \in 1..Len(u) PROVE s[k] = u[k]
  <2>1. CASE k <= Len(p) + 1
    BY <1>1, <1>3, <1>4, <1>5, <1>6, <1>7, <2>1
  <2>2. CASE k > Len(p) + 1
    <3>1. k - (Len(p) + 1) \in 1..Len(t)
      BY <1>4, <1>5, <1>7, <2>2
    <3>2. s[k] = t[k - (Len(p) + 1)]
      BY <1>1, <1>3, <1>4, <1>5, <1>6, <1>7, <2>2
    <3>3. t[k - (Len(p) + 1)] = l[k - Len(p)]
      BY <1>4, <1>5, <3>1
    <3>4. u[k] = l[k - Len(p)]
      BY <1>1, <1>3, <1>6, <1>7, <2>2
    <3> QED BY <3>2, <3>3, <3>4
  <2> QED BY <1>4, <1>7, <2>1, <2>2
<1>9. s = u
  BY <1>4, <1>5, <1>7, <1>8, SeqEqual
<1> QED BY <1>2, <1>3, <1>5, <1>6, <1>9

LEMMA WarnedStep == SyncInv /\ LogInv /\ WarnedInv /\ [Next]_vars => WarnedInv'
<1> SUFFICES ASSUME SyncInv, LogInv, WarnedInv, [Next]_vars, service' = "path", Ok'
             PROVE  rows' = Numbers(Iterations) \/ EndsWarned(pushed' \o lines')
  BY DEF WarnedInv, Numbers
<1>1. CASE Log
  <2>1. UNCHANGED <<service, stage, rows, return_code>> /\ pushed' \o lines' = pushed \o lines
    BY <1>1, LogMoves DEF Log
  <2> QED BY <2>1 DEF WarnedInv, Ok, AfterService
<1>2. CASE Flush \/ PrintLine \/ ReturnFit \/ NoMode \/ CtrlC \/ Idle \/ UNCHANGED vars
  <2>1. UNCHANGED <<service, rows, return_code, lines, pushed>>
    BY <1>2 DEF Flush, SwapBuffer, PrintLine, PrintEntry, ReturnFit, NoMode, CtrlC, Idle, vars, svcVars, logVars
  <2>2. AfterService' => AfterService
    BY <1>2 DEF Flush, PrintLine, ReturnFit, NoMode, CtrlC, Idle, Served, AfterService, vars, svcVars
  <2> QED BY <2>1, <2>2 DEF WarnedInv, Ok
<1>3. CASE PathFallsBack
  <2>1. PICK w, i : w = Warn /\ i = Info
    OBVIOUS
  <2>2. lines' = <<w, i>> /\ pushed' = pushed /\ pushed \in Seq(Message)
    BY <1>3, <2>1 DEF PathFallsBack, To, logVars, LogInv, LogTypeOK
  <2>3. w \in Message /\ i \in Message
    BY <2>1, LineTypes DEF Plain
  <2>4. Len(pushed \o <<w, i>>) = Len(pushed) + 2 /\ (pushed \o <<w, i>>)[Len(pushed) + 1] = w
        /\ Len(pushed) \in Nat
    BY <2>2, <2>3
  <2> QED BY <2>1, <2>2, <2>4 DEF EndsWarned
<1>4. CASE PathEnds
  BY <1>4 DEF PathEnds, At, To, SyncInv, DrawInv
<1>5. CASE InitFails \/ BeginThrows \/ Interrupted \/ ModelThrows \/ PathDrawThrows
  <2>1. PICK said, code : Raise(said, code) /\ (service = "path" => code # "OK")
    BY <1>5 DEF InitFails, BeginThrows, Interrupted, ModelThrows, PathDrawThrows, Codes, PathCodes
  <2>2. service' = service
    BY <2>1 DEF Raise, To
  <2>3. ~Ok'
    BY <2>1, <2>2 DEF Raise, To, Ok, AfterService
  <2> QED BY <2>3
<1>6. CASE \/ RejectInitial \/ Begin \/ PathStep \/ PathFails \/ PathDraw
  <2> QED BY <1>6 DEF RejectInitial, Begin, PathStep, PathFails, PathDraw, To, Ok, AfterService
<1>7. CASE \/ LbfgsStep \/ LbfgsEnds \/ LbfgsLastRowThrows \/ NewtonStep \/ NewtonLastRowThrows
           \/ NewtonEnds \/ LaplaceDraw \/ AdviDraw \/ AllDrawn
           \/ DiagnoseStep \/ DiagnoseEnds \/ GqRow \/ GqRejects \/ GqEnds
  <2>1. service # "path"
    BY <1>7 DEF LbfgsStep, LbfgsEnds, LbfgsLastRowThrows, NewtonStep, NewtonLastRowThrows, NewtonEnds,
                LaplaceDraw, AdviDraw, AllDrawn, DiagnoseStep, DiagnoseEnds, GqRow, GqRejects, GqEnds, Turn, At
  <2>2. service' = service
    BY <1>7 DEF LbfgsStep, LbfgsEnds, LbfgsLastRowThrows, NewtonStep, NewtonLastRowThrows, NewtonEnds,
                LaplaceDraw, AdviDraw, AllDrawn, DiagnoseStep, DiagnoseEnds, GqRow, GqRejects, GqEnds, Raise, To
  <2> QED BY <2>1, <2>2
<1>8. CASE StartLaplace
  BY <1>8 DEF StartLaplace
<1> QED BY <1>1, <1>2, <1>3, <1>4, <1>5, <1>6, <1>7, <1>8, Zenon DEF Next

LEMMA WarnedInvariant == Spec => []WarnedInv
<1>1. Init => WarnedInv
  BY DEF Init, WarnedInv, Ok, AfterService
<1> QED BY <1>1, WarnedStep, SyncInvariant, LogInvariant, PTL DEF Spec
-----------------------------------------------------------------------------
(* The rows of $generate_quantities() and their places in the array.       *)

\* What the array is filled with depends on the rows and on the shape alone.
LEMMA SameRowsSameArray ==
  ASSUME UNCHANGED <<call, done, rows>>
  PROVE  /\ n_iters' = n_iters /\ Copied' = Copied /\ InputRows' = InputRows
         /\ [k \in 1..done |-> DrawOfRow(k - 1)]' = [k \in 1..done |-> DrawOfRow(k - 1)]
<1>1. n_iters' = n_iters /\ InputRows' = InputRows
  BY DEF n_iters, n_rows, InputRows
<1>2. [k \in 1..done |-> DrawOfRow(k - 1)]' = [k \in 1..done |-> DrawOfRow(k - 1)]
  BY DEF DrawOfRow
<1>3. Copied' = Copied
  BY <1>1 DEF Copied, Place, Source, RSize
<1> QED BY <1>1, <1>2, <1>3

\* Only GqRow gives $generate_quantities() a row.
LEMMA OnlyGqRowWrites ==
  ASSUME SyncInv, service = "gq",
         \/ InitFails \/ BeginThrows \/ Interrupted \/ ModelThrows
         \/ LbfgsLastRowThrows \/ NewtonLastRowThrows \/ PathDrawThrows
         \/ RejectInitial \/ Begin
         \/ LbfgsStep \/ NewtonStep \/ LaplaceDraw \/ AdviDraw \/ PathStep \/ PathDraw
         \/ DiagnoseStep
         \/ LbfgsEnds \/ NewtonEnds \/ AllDrawn \/ PathFails \/ PathFallsBack \/ PathEnds
         \/ DiagnoseEnds \/ GqRejects \/ GqEnds
  PROVE  UNCHANGED <<done, rows>>
<1>1. stage # "init"
  BY DEF SyncInv, CallInv
<1>2. CASE Interrupted \/ ModelThrows
  BY <1>2 DEF Interrupted, ModelThrows, Raise, To
<1>3. CASE GqRejects \/ GqEnds
  BY <1>3 DEF GqRejects, GqEnds, To
<1> QED BY <1>1, <1>2, <1>3 DEF InitFails, BeginThrows, LbfgsLastRowThrows, NewtonLastRowThrows, PathDrawThrows,
      RejectInitial, Begin, LbfgsStep, NewtonStep, LaplaceDraw, AdviDraw, PathStep, PathDraw, DiagnoseStep,
      LbfgsEnds, NewtonEnds, AllDrawn, PathFails, PathFallsBack, PathEnds, DiagnoseEnds, Turn, At

LEMMA ArrayInitEstablishes == Init => ArrayInv
<1> SUFFICES ASSUME Init PROVE ArrayInv
  OBVIOUS
<1>1. SyncInv
  BY InitEstablishes
<1>2. service = "gq" => stage = "loop"
  BY DEF Init, Calls
<1> QED BY <1>1, <1>2 DEF SyncInv, DrawInv, ArrayInv

LEMMA ArrayStepPreserves == SyncInv /\ LogInv /\ ArrayInv /\ [Next]_vars => ArrayInv'
<1> SUFFICES ASSUME SyncInv, LogInv, ArrayInv, [Next]_vars, service' = "gq" PROVE ArrayInv'
  BY DEF ArrayInv
<1>1. ASSUME UNCHANGED <<call, service, done, rows>>, stage' # "returned" \/ UNCHANGED <<stage, fit>>
      PROVE  ArrayInv'
  BY <1>1, SameRowsSameArray DEF ArrayInv
<1>2. ASSUME ServiceStep, UNCHANGED <<done, rows>> PROVE ArrayInv'
  BY <1>1, <1>2 DEF ServiceStep, BeforeEnd
<1>3. CASE Log \/ Flush \/ PrintLine \/ NoMode \/ CtrlC \/ Idle \/ UNCHANGED vars
  BY <1>1, <1>3 DEF Log, Flush, PrintLine, NoMode, CtrlC, Idle, vars, svcVars
<1>4. CASE ReturnFit
  BY <1>4, SameRowsSameArray DEF ReturnFit, ArrayInv
<1>5. CASE StartLaplace
  BY <1>5 DEF StartLaplace
<1>6. CASE GqRow
  <2>1. SyncInv'
    BY StepPreserves
  <2>2. stage' = "loop"
    BY <1>6 DEF GqRow, To
  <2> QED BY <2>1, <2>2 DEF SyncInv, DrawInv, ArrayInv
<1>7. CASE \/ InitFails \/ BeginThrows \/ Interrupted \/ ModelThrows
           \/ LbfgsLastRowThrows \/ NewtonLastRowThrows \/ PathDrawThrows
  <2>1. ServiceStep
    BY <1>7, ExceptionStep DEF LogInv
  <2>2. service = "gq"
    BY <2>1 DEF ServiceStep
  <2> QED BY <1>2, <1>7, <2>1, <2>2, OnlyGqRowWrites
<1>8. CASE \/ RejectInitial \/ Begin
           \/ LbfgsStep \/ NewtonStep \/ LaplaceDraw \/ AdviDraw \/ PathStep \/ PathDraw
           \/ DiagnoseStep
  <2>1. ServiceStep
    BY <1>8, WorkStep DEF LogInv
  <2>2. service = "gq"
    BY <2>1 DEF ServiceStep
  <2> QED BY <1>2, <1>8, <2>1, <2>2, OnlyGqRowWrites
<1>9. CASE \/ LbfgsEnds \/ NewtonEnds \/ AllDrawn \/ PathFails \/ PathFallsBack \/ PathEnds
           \/ DiagnoseEnds \/ GqRejects \/ GqEnds
  <2>1. ServiceStep
    BY <1>9, EndStep DEF LogInv
  <2>2. service = "gq"
    BY <2>1 DEF ServiceStep
  <2> QED BY <1>2, <1>9, <2>1, <2>2, OnlyGqRowWrites
<1> QED BY <1>3, <1>4, <1>5, <1>6, <1>7, <1>8, <1>9, Zenon DEF Next

LEMMA ArrayInvariant == Spec => []ArrayInv
BY ArrayInitEstablishes, ArrayStepPreserves, SyncInvariant, LogInvariant, PTL DEF Spec
-----------------------------------------------------------------------------
(* The places of an array, which are numbers with two digits.              *)

\* A number made of a digit below p and one below q has these two digits, ...
LEMMA Compose ==
  ASSUME NEW p \in Nat \ {0}, NEW q \in Nat, NEW a \in 0..p - 1, NEW b \in 0..q - 1
  PROVE  /\ a + p * b \in 0..p * q - 1
         /\ (a + p * b) % p = a
         /\ (a + p * b) \div p = b
<1>1. p * b \in Nat /\ p * b + p <= p * q
  <2>1. p * (b + 1) <= p * q
    BY SMT
  <2>2. p * (b + 1) = p * b + p
    BY SMT
  <2> QED BY <2>1, <2>2, SMT
<1>2. a + p * b \in 0..p * q - 1
  BY <1>1
<1>3. (a + p * b) \div p = b
  BY SMTT(30)
<1>4. (a + p * b) % p = a
  BY SMTT(30)
<1> QED BY <1>2, <1>3, <1>4

\* ... and every number below p * q is made of two such digits.
LEMMA Digits ==
  ASSUME NEW p \in Nat \ {0}, NEW q \in Nat, NEW y \in 0..p * q - 1
  PROVE  /\ y % p \in 0..p - 1 /\ y \div p \in 0..q - 1
         /\ y = (y % p) + p * (y \div p)
<1>1. y \in Nat
  OBVIOUS
<1>2. y % p \in 0..p - 1 /\ y \div p \in Nat /\ y = (y % p) + p * (y \div p)
  BY <1>1, SMTT(30)
<1>3. y \div p < q
  BY <1>2, SMTT(30)
<1> QED BY <1>2, <1>3

\* Position y of a variable's cells holds the value of this row.
RowAt(y) == (y % call.shape.nchains) * n_iters + (y \div call.shape.nchains) + 1

\* What is copied to position y of variable v.
LEMMA CopiedAt ==
  ASSUME CallInv, n_iters \in Nat,
         NEW y \in 0..n_iters * call.shape.nchains - 1, NEW v \in 0..call.shape.n_cols - 1
  PROVE  Copied[y + n_iters * call.shape.nchains * v] = [draw |-> rows[RowAt(y)], var |-> v]
<1> DEFINE size == n_iters * call.shape.nchains
           Cells == (0..call.shape.nchains - 1) \X (0..n_iters - 1)
           x == y + size * v
<1>1. /\ call.shape.nchains \in Nat \ {0} /\ call.shape.n_cols \in Nat
      /\ size \in Nat \ {0}
  <2>1. call.shape \in Fits
    BY DEF CallInv, Calls
  <2>2. call.shape.nchains \in Nat \ {0} /\ call.shape.n_cols \in Nat
    BY <2>1, SyncAssumption
  <2>3. size \in Nat /\ 0 <= y /\ y <= size - 1
    BY <2>2
  <2> QED BY <2>2, <2>3
<1>2. x \in 0..size * call.shape.n_cols - 1 /\ x % size = y /\ x \div size = v
  <2>1. PICK p, q : p = size /\ q = call.shape.n_cols
    OBVIOUS
  <2>2. p \in Nat \ {0} /\ q \in Nat /\ y \in 0..p - 1 /\ v \in 0..q - 1
    BY <1>1, <2>1
  <2>3. y + p * v \in 0..p * q - 1 /\ (y + p * v) % p = y /\ (y + p * v) \div p = v
    BY <2>2, Compose
  <2> QED BY <2>1, <2>3
<1>3. x \in 0..RSize(n_iters, call.shape.nchains, call.shape.n_cols) - 1
  BY <1>2 DEF RSize
<1>4. PICK cell : cell = <<y % call.shape.nchains, y \div call.shape.nchains>>
  OBVIOUS
<1>5. /\ cell \in Cells /\ Place(cell[1], cell[2]) = y
  <2>1. y \in 0..call.shape.nchains * n_iters - 1
    BY <1>1, SMTT(30)
  <2>2. /\ y % call.shape.nchains \in 0..call.shape.nchains - 1
        /\ y \div call.shape.nchains \in 0..n_iters - 1
        /\ y = (y % call.shape.nchains) + call.shape.nchains * (y \div call.shape.nchains)
    BY <1>1, <2>1, Digits
  <2> QED BY <1>1, <1>4, <2>2 DEF Place
<1>6. ASSUME NEW k \in Cells, Place(k[1], k[2]) = y PROVE k = cell
  <2>1. k[1] \in 0..call.shape.nchains - 1 /\ k[2] \in 0..n_iters - 1 /\ k = <<k[1], k[2]>>
    OBVIOUS
  <2>2. y = k[1] + call.shape.nchains * k[2]
    BY <1>1, <1>6, <2>1 DEF Place
  <2>3. y % call.shape.nchains = k[1] /\ y \div call.shape.nchains = k[2]
    <3>1. PICK p, a, b : p = call.shape.nchains /\ a = k[1] /\ b = k[2]
      OBVIOUS
    <3>2. p \in Nat \ {0} /\ a \in 0..p - 1 /\ b \in 0..n_iters - 1
      BY <1>1, <2>1, <3>1
    <3>3. (a + p * b) % p = a /\ (a + p * b) \div p = b
      BY <3>2, Compose
    <3> QED BY <2>2, <3>1, <3>3
  <2> QED BY <1>4, <2>1, <2>3
<1>7. (CHOOSE k \in Cells : Place(k[1], k[2]) = x % size) = cell
  BY <1>2, <1>5, <1>6
<1>8. Copied[x] = Source(cell[1], cell[2], v)
  BY <1>2, <1>3, <1>5, <1>7 DEF Copied
<1>9. Source(cell[1], cell[2], v) = [draw |-> rows[RowAt(y)], var |-> v]
  BY <1>4 DEF Source, RowAt
<1> QED BY <1>8, <1>9

\* An element of the array is the row of its position.
LEMMA ElementAt ==
  ASSUME CallInv, n_iters \in Nat,
         fit = RArray(n_iters, call.shape.nchains, call.shape.n_cols, Copied),
         NEW i \in 0..n_iters - 1, NEW c \in 0..call.shape.nchains - 1, NEW v \in 0..call.shape.n_cols - 1
  PROVE  /\ i + n_iters * c \in 0..n_iters * call.shape.nchains - 1
         /\ RElement(fit, i, c, v) = [draw |-> rows[RowAt(i + n_iters * c)], var |-> v]
<1>1. /\ call.shape.nchains \in Nat \ {0} /\ n_iters \in Nat \ {0}
  BY Sizes
<1>2. i + n_iters * c \in 0..n_iters * call.shape.nchains - 1
  BY <1>1, Compose
<1>3. i + n_iters * (c + call.shape.nchains * v) = (i + n_iters * c) + n_iters * call.shape.nchains * v
  BY <1>1
<1>4. RElement(fit, i, c, v) = Copied[i + n_iters * (c + call.shape.nchains * v)]
  BY DEF RElement, RArray
<1> QED BY <1>2, <1>3, <1>4, CopiedAt

\* No two rows of $generate_quantities() are alike.
LEMMA RowsDiffer ==
  ASSUME CallInv, rows = [k \in 1..done |-> DrawOfRow(k - 1)],
         NEW r \in 1..done, NEW q \in 1..done, rows[r] = rows[q]
  PROVE  r = q
<1>1. /\ call.shape.iterations \in Nat \ {0} /\ done \in Nat
  BY Sizes DEF CallInv
<1>2. DrawOfRow(r - 1) = DrawOfRow(q - 1)
  OBVIOUS
<1>3. /\ (r - 1) % call.shape.iterations = (q - 1) % call.shape.iterations
      /\ (r - 1) \div call.shape.iterations = (q - 1) \div call.shape.iterations
  BY <1>2 DEF DrawOfRow
<1>4. PICK p, y, z : p = call.shape.iterations /\ y = r - 1 /\ z = q - 1
  OBVIOUS
<1>5. p \in Nat \ {0} /\ y \in Nat /\ z \in Nat
  BY <1>1, <1>4
<1>6. y = (y % p) + p * (y \div p) /\ z = (z % p) + p * (z \div p)
  BY <1>5, SMTT(30)
<1>7. y % p = z % p /\ y \div p = z \div p
  BY <1>3, <1>4
<1>8. y = z
  BY <1>6, <1>7, Zenon
<1> QED BY <1>1, <1>4, <1>8
-----------------------------------------------------------------------------
\* Whichever service takes the Ctrl-C, and wherever it is, the call does not end
\* as if there had been none (run_*.hpp and the services' handling of the
\* exception), unless $laplace() was told to save its $optimize().
THEOREM CtrlCTheorem == Spec => []CtrlCIsNoticed
<1>1. SyncInv => CtrlCIsNoticed
  BY DEF SyncInv, NoticeInv, CtrlCIsNoticed, Ended, AfterService
<1> QED BY <1>1, SyncInvariant, PTL

\* For any number of iterations and any fit, a return code of OK of a service other
\* than Pathfinder comes with the solution in the last row, with every draw of
\* $laplace() or $variational(), or with every input row.
THEOREM OkTheorem == Spec => []OkMeansComplete
<1>1. SyncInv => OkMeansComplete
  <2> SUFFICES ASSUME SyncInv, stage = "returned", return_code = "OK", service # "path" PROVE Asked
    BY DEF OkMeansComplete
  <2>1. Ok /\ service \in Methods /\ Iterations \in Nat /\ InputRows \in Nat /\ rows \in Seq(RowSet)
    BY Sizes DEF Ok, AfterService, SyncInv, CallInv
  <2>2. service # "gq" => fit = Payload
    BY DEF SyncInv, FitInv
  <2>3. CASE service \in {"lbfgs", "newton"}
    <3>1. EndsWith(rows, done)
      BY <2>1, <2>3 DEF SyncInv, SearchInv
    <3>2. fit = rows \/ fit = <<rows[Len(rows)]>>
      BY <2>2, <2>3, <3>1 DEF Payload, EndsWith
    <3>3. PICK x : x = rows[Len(rows)]
      OBVIOUS
    <3>4. <<x>> # <<>> /\ <<x>>[Len(<<x>>)] = x
      OBVIOUS
    <3>5. fit # <<>> /\ fit[Len(fit)] = done
      BY <3>1, <3>2, <3>3, <3>4 DEF EndsWith
    <3> QED BY <2>3, <3>5 DEF Asked
  <2>4. CASE service \in {"laplace", "advi"}
    <3>1. fit = rows
      BY <2>2, <2>4 DEF Payload
    <3> QED BY <2>1, <2>4, <3>1 DEF Asked, Drawn, SyncInv, DrawInv, Numbers
  <2>5. CASE service = "diagnose"
    BY <2>1, <2>5 DEF Asked, SyncInv, SearchInv
  <2>6. CASE service = "gq"
    <3>1. rows = [k \in 1..InputRows |-> DrawOfRow(k - 1)]
      BY <2>1, <2>6 DEF SyncInv, DrawInv
    <3>2. n_rows = InputRows /\ \A k \in 1..InputRows : rows[k] = DrawOfRow(k - 1)
      BY <2>1, <3>1 DEF n_rows
    <3>3. ASSUME NEW x \in 0..InputRows - 1 PROVE \E q \in 1..n_rows : rows[q] = DrawOfRow(x)
      <4>1. x + 1 \in 1..InputRows /\ (x + 1) - 1 = x
        BY <2>1
      <4> QED BY <3>2, <4>1
    <3> QED BY <2>6, <3>3 DEF Asked
  <2> QED BY <2>1, <2>3, <2>4, <2>5, <2>6 DEF Methods
<1> QED BY <1>1, SyncInvariant, PTL

\* The state of a call and of its logger keep their types, for any service,
\* number of iterations and fit.
THEOREM TypeCorrect == Spec => []TypeOK
<1>1. SyncInv /\ LogInv => TypeOK
  <2> SUFFICES ASSUME SyncInv, LogInv PROVE TypeOK
    OBVIOUS
  <2>1. call \in Calls /\ done \in Nat /\ service \in Methods
    BY Sizes DEF SyncInv, CallInv
  <2>2. lines \in Seq(Message)
    BY PlainLines DEF LogInv, LinesInv
  <2> QED BY <2>1, <2>2 DEF LogInv, LinesInv, ReturnCodes, TypeOK
<1> QED BY <1>1, SyncInvariant, LogInvariant, PTL

\* A call that fails says so: what the service logged has been flushed unless an
\* exception went past the flush, which $generate_quantities() and the draws of
\* $laplace() never let happen, and a failing code comes with an error on the
\* console, whatever is switched off (run_*.hpp and r_logger.hpp: push(), flush()).
\* And when Pathfinder ends with OK but without the draws asked for, its output
\* ends with a warning.
THEOREM ExplainedTheorem == Spec => []FailureIsExplained
<1>1. SyncInv /\ LogInv /\ WarnedInv => FailureIsExplained
  <2> SUFFICES ASSUME SyncInv, LogInv, WarnedInv, Ended PROVE FailureIsExplained
    BY DEF FailureIsExplained
  <2>1. stage = "thrown" => service \notin {"laplace", "gq"}
    BY DEF LogInv, ExplainedInv
  <2>2. CASE stage \in {"returned", "stopped"}
    <3>1. Len(buffer_) = 0 /\ Len(entries) = 0 /\ Len(lines) = 0
      BY <2>2 DEF LogInv, FlushInv
    <3>2. history_ \in Seq(Message) /\ pushed \in Seq(Message)
      BY DEF LogInv, LogTypeOK
    <3>3. Len(pushed) = Len(history_) /\ \A i \in 1..Len(history_) : history_[i] = pushed[i]
      BY <3>1, <3>2 DEF LogInv, OutputAccounted
    <3>4. history_ = pushed
      BY <3>2, <3>3, SeqEqual
    <3>5. stage = "returned" /\ return_code \in Failures => \E k \in printed : Severe(history_[k])
      BY <3>1 DEF LogInv, ExplainedInv, ErrorUnderWay
    <3>6. ASSUME stage = "returned", return_code = "OK", service = "path"
          PROVE  fit = Drawn \/ EndsWarned(history_)
      <4>1. fit = rows
        BY <3>6 DEF SyncInv, FitInv, Payload
      <4>2. lines = <<>> /\ pushed \o <<>> = pushed
        BY <2>2, <3>2 DEF LogInv, FlushInv
      <4>3. rows = Numbers(Iterations) \/ EndsWarned(pushed)
        BY <3>6, <4>2 DEF WarnedInv, Ok, AfterService
      <4> QED BY <3>4, <4>1, <4>3 DEF Numbers, Drawn
    <3> QED BY <2>1, <3>4, <3>5, <3>6 DEF FailureIsExplained, Failures
  <2>3. CASE stage = "thrown"
    BY <2>1, <2>3 DEF FailureIsExplained
  <2> QED BY <2>2, <2>3 DEF Ended
<1> QED BY <1>1, SyncInvariant, LogInvariant, WarnedInvariant, PTL

\* For any fit, each row $generate_quantities() wrote is in the array once for each
\* quantity, at any number of iterations and chains, as long as the rows fill the
\* chains evenly (run_standalone_gqs.hpp: the reshaping loop).
THEOREM NoDrawLostTheorem == Spec => []NoDrawLost
<1>1. SyncInv /\ ArrayInv => NoDrawLost
  <2> SUFFICES ASSUME SyncInv, ArrayInv, HasArray, n_rows % call.shape.nchains = 0,
                      NEW r \in 1..n_rows, NEW v \in 0..call.shape.n_cols - 1
               PROVE  Cardinality({k \in Indices :
                        RElement(fit, k[1], k[2], k[3]) = [draw |-> rows[r], var |-> v]}) = 1
    BY DEF NoDrawLost
  <2> DEFINE Found == {k \in Indices : RElement(fit, k[1], k[2], k[3]) = [draw |-> rows[r], var |-> v]}
  <2>1. /\ CallInv /\ rows = [k \in 1..done |-> DrawOfRow(k - 1)]
        /\ fit = RArray(n_iters, call.shape.nchains, call.shape.n_cols, Copied)
    BY DEF SyncInv, ArrayInv, HasArray
  <2>2. done \in Nat /\ n_rows = done
    BY <2>1 DEF CallInv, n_rows
  <2>3. PICK N, I : N = call.shape.nchains /\ I = n_iters
    OBVIOUS
  <2>4. N \in Nat \ {0} /\ I \in Nat \ {0} /\ n_rows = I * N /\ r - 1 \in 0..I * N - 1
    <3>1. N \in Nat \ {0} /\ I = n_rows \div N /\ n_rows % N = 0
      BY <2>1, <2>3, Sizes DEF n_iters
    <3>2. I \in Nat /\ n_rows = (n_rows % N) + N * (n_rows \div N)
      BY <2>2, <3>1, SMTT(30)
    <3>3. n_rows = I * N
      BY <3>1, <3>2, SMTT(30)
    <3>4. I # 0
      BY <3>1, <3>3
    <3> QED BY <2>2, <3>1, <3>2, <3>3, <3>4
  \* Row r is at position y, and there alone.
  <2>5. PICK y : y = ((r - 1) \div I) + N * ((r - 1) % I)
    OBVIOUS
  <2>6. y \in 0..I * N - 1 /\ RowAt(y) = r
    <3>1. PICK a, b, x : a = x \div I /\ b = x % I /\ x = r - 1
      OBVIOUS
    <3>2. a \in 0..N - 1 /\ b \in 0..I - 1 /\ x = b + I * a
      <4>1. x \in 0..I * N - 1
        BY <2>4, <3>1
      <4>2. x % I \in 0..I - 1 /\ x \div I \in 0..N - 1 /\ x = (x % I) + I * (x \div I)
        BY <2>4, <4>1, Digits
      <4> QED BY <3>1, <4>2, Zenon
    <3>3. a + N * b \in 0..N * I - 1 /\ (a + N * b) % N = a /\ (a + N * b) \div N = b
      BY <2>4, <3>2, Compose
    <3>4. N * I = I * N /\ y = a + N * b
      BY <2>4, <2>5, <3>1, <3>2
    <3>5. y % N = a /\ y \div N = b
      BY <3>3, <3>4
    <3>6. RowAt(y) = a * I + b + 1
      BY <2>3, <3>5 DEF RowAt
    <3>7. a * I + b + 1 = (b + I * a) + 1
      BY <2>4, <3>2
    <3> QED BY <2>4, <3>1, <3>2, <3>3, <3>4, <3>6, <3>7
  <2>7. ASSUME NEW z \in 0..I * N - 1, rows[RowAt(z)] = rows[r] PROVE z = y
    <3>1. PICK a, b : a = z % N /\ b = z \div N
      OBVIOUS
    <3>2. z \in 0..N * I - 1
      BY <2>4, SMT
    <3>3. a \in 0..N - 1 /\ b \in 0..I - 1 /\ z = a + N * b
      BY <2>4, <3>1, <3>2, Digits
    <3>4. b + I * a \in 0..I * N - 1 /\ (b + I * a) % I = b /\ (b + I * a) \div I = a
      BY <2>4, <3>3, Compose
    <3>5. RowAt(z) = (b + I * a) + 1
      BY <2>3, <2>4, <3>1, <3>3 DEF RowAt
    <3>6. RowAt(z) \in 1..done /\ r \in 1..done
      BY <2>2, <2>4, <3>4, <3>5
    <3>7. RowAt(z) = r
      BY <2>1, <2>7, <3>6, RowsDiffer
    <3>8. r - 1 = b + I * a
      BY <2>4, <3>3, <3>4, <3>5, <3>7
    <3> QED BY <2>5, <3>3, <3>4, <3>8
  \* The position is that of one iteration and chain.
  <2>8. PICK cell : cell = <<y % I, y \div I, v>>
    OBVIOUS
  <2>9. y % I \in 0..I - 1 /\ y \div I \in 0..N - 1 /\ y = (y % I) + I * (y \div I)
    BY <2>4, <2>6, Digits
  <2>10. ASSUME NEW i \in 0..I - 1, NEW c \in 0..N - 1, NEW w \in 0..call.shape.n_cols - 1
         PROVE  /\ i + I * c \in 0..I * N - 1
                /\ RElement(fit, i, c, w) = [draw |-> rows[RowAt(i + I * c)], var |-> w]
    <3>1. n_iters \in Nat /\ i \in 0..n_iters - 1 /\ c \in 0..call.shape.nchains - 1
      BY <2>3, <2>4
    <3>2. /\ i + n_iters * c \in 0..n_iters * call.shape.nchains - 1
          /\ RElement(fit, i, c, w) = [draw |-> rows[RowAt(i + n_iters * c)], var |-> w]
      BY <2>1, <3>1, ElementAt
    <3> QED BY <2>3, <3>2
  <2>11. cell \in Found
    <3>1. RElement(fit, y % I, y \div I, v) = [draw |-> rows[RowAt(y)], var |-> v]
      BY <2>9, <2>10
    <3> QED BY <2>3, <2>6, <2>8, <2>9, <3>1 DEF Indices
  <2>12. ASSUME NEW k \in Found PROVE k = cell
    <3>1. PICK i \in 0..I - 1, c \in 0..N - 1, w \in 0..call.shape.n_cols - 1 : k = <<i, c, w>>
      BY <2>3 DEF Indices
    <3>2. RElement(fit, i, c, w) = [draw |-> rows[r], var |-> v]
      BY <3>1
    <3>3. i + I * c \in 0..I * N - 1 /\ w = v /\ rows[RowAt(i + I * c)] = rows[r]
      BY <2>10, <3>2
    <3>4. i + I * c = y
      BY <2>7, <3>3
    <3>5. (i + I * c) % I = i /\ (i + I * c) \div I = c
      BY <2>4, Compose
    <3> QED BY <2>8, <3>1, <3>3, <3>4, <3>5
  <2>13. Found = {cell}
    BY <2>11, <2>12
  <2> QED BY <2>13, FS_Singleton
<1> QED BY <1>1, SyncInvariant, ArrayInvariant, PTL
=============================================================================
