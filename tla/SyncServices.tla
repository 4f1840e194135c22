---------------------------- MODULE SyncServices ----------------------------
(***************************************************************************)
(* The services that run on the R thread: $optimize(), $laplace(),         *)
(* $variational(), $pathfinder() with one path, $diagnose() and            *)
(* $generate_quantities() (inst/include/stanr/run_*.hpp and the services   *)
(* of Stan they call).  Their interrupt callback asks R for a pending      *)
(* Ctrl-C and throws (cpp11::check_user_interrupt(), whose                 *)
(* unwind_exception is a std::exception), so whether Ctrl-C ends the call  *)
(* depends on what the service makes of an exception.  The logger is       *)
(* flushed once, after the service has returned.                           *)
(*                                                                         *)
(* $laplace() without a mode calls $optimize() first and centres its draws *)
(* at what that returns.  A row of output is the number of the iteration   *)
(* or draw it was written for.                                             *)
(***************************************************************************)
EXTENDS RLogger, DrawsLayout, FiniteSets

CONSTANTS
  Thread,         \* the R thread
  Iterations,     \* the iterations or draws asked for
  ElboDraws,      \* the draws Pathfinder has from choosing its approximation
  MaxRejects,     \* bound: initial values that are rejected before one is taken
  Fits            \* the fits for $generate_quantities(), [iterations, nchains, n_cols]

ASSUME SyncAssumption ==
  /\ {Iterations, ElboDraws, MaxRejects} \subseteq Nat
  /\ Fits # {} /\ Fits \subseteq [iterations : Nat \ {0}, nchains : Nat \ {0}, n_cols : Nat]
  /\ Thread \in Writers

VARIABLES
  call,           \* the method, whether it saves iterations, the fit it is for
  service,        \* the service that runs
  stage,          \* where it is
  done,           \* iterations or draws so far
  rows,           \* the rows of sample_writer
  lines,          \* what it is about to log
  return_code,
  sigint,         \* R has a user interrupt pending
  taken,          \* one was taken in this call (not in the code)
  mode,           \* the row of $optimize() that $laplace() starts from
  fit             \* what R makes a fit object of

svcVars == <<service, stage, done, rows, lines, return_code>>
vars == <<call, svcVars, sigint, taken, mode, fit, logVars>>

Methods == {"lbfgs", "newton", "laplace", "advi", "path", "diagnose", "gq"}

Calls == {c \in [method : Methods, save : BOOLEAN, shape : Fits] :
            /\ c.save => c.method \in {"lbfgs", "newton", "laplace"}
            /\ c.method # "gq" => c.shape = CHOOSE s \in Fits : TRUE}

\* $laplace() runs lbfgs first; neither its own service nor gq initializes.
Init ==
  /\ call \in Calls
  /\ service = IF call.method = "laplace" THEN "lbfgs" ELSE call.method
  /\ stage = IF call.method = "gq" THEN "loop" ELSE "init"
  /\ done = 0 /\ rows = <<>> /\ lines = <<>> /\ return_code = "none"
  /\ sigint = FALSE /\ taken = FALSE
  /\ mode = "none" /\ fit = <<>>
  /\ LogInit
-----------------------------------------------------------------------------
(* What a service does.                                                    *)

Line(lv, text, block) == [src |-> Thread, lv |-> lv, text |-> text, block |-> block]
Info == Line("info", "other", "none")
Warn == Line("warn", "other", "none")
Err  == Line("error", "other", "none")

At(name, where) == service = name /\ stage = where /\ lines = <<>>

To(where, count, output, code, said) ==
  /\ stage' = where /\ done' = count /\ rows' = output
  /\ return_code' = code /\ lines' = said
  /\ UNCHANGED <<call, service, mode, fit, logVars>>

Stay == UNCHANGED <<sigint, taken>>

\* The lines logged before an exception, and the code it ends in: "escapes" if
\* the service does not catch it.
Raise(said, code) ==
  IF code = "escapes" THEN To("thrown", done, rows, "none", said)
  ELSE To("flush", done, rows, code, Append(said, Err))

\* What each service makes of an exception of initialize(), of the model and of
\* the interrupt callback.
LbfgsCodes    == [init |-> "CONFIG",   model |-> "SOFTWARE", interrupt |-> "SOFTWARE"]
NewtonCodes   == [init |-> "CONFIG",   model |-> "escapes",  interrupt |-> "escapes"]
AdviCodes     == [init |-> "CONFIG",   model |-> "SOFTWARE", interrupt |-> "never asked"]
PathCodes     == [init |-> "SOFTWARE", model |-> "SOFTWARE", interrupt |-> "escapes"]
DiagnoseCodes == [init |-> "escapes",  model |-> "escapes",  interrupt |-> "escapes"]
GqCodes       == [init |-> "none",     model |-> "SOFTWARE", interrupt |-> "SOFTWARE"]

\* Fault: only the exceptions of the model are caught.
FaultyLaplaceCodes == [init |-> "none", model |-> "CONFIG", interrupt |-> "escapes"]
LaplaceCodes  == [init |-> "none",     model |-> "CONFIG",   interrupt |-> "CONFIG"]

Codes ==
  CASE service = "lbfgs"    -> LbfgsCodes
    [] service = "newton"   -> NewtonCodes
    [] service = "laplace"  -> LaplaceCodes
    [] service = "advi"     -> AdviCodes
    [] service = "path"     -> PathCodes
    [] service = "diagnose" -> DiagnoseCodes
    [] service = "gq"       -> GqCodes

\* Each action logs at most one block, which is pushed before anything else.
Log ==
  /\ lines # <<>>
  /\ Push(Head(lines))
  /\ lines' = Tail(lines)
  /\ UNCHANGED <<call, service, stage, done, rows, return_code, sigint, taken, mode, fit>>

\* initialize(): rejected values, ...
RejectInitial ==
  /\ At(service, "init") /\ done < MaxRejects
  /\ To("init", done + 1, rows, "none",
        <<Line("warn", "rejecting", "init"), Line("warn", "other", "init"), Line("warn", "other", "init")>>)
  /\ Stay

\* ... no value left or an error of the model, ...
InitFails ==
  /\ At(service, "init")
  /\ Raise(<<Err, Err>>, Codes.init)
  /\ Stay

\* ... or a value to start from; lbfgs saves it before it starts.
Begin ==
  /\ At(service, "init")
  /\ To("loop", 0, IF service = "lbfgs" /\ call.save THEN <<0>> ELSE <<>>, "none",
        IF service = "advi" THEN <<>> ELSE <<Info>>)
  /\ Stay

\* The first density, with saved iterations the first row, or for advi a number of
\* samples that is 0: throws where nothing catches it.
BeginThrows ==
  /\ At(service, "init") /\ service \in {"lbfgs", "newton", "advi", "path", "diagnose"}
  /\ Raise(<<Info>>, "escapes")
  /\ Stay

\* Row r of posterior::as_draws_matrix(): the chains one after another.
DrawOfRow(r) == [iter |-> r % call.shape.iterations, chain |-> r \div call.shape.iterations]
InputRows == call.shape.iterations * call.shape.nchains

\* The loop has another iteration; laplace looks for Ctrl-C before its loop too.
Working ==
  /\ At(service, "loop")
  /\ CASE service \in {"newton", "diagnose"} -> done < Iterations
       [] service = "laplace" -> done < Iterations \/ done = 0
       [] service = "advi"    -> done <= Iterations
       [] service = "gq"      -> done < InputRows
       [] OTHER               -> TRUE

\* Fault: for lbfgs, an interrupt is one more way to be done.
FaultyInterrupted ==
  /\ Working /\ service # "advi"
  /\ sigint
  /\ sigint' = FALSE /\ taken' = TRUE
  /\ IF service = "lbfgs" THEN To("converged", done, rows, "none", <<>>)
     ELSE Raise(<<>>, Codes.interrupt)

\* The interrupt callback at the head of the loop.
Interrupted ==
  /\ Working /\ service # "advi"
  /\ sigint
  /\ sigint' = FALSE /\ taken' = TRUE
  /\ Raise(<<>>, Codes.interrupt)

Turn(name) == At(name, "loop") /\ (name = "advi" \/ ~sigint) /\ Stay

\* The density, its derivatives or the generated quantities throw.
ModelThrows ==
  /\ Turn(service) /\ Working
  /\ Raise(<<>>, Codes.model)

\* Fault: the iteration at which lbfgs stops is not saved.
FaultyLbfgsStep ==
  /\ Turn("lbfgs")
  /\ \E ret \in {"loop", "converged", "failed"} :
       /\ done + 1 >= Iterations => ret # "loop"
       /\ To(ret, done + 1, IF call.save /\ ret = "loop" THEN Append(rows, done + 1) ELSE rows, "none", <<Info>>)

\* lbfgs (bfgs is the same) stops after Iterations steps, but takes one if none
\* is asked for; the line search may fail.
LbfgsStep ==
  /\ Turn("lbfgs")
  /\ \E ret \in {"loop", "converged", "failed"} :
       /\ done + 1 >= Iterations => ret # "loop"
       /\ To(ret, done + 1, IF call.save THEN Append(rows, done + 1) ELSE rows, "none", <<Info>>)

LbfgsEnds ==
  /\ service = "lbfgs" /\ stage \in {"converged", "failed"} /\ lines = <<>>
  /\ To("flush", done, IF call.save THEN rows ELSE Append(rows, done),
        IF stage = "converged" THEN "OK" ELSE "SOFTWARE",
        IF stage = "converged" THEN <<Info, Info>> ELSE <<Err, Err>>)
  /\ Stay

\* write_array() for the last row throws.
LbfgsLastRowThrows ==
  /\ service = "lbfgs" /\ stage \in {"converged", "failed"} /\ lines = <<>>
  /\ ~call.save
  /\ Raise(<<>>, "SOFTWARE")
  /\ Stay

NewtonStep ==
  /\ Turn("newton") /\ done < Iterations
  /\ \E where \in {"loop", "converged"} :
       To(where, done + 1, IF call.save THEN Append(rows, done) ELSE rows, "none", <<Info>>)

\* write_array() for the last row throws.
NewtonLastRowThrows ==
  /\ service = "newton" /\ stage \in {"loop", "converged"} /\ lines = <<>>
  /\ stage = "loop" => done = Iterations
  /\ Raise(<<>>, "escapes")
  /\ Stay

\* The last row is written whether or not the iterations are saved.
NewtonEnds ==
  /\ service = "newton" /\ stage \in {"loop", "converged"} /\ lines = <<>>
  /\ stage = "loop" => done = Iterations
  /\ To("flush", done, Append(rows, done), "OK", <<>>)
  /\ Stay

LaplaceDraw ==
  /\ Turn("laplace") /\ done < Iterations
  /\ To("loop", done + 1, Append(rows, done + 1), "none", <<>>)

\* The mean, then the draws.
AdviDraw ==
  /\ Turn("advi") /\ done <= Iterations
  /\ To("loop", done + 1, Append(rows, done), "none", <<>>)

AllDrawn ==
  /\ service \in {"laplace", "advi"} /\ stage = "loop" /\ lines = <<>>
  /\ done = Iterations + (IF service = "advi" THEN 1 ELSE 0)
  /\ To("flush", done, rows, "OK", IF service = "advi" THEN <<Info>> ELSE <<>>)
  /\ Stay

\* A step of Pathfinder's lbfgs; it stops after Iterations steps, but takes one if
\* none is asked for.
PathStep ==
  /\ Turn("path")
  /\ \/ done + 1 < Iterations /\ To("loop", done + 1, rows, "none", <<>>)
     \/ \E said \in {<<Info>>, <<Warn, Info>>} : To("drawing", 0, rows, "none", said)

\* No iteration gave an approximation to draw from.
PathFails ==
  /\ Turn("path")
  /\ To("flush", done, rows, "SOFTWARE", <<Err>>)

PathDraw ==
  /\ At("path", "drawing") /\ done < Iterations
  /\ To("drawing", done + 1, Append(rows, done + 1), "none", <<>>)
  /\ Stay

\* A domain_error at a draw: the draws that chose the approximation are written,
\* after what was written already.
PathFallsBack ==
  /\ At("path", "drawing") /\ done < Iterations /\ Iterations > ElboDraws
  /\ To("flush", done, rows \o [k \in 1..ElboDraws |-> k], "OK", <<Warn, Info>>)
  /\ Stay

\* Any other exception, or one while only those draws are written.
PathDrawThrows ==
  /\ At("path", "drawing") /\ done < Iterations
  /\ Raise(<<>>, "escapes")
  /\ Stay

PathEnds ==
  /\ At("path", "drawing") /\ done = Iterations
  /\ To("flush", done, rows, "OK", <<>>)
  /\ Stay

\* A parameter's finite difference, ...
DiagnoseStep ==
  /\ Turn("diagnose") /\ done < Iterations
  /\ To("loop", done + 1, rows, "none", <<>>)

\* ... and the table, whose errors are small or not.
DiagnoseEnds ==
  /\ At("diagnose", "loop") /\ done = Iterations
  /\ \E code \in {"OK", "FAILED"} : To("flush", done, rows, code, <<Info>>)
  /\ Stay

\* A domain_error of the model is logged and the row is written all the same.
GqRow ==
  /\ Turn("gq") /\ done < InputRows
  /\ To("loop", done + 1, Append(rows, DrawOfRow(done)), "none", <<>>)

\* unconstrain_array() rejects the draw, before the interrupt is looked for.
GqRejects ==
  /\ At("gq", "loop") /\ done < InputRows
  /\ To("flush", done, rows, "DATAERR", <<Err>>)
  /\ Stay

GqEnds ==
  /\ At("gq", "loop") /\ done = InputRows
  /\ To("flush", done, rows, "OK", <<>>)
  /\ Stay
-----------------------------------------------------------------------------
(* After the service.                                                      *)

Flush ==
  /\ stage = "flush" /\ lines = <<>>
  /\ SwapBuffer
  /\ stage' = "print"
  /\ UNCHANGED <<call, service, done, rows, lines, return_code, sigint, taken, mode, fit>>

PrintLine ==
  /\ stage = "print"
  /\ PrintEntry
  /\ UNCHANGED <<call, svcVars, sigint, taken, mode, fit>>

Served == stage = "print" /\ entries = <<>>
ForMode == service = "lbfgs" /\ call.method = "laplace"

\* "Reshape output into iterations x chains x variables array".
n_rows  == Len(rows)
n_iters == n_rows \div call.shape.nchains

\* src[c * n_iters + i]: the value of quantity v.
Source(c, i, v) == [draw |-> rows[c * n_iters + i + 1], var |-> v]

\* Fault: the stride is forgotten.
FaultyPlace(c, i) == i + c

\* dst[i * nchains + c]
Place(c, i) == i * call.shape.nchains + c

\* The data of the array: for each variable, for each chain and iteration.
Copied ==
  LET size == n_iters * call.shape.nchains
      Cells == (0..call.shape.nchains - 1) \X (0..n_iters - 1)
  IN  [x \in 0..RSize(n_iters, call.shape.nchains, call.shape.n_cols) - 1 |->
        IF \E k \in Cells : Place(k[1], k[2]) = x % size
        THEN LET k == CHOOSE k \in Cells : Place(k[1], k[2]) = x % size
             IN  Source(k[1], k[2], x \div size)
        ELSE Junk]

\* What payload_fn() takes of the rows: $variational() and $pathfinder() look at
\* the code, the others do not.
Payload ==
  CASE service \in {"advi", "path"} -> IF return_code = "OK" THEN rows ELSE <<>>
    [] service \in {"lbfgs", "newton"} ->
         IF call.save THEN rows ELSE IF rows = <<>> THEN <<>> ELSE <<rows[Len(rows)]>>
    [] OTHER -> rows

ReturnFit ==
  /\ Served /\ ~ForMode
  /\ stage' = "returned"
  /\ fit' = IF service = "gq" THEN RArray(n_iters, call.shape.nchains, call.shape.n_cols, Copied)
            ELSE Payload
  /\ UNCHANGED <<call, service, done, rows, lines, return_code, sigint, taken, mode, logVars>>

\* "mode must be a named numeric vector": $optimize() has no row.
NoMode ==
  /\ Served /\ ForMode
  /\ rows = <<>>
  /\ stage' = "stopped"
  /\ UNCHANGED <<call, service, done, rows, lines, return_code, sigint, taken, mode, fit, logVars>>

\* The last row of $optimize() is the mode, whatever its return code; the
\* service has a logger of its own.
StartLaplace ==
  /\ Served /\ ForMode
  /\ rows # <<>>
  /\ mode' = rows[Len(rows)]
  /\ service' = "laplace" /\ stage' = "loop"
  /\ done' = 0 /\ rows' = <<>> /\ return_code' = "none" /\ lines' = <<Info>>
  /\ buffer_' = <<>> /\ entries' = <<>> /\ history_' = <<>> /\ printed' = {} /\ pushed' = <<>>
  /\ metropolis_pending_' = 0 /\ init_pending_' = 0
  /\ UNCHANGED <<call, sigint, taken, fit>>

Ended == stage \in {"returned", "stopped", "thrown"} /\ lines = <<>>

CtrlC ==
  /\ ~sigint /\ stage \notin {"returned", "stopped", "thrown"}
  /\ ~taken
  /\ sigint' = TRUE
  /\ UNCHANGED <<call, svcVars, taken, mode, fit, logVars>>

Idle == Ended /\ UNCHANGED vars

Next ==
  \/ Log \/ RejectInitial \/ InitFails \/ Begin \/ BeginThrows \/ Interrupted \/ ModelThrows
  \/ LbfgsStep \/ LbfgsEnds \/ LbfgsLastRowThrows \/ NewtonStep \/ NewtonLastRowThrows \/ NewtonEnds
  \/ LaplaceDraw \/ AdviDraw \/ AllDrawn
  \/ PathStep \/ PathFails \/ PathDraw \/ PathFallsBack \/ PathDrawThrows \/ PathEnds
  \/ DiagnoseStep \/ DiagnoseEnds
  \/ GqRow \/ GqRejects \/ GqEnds
  \/ Flush \/ PrintLine \/ ReturnFit \/ NoMode \/ StartLaplace
  \/ CtrlC \/ Idle

Spec == Init /\ [][Next]_vars
-----------------------------------------------------------------------------
(* Properties.                                                             *)

TypeOK ==
  /\ LogTypeOK
  /\ call \in Calls /\ service \in Methods
  /\ stage \in {"init", "loop", "converged", "failed", "drawing", "flush", "print",
                "returned", "stopped", "thrown"}
  /\ done \in Nat
  /\ lines \in Seq(Message)
  /\ return_code \in {"none", "OK", "FAILED", "CONFIG", "DATAERR", "SOFTWARE"}
  /\ {sigint, taken} \subseteq BOOLEAN

\* What a call that fails says of it.  Everything the service logged has found its
\* way to the user unless an exception went past the flush, which never happens to
\* $generate_quantities() and to the draws of $laplace(); and a code that is not OK
\* comes with an error on the console, whatever is switched off, save that of
\* $diagnose(), which means that a gradient is wrong.  A code of OK of Pathfinder
\* may hide a failure: then R gets other draws than were asked for, too few or some
\* of them twice, and the only sign of it is the warning that ends $output().
Drawn == [k \in 1..Iterations |-> k]
EndsWarned(s) == Len(s) > 1 /\ s[Len(s) - 1] = Warn
FailureIsExplained ==
  Ended =>
    /\ history_ = pushed \/ (stage = "thrown" /\ service \notin {"laplace", "gq"})
    /\ stage = "returned" /\ return_code \in {"CONFIG", "DATAERR", "SOFTWARE"} =>
         \E k \in printed : Severe(history_[k])
    /\ stage = "returned" /\ return_code = "OK" /\ service = "path" =>
         fit = Drawn \/ EndsWarned(history_)

\* Ctrl-C never passes unnoticed: it ends the call with an error, or R gets a code
\* that is not OK.  But when $laplace() is told to save the iterations of its
\* $optimize(), the interrupted search leaves a row to take for the mode.
CtrlCIsNoticed ==
  (Ended /\ taken) => \/ stage # "returned" \/ return_code # "OK"
                      \/ (call.method = "laplace" /\ call.save)

\* A code of OK means that all that was asked for is there: the solution in
\* the last row, every draw of $laplace() and $variational(), a quantity for each
\* draw of the fit.  It means nothing of the kind for $pathfinder(), which is not
\* part of this (single.hpp:940-960: too few draws, or some of them twice); what is
\* known of its draws is in FailureIsExplained.
Asked ==
  CASE service \in {"lbfgs", "newton"} -> fit # <<>> /\ fit[Len(fit)] = done
    [] service = "laplace" -> fit = Drawn
    [] service = "advi"    -> fit = [k \in 1..(Iterations + 1) |-> k - 1]
    [] service = "gq"      -> \A r \in 0..InputRows - 1 : \E q \in 1..n_rows : rows[q] = DrawOfRow(r)
    [] OTHER               -> done = Iterations

OkMeansComplete ==
  stage = "returned" /\ return_code = "OK" /\ service # "path" => Asked

Indices == (0..n_iters - 1) \X (0..call.shape.nchains - 1) \X (0..call.shape.n_cols - 1)
HasArray == stage = "returned" /\ service = "gq"

\* Every row the service wrote is in the array once for each quantity,
\* whatever the shape: none is lost, repeated or left as junk, as long as
\* the rows fill the chains evenly.
NoDrawLost ==
  HasArray /\ n_rows % call.shape.nchains = 0 =>
    \A r \in 1..n_rows, v \in 0..call.shape.n_cols - 1 :
      Cardinality({k \in Indices :
        RElement(fit, k[1], k[2], k[3]) = [draw |-> rows[r], var |-> v]}) = 1

\* "Reshape output into iterations x chains x variables array"
\* (run_standalone_gqs.hpp:34): element [i, c, v] is quantity v of the draw
\* of iteration i and chain c.
DrawsKeepTheirPlace ==
  HasArray /\ return_code = "OK" =>
    \A k \in Indices :
      RElement(fit, k[1], k[2], k[3]) =
        [draw |-> [iter |-> k[1], chain |-> k[2]], var |-> k[3]]
=============================================================================
