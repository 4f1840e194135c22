------------------------------ MODULE RunWorker ------------------------------
(***************************************************************************)
(* One call of run_on_worker_thread (inst/include/stanr/r_worker.hpp): the *)
(* R thread waits in 50 ms slices for a std::async worker, flushes the     *)
(* logger and polls for Ctrl-C between slices; the worker runs the chains  *)
(* of a sampling service on TBB threads, each of which logs and reads the  *)
(* cancellation flag at the top of every iteration.                        *)
(*                                                                         *)
(* There are two kinds of sampling service: "hmc" stands for Stan's own,   *)
(* which initialize the chains one after another on the worker and turn    *)
(* every exception into a logged message and a return code; "walnuts"      *)
(* (run_walnuts.hpp) initializes before the worker starts and lets         *)
(* exceptions escape to the future.                                        *)
(***************************************************************************)
EXTENDS RLogger, FiniteSets

CONSTANTS
  NumChains,    \* num_chains
  NumThreads,   \* num_threads: chains TBB runs at the same time
  Services,     \* the services to consider, a subset of {"hmc", "walnuts"}
  MaxBlocks     \* bound: log blocks a chain writes besides its final error

Chains == 1..NumChains

ASSUME RunAssumption ==
  /\ NumChains \in Nat \ {0}
  /\ NumThreads \in Nat \ {0}
  /\ Services \subseteq {"hmc", "walnuts"}
  /\ MaxBlocks \in Nat
  /\ Writers = Chains

VARIABLES
  service,            \* engine of this call
  r_pc,               \* where the R thread is
  sigint,             \* R has a user interrupt pending
  interrupted,        \* the R thread's local flag
  cancel_requested,   \* the atomic the chains read
  result,             \* how the call ended
  worker,             \* what the worker thread is doing
  return_code,        \* what the future holds once ready
  phase,              \* where each chain is
  emit,               \* next line of the log block a chain is writing
  blocks              \* log blocks each chain has written (for the bound)

rVars     == <<r_pc, sigint, interrupted, cancel_requested, result>>
chainVars == <<service, worker, return_code, phase, emit, blocks>>
vars      == <<rVars, chainVars, logVars>>
-----------------------------------------------------------------------------
Phases == {"new", "init_failed", "pending", "stepsize", "step_failed",
           "check", "transition", "done", "threw", "skipped"}
Active == {"stepsize", "step_failed", "check", "transition"}
Ended  == {"done", "threw", "skipped"}

Emissions == {"idle", "header", "body", "blank", "reject1", "reject2",
              "reject3", "progress", "error"}

TypeOK ==
  /\ LogTypeOK
  /\ service \in Services
  /\ r_pc \in {"wait", "swap", "print", "poll", "last_swap", "last_print",
               "get", "finished"}
  /\ sigint \in BOOLEAN
  /\ interrupted \in BOOLEAN
  /\ cancel_requested \in BOOLEAN
  /\ result \in {"none", "value", "interrupted", "error"}
  /\ worker \in {"init", "parallel", "ready"}
  /\ return_code \in {"none", "OK", "CONFIG", "SOFTWARE", "exception"}
  /\ phase \in [Chains -> Phases]
  /\ emit \in [Chains -> Emissions]
  /\ blocks \in [Chains -> 0..MaxBlocks]

Init ==
  /\ LogInit
  /\ service \in Services
  /\ r_pc = "wait"
  /\ sigint = FALSE
  /\ interrupted = FALSE
  /\ cancel_requested = FALSE
  /\ result = "none"
  /\ worker = IF service = "hmc" THEN "init" ELSE "parallel"
  /\ return_code = "none"
  /\ phase = [c \in Chains |-> IF service = "hmc" THEN "new" ELSE "pending"]
  /\ emit = [c \in Chains |-> "idle"]
  /\ blocks = [c \in Chains |-> 0]
-----------------------------------------------------------------------------
(* Logging by a chain: a block is pushed one line at a time.  "error" is a  *)
(* genuine error; the lines a service writes for one stand as one line.    *)

MessageOf(c, e) ==
  [src   |-> c,
   lv    |-> IF e \in {"header", "body", "blank", "error"} THEN "error"
             ELSE IF e = "progress" THEN "info" ELSE "warn",
   text  |-> IF e = "header" THEN "informational"
             ELSE IF e = "blank" THEN "empty"
             ELSE IF e = "reject1" THEN "rejecting" ELSE "other",
   block |-> IF e \in {"header", "body", "blank"} THEN "metropolis"
             ELSE IF e \in {"reject1", "reject2", "reject3"} THEN "init"
             ELSE "none"]

\* The line after e.  walnuts writes no body line of its own: its header
\* carries e.what() and the blank line follows at once.
Following(e) ==
  CASE e = "header"  -> IF service = "hmc" THEN "body" ELSE "blank"
    [] e = "body"    -> "blank"
    [] e = "reject1" -> "reject2"
    [] e = "reject2" -> "reject3"
    [] OTHER         -> "idle"

Emit(c) ==
  /\ emit[c] # "idle"
  /\ Push(MessageOf(c, emit[c]))
  /\ emit' = [emit EXCEPT ![c] = Following(emit[c])]
  /\ UNCHANGED <<rVars, service, worker, return_code, phase, blocks>>

\* Chain c, between two blocks, begins the block whose first line is e.
BeginBlock(c, e) ==
  /\ emit[c] = "idle"
  /\ blocks[c] < MaxBlocks
  /\ emit' = [emit EXCEPT ![c] = e]
  /\ blocks' = [blocks EXCEPT ![c] = @ + 1]
  /\ UNCHANGED <<rVars, service, worker, return_code, phase, logVars>>

\* write_error_msg_() or on_logp_exception(): a rejected proposal.
RejectProposal(c) == phase[c] \in {"stepsize", "transition"} /\ BeginBlock(c, "header")

\* "Iteration: ..." lines.
LogProgress(c) ==
  service = "hmc" /\ phase[c] = "transition" /\ BeginBlock(c, "progress")
-----------------------------------------------------------------------------
(* The worker thread of Stan's services: initialization, chain by chain.   *)

Initializing(c) ==
  /\ worker = "init"
  /\ phase[c] = "new"
  /\ \A d \in Chains : d < c => phase[d] = "pending"

RejectInit(c) == Initializing(c) /\ BeginBlock(c, "reject1")

InitChain(c) ==
  /\ Initializing(c)
  /\ emit[c] = "idle"
  /\ phase' = [phase EXCEPT ![c] = "pending"]
  /\ worker' = IF c = NumChains THEN "parallel" ELSE "init"
  /\ UNCHANGED <<rVars, service, return_code, emit, blocks, logVars>>

\* initialize() gave up; the service logs the exception and returns CONFIG.
InitFails(c) ==
  /\ Initializing(c)
  /\ emit[c] = "idle"
  /\ phase' = [phase EXCEPT ![c] = "init_failed"]
  /\ emit' = [emit EXCEPT ![c] = "error"]
  /\ UNCHANGED <<rVars, service, worker, return_code, blocks, logVars>>

InitFailReturns(c) ==
  /\ worker = "init"
  /\ phase[c] = "init_failed"
  /\ emit[c] = "idle"
  /\ worker' = "ready"
  /\ return_code' = "CONFIG"
  /\ UNCHANGED <<rVars, service, phase, emit, blocks, logVars>>
-----------------------------------------------------------------------------
(* The chains, as tasks of tbb::parallel_for.                              *)

Move(c, from, to) ==
  /\ worker = "parallel"
  /\ phase[c] = from
  /\ emit[c] = "idle"
  /\ phase' = [phase EXCEPT ![c] = to]
  /\ UNCHANGED <<rVars, service, worker, return_code, blocks, logVars>>

Quiet == UNCHANGED emit

\* Adaptive samplers first search for a step size.
StartChain(c) ==
  /\ Cardinality({d \in Chains : phase[d] \in Active}) < NumThreads
  /\ \E to \in IF service = "hmc" THEN {"stepsize", "check"} ELSE {"check"} :
       Move(c, "pending", to)
  /\ Quiet

\* An exception of one task cancels the group: tasks not begun may be skipped.
SkipChain(c) ==
  /\ \E d \in Chains : phase[d] = "threw"
  /\ Move(c, "pending", "skipped")
  /\ Quiet

StepsizeFound(c) == Move(c, "stepsize", "check") /\ Quiet

\* run_adaptive_sampler() catches the failure, logs it and returns normally.
StepsizeFails(c) ==
  /\ Move(c, "stepsize", "step_failed")
  /\ emit' = [emit EXCEPT ![c] = "error"]

StepsizeFailReturns(c) == Move(c, "step_failed", "done") /\ Quiet

\* Fault: the flag is not read.
FaultyCheckInterrupt(c) == Move(c, "check", "transition") /\ Quiet

\* The interrupt callback at the top of an iteration.
CheckInterrupt(c) ==
  /\ Move(c, "check", IF cancel_requested THEN "threw" ELSE "transition")
  /\ Quiet

\* How many iterations a chain runs is left open: after any of them it may
\* go on or be finished.
EndIteration(c) ==
  /\ \E to \in {"check", "done"} : Move(c, "transition", to)
  /\ Quiet

ModelThrows(c) == Move(c, "transition", "threw") /\ Quiet

AllEnded == \A c \in Chains : phase[c] \in Ended

Join ==
  /\ worker = "parallel"
  /\ AllEnded
  /\ \A c \in Chains : phase[c] = "done"
  /\ worker' = "ready"
  /\ return_code' = "OK"
  /\ UNCHANGED <<rVars, service, phase, emit, blocks, logVars>>

\* Fault: the exception is rethrown without waiting for the other tasks.
FaultyJoinEarly ==
  /\ worker = "parallel"
  /\ \E c \in Chains : phase[c] = "threw"
  /\ worker' = "ready"
  /\ return_code' = "exception"
  /\ UNCHANGED <<rVars, service, phase, emit, blocks, logVars>>

\* Fault: the exception is caught and dropped.
FaultyJoinSwallows ==
  /\ worker = "parallel"
  /\ AllEnded
  /\ \E c \in Chains : phase[c] = "threw"
  /\ worker' = "ready"
  /\ return_code' = "OK"
  /\ UNCHANGED <<rVars, service, phase, emit, blocks, logVars>>

\* parallel_for rethrows the exception of one task.  Stan's services catch
\* it and log what(); walnuts lets it reach the future.
JoinThrew ==
  /\ worker = "parallel"
  /\ AllEnded
  /\ \E c \in Chains :
       /\ phase[c] = "threw"
       /\ IF service = "hmc" THEN Push(MessageOf(c, "error"))
                             ELSE UNCHANGED logVars
  /\ worker' = "ready"
  /\ return_code' = IF service = "hmc" THEN "SOFTWARE" ELSE "exception"
  /\ UNCHANGED <<rVars, service, phase, emit, blocks>>
-----------------------------------------------------------------------------
(* The R thread: the wait loop and what follows it.                        *)

TimedOut ==
  /\ r_pc = "wait"
  /\ worker # "ready"
  /\ r_pc' = "swap"
  /\ UNCHANGED <<sigint, interrupted, cancel_requested, result, chainVars, logVars>>

\* Fault: no flush after the loop.
FaultyFutureReady ==
  /\ r_pc = "wait"
  /\ worker = "ready"
  /\ r_pc' = "get"
  /\ UNCHANGED <<sigint, interrupted, cancel_requested, result, chainVars, logVars>>

FutureReady ==
  /\ r_pc = "wait"
  /\ worker = "ready"
  /\ r_pc' = "last_swap"
  /\ UNCHANGED <<sigint, interrupted, cancel_requested, result, chainVars, logVars>>

BeginFlush ==
  /\ r_pc \in {"swap", "last_swap"}
  /\ SwapBuffer
  /\ r_pc' = IF r_pc = "swap" THEN "print" ELSE "last_print"
  /\ UNCHANGED <<sigint, interrupted, cancel_requested, result, chainVars>>

FlushEntry ==
  /\ r_pc \in {"print", "last_print"}
  /\ PrintEntry
  /\ UNCHANGED <<rVars, chainVars>>

EndFlush ==
  /\ r_pc \in {"print", "last_print"}
  /\ entries = <<>>
  /\ r_pc' = IF r_pc = "print" THEN "poll" ELSE "get"
  /\ UNCHANGED <<sigint, interrupted, cancel_requested, result, chainVars, logVars>>

\* if (!interrupted && user_interrupt_pending()): polling consumes the signal.
PollInterrupt ==
  /\ r_pc = "poll"
  /\ r_pc' = "wait"
  /\ IF ~interrupted /\ sigint
     THEN /\ sigint' = FALSE
          /\ interrupted' = TRUE
          /\ cancel_requested' = TRUE
     ELSE UNCHANGED <<sigint, interrupted, cancel_requested>>
  /\ UNCHANGED <<result, chainVars, logVars>>

\* Fault: the flag is not looked at after get().
FaultyGetResult ==
  /\ r_pc = "get"
  /\ r_pc' = "finished"
  /\ result' = IF return_code = "exception" THEN "error" ELSE "value"
  /\ UNCHANGED <<sigint, interrupted, cancel_requested, chainVars, logVars>>

\* worker.get(): rethrow, stop because of Ctrl-C, or return the code.
GetResult ==
  /\ r_pc = "get"
  /\ r_pc' = "finished"
  /\ result' = CASE return_code = "exception" -> "error"
                 [] return_code # "exception" /\ interrupted -> "interrupted"
                 [] OTHER -> "value"
  /\ UNCHANGED <<sigint, interrupted, cancel_requested, chainVars, logVars>>

\* The user presses Ctrl-C.
CtrlC ==
  /\ r_pc # "finished"
  /\ ~sigint
  /\ sigint' = TRUE
  /\ UNCHANGED <<r_pc, interrupted, cancel_requested, result, chainVars, logVars>>

\* The call is over: nothing more happens.
Finished == r_pc = "finished" /\ UNCHANGED vars
-----------------------------------------------------------------------------
WorkerInit(c) == RejectInit(c) \/ InitChain(c) \/ InitFails(c) \/ InitFailReturns(c)

ChainTask(c) ==
  \/ StartChain(c) \/ SkipChain(c)
  \/ StepsizeFound(c) \/ StepsizeFails(c) \/ StepsizeFailReturns(c)
  \/ CheckInterrupt(c) \/ EndIteration(c) \/ ModelThrows(c)
  \/ RejectProposal(c) \/ LogProgress(c)

WorkerStep == Join \/ JoinThrew

RThread == \/ TimedOut \/ FutureReady
           \/ BeginFlush \/ FlushEntry \/ EndFlush
           \/ PollInterrupt \/ GetResult

Next ==
  \/ \E c \in Chains : Emit(c) \/ WorkerInit(c) \/ ChainTask(c)
  \/ WorkerStep
  \/ RThread
  \/ CtrlC
  \/ Finished

(* The threads are scheduled fairly; nobody has to press Ctrl-C, and       *)
(* nothing forces a chain to be finished with its iterations.              *)
Fairness ==
  /\ WF_vars(RThread)
  /\ WF_vars(WorkerStep)
  /\ \A c \in Chains : WF_vars(Emit(c) \/ WorkerInit(c) \/ ChainTask(c))

Spec == Init /\ [][Next]_vars /\ Fairness
-----------------------------------------------------------------------------
(* Safety.                                                                 *)

\* When run_on_worker_thread() returns or stops, no chain is running, so
\* nothing touches the logger, the writers or the flag, which live on its
\* caller's stack and its own.
NoChainOutlivesCall ==
  r_pc = "finished" =>
    /\ worker = "ready"
    /\ \A c \in Chains : phase[c] \notin Active /\ emit[c] = "idle"

\* A call that returns code OK was not interrupted and every one of its
\* chains ran to its end: no chain threw, was skipped or was left behind.
OkMeansEveryChainFinished ==
  result = "value" /\ return_code = "OK" =>
    ~cancel_requested /\ \A c \in Chains : phase[c] = "done"

\* Is chain c between the header and the closing blank line of a block?
InBlock(c) == emit[c] \in {"body", "blank"}

\* However the chains' lines interleave, metropolis_pending_ is the number
\* of chains inside a block: it never leaks, so once the blocks are closed
\* an error is an error again (r_logger.hpp: push(), "may nest").
MetropolisCountsOpenBlocks ==
  metropolis_pending_ = Cardinality({c \in Chains : InBlock(c)})

\* With show_exceptions = FALSE no line of a Metropolis rejection and no
\* rejected initial value reaches the console, though chains interleave
\* (man-roxygen/param-show_exceptions.R: "Set to FALSE to silence them").
ChatterSilenced ==
  ~ShowExceptions => \A i \in printed : history_[i].block = "none"

\* "Genuine errors are never suppressed" (r_logger.hpp:20), as far as the
\* code can tell: an error logged while no chain is inside a block - what a
\* service says when a chain has failed, say - is not taken for chatter,
\* whatever blocks came before it and however they interleaved.
LoneErrorShown ==
  pushed' # pushed =>
    LET e == buffer_'[Len(buffer_')] IN
    Severe(e.msg) /\ e.msg.block = "none" /\ (\A c \in Chains : ~InBlock(c))
      => ~e.exception

LoneErrorsShown == [][LoneErrorShown]_vars
-----------------------------------------------------------------------------
(* What the call promises, and liveness.                                   *)

Call == INSTANCE RunCall WITH
          sent      <- pushed,
          delivered <- history_,
          cancelled <- interrupted,
          outcome   <- IF result = "none" THEN "running" ELSE result

\* The threads, the buffer and the future implement RunCall: messages arrive
\* in order and all of them before the call ends, an interrupt the R thread
\* has taken is never answered with a value (even if the worker returned OK),
\* and lines reach R while the chains run.
CallPromise == Call!Spec

\* The same without the promise of timely delivery.
CallSafety == Call!Safety

\* Pressing Ctrl-C ends the call although no chain ever has to finish its
\* iterations: the flag reaches every chain and the R thread gets its future.
CtrlCEndsCall == sigint ~> r_pc = "finished"
=============================================================================
