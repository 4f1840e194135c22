---------------------------- MODULE SampleChains ----------------------------
(***************************************************************************)
(* The draws of $sample(), from the iterations of the chains to the arrays *)
(* R gets: one r_sample_writer per chain, filled by the chain's own thread *)
(* (run_sampling.hpp, run_walnuts.hpp, r_output.hpp), and                  *)
(* writer_chains_to_arrays() (stack_writer_chains.hpp), which runs on the  *)
(* R thread once the worker has returned.                                  *)
(*                                                                         *)
(* A draw is tagged with its chain, its phase and its iteration, and the   *)
(* value of a column is the tag with the column's name, so that the arrays *)
(* can be read back.  A chain may fail to find a step size (it then writes *)
(* nothing and returns normally) or throw; which chains do is left open.   *)
(***************************************************************************)
EXTENDS DrawsLayout

CONSTANTS
  NumChains,         \* num_chains
  WarmupSizes,       \* the num_warmup to consider
  SampleSizes,       \* the num_samples to consider
  Thins,             \* the num_thin to consider
  ColNames,          \* the columns of a draw, in the model's order
  DiagnosticNames    \* diagnostic_names

\* Chains and columns are counted from 0, as in the code.
Chains  == 0..NumChains - 1
Columns == 0..Len(ColNames) - 1

ASSUME SampleAssumption ==
  /\ NumChains \in Nat \ {0}
  /\ WarmupSizes \subseteq Nat
  /\ SampleSizes \subseteq Nat
  /\ Thins \subseteq Nat \ {0}
  /\ Len(ColNames) \in Nat \ {0}

VARIABLES
  config,       \* the arguments of the call
  phase,        \* what each chain is doing
  m,            \* iterations each chain has completed in its phase
  writer,       \* sample_writers
  has_metric,   \* metric_writers[i].has_metric()
  pc,           \* the R thread: "wait", "check", "copy" or "finished"
  copied,       \* chains copied by writer_chains_to_arrays()
  arrays,       \* the arrays it fills, or none
  outcome       \* how the call ended

chainVars == <<phase, m, writer, has_metric>>
callVars  == <<pc, copied, arrays, outcome>>
vars      == <<config, chainVars, callVars>>
-----------------------------------------------------------------------------
(* The call: "adapt" is NUTS with adaptation, "fixed_step" without, and     *)
(* "fixed_param" runs no warmup.  The last two name the writers of all     *)
(* chains before any of them runs.                                         *)

Engines == {"adapt", "fixed_step", "fixed_param", "walnuts"}
NamesUpFront == config.engine \in {"fixed_param", "walnuts"}

Config ==
  [engine : Engines, num_warmup : WarmupSizes, num_samples : SampleSizes,
   num_thin : Thins, save_warmup : BOOLEAN]

Saved(iterations) == SavedRows(config.num_thin, iterations)

warmup_rows   == IF config.save_warmup THEN Saved(config.num_warmup) ELSE 0
expected_rows == Saved(config.num_samples) + warmup_rows

-----------------------------------------------------------------------------
(* r_sample_writer: colnames_ are there or not, values_ is its rows so far *)
(* and the number of rows it has room for.                                 *)

NewWriter == [named |-> FALSE, rows |-> <<>>, room |-> 0, released |-> FALSE]

Named(w) == [w EXCEPT !.named = TRUE,
                      !.room = IF expected_rows > 0 THEN expected_rows ELSE @]

NRows(w) == Len(w.rows)
NCols(w) == IF w.named THEN Len(ColNames) ELSE 0

\* append_row(): grow by half, or to 100 rows more than there are.
Grown(room, n_rows) ==
  LET half == (3 * room + 1) \div 2
  IN  IF half > n_rows + 100 THEN half ELSE n_rows + 100

AppendRow(w, row) ==
  [w EXCEPT !.rows = Append(@, row),
            !.room = IF NRows(w) >= @ THEN Grown(@, NRows(w)) ELSE @]

\* release(): the buffer is freed.
Release(w) == [w EXCEPT !.released = TRUE]

\* values_.col(v)[r]
ValueAt(w, v, r) == IF w.released THEN Junk ELSE <<w.rows[r + 1], ColNames[v + 1]>>

Init ==
  /\ config \in Config
  /\ config.engine = "fixed_param" => ~config.save_warmup
  /\ phase = [c \in Chains |-> "start"]
  /\ m = [c \in Chains |-> 0]
  /\ writer = [c \in Chains |-> IF NamesUpFront THEN Named(NewWriter) ELSE NewWriter]
  /\ has_metric = [c \in Chains |-> FALSE]
  /\ pc = "wait"
  /\ copied = 0
  /\ arrays = <<>>
  /\ outcome = "running"
-----------------------------------------------------------------------------
(* The chains.  generate_transitions() and run_walnuts() call the interrupt *)
(* and the model in every iteration: either may throw.                     *)

Ended == {"done", "threw", "skipped"}

\* run_sampling() refuses to adapt without warmup before any chain begins.
Refused == config.engine = "adapt" /\ config.num_warmup = 0

StartChain(c) ==
  /\ phase[c] = "start"
  /\ ~Refused
  /\ phase' = [phase EXCEPT ![c] = IF config.engine = "fixed_param" THEN "sampling"
                                   ELSE "warmup"]
  /\ writer' = IF NamesUpFront THEN writer ELSE [writer EXCEPT ![c] = Named(@)]
  /\ UNCHANGED <<config, m, has_metric, callVars>>

\* run_adaptive_sampler() returns before it has written the names.
StepsizeFails(c) ==
  /\ phase[c] = "start"
  /\ ~Refused
  /\ config.engine = "adapt"
  /\ phase' = [phase EXCEPT ![c] = "done"]
  /\ UNCHANGED <<config, m, writer, has_metric, callVars>>

SkipChain(c) ==
  /\ phase[c] = "start"
  /\ \E d \in Chains : phase[d] = "threw"
  /\ phase' = [phase EXCEPT ![c] = "skipped"]
  /\ UNCHANGED <<config, m, writer, has_metric, callVars>>

\* (m % num_thin) == 0
Keep(c) == m[c] % config.num_thin = 0

Row(c) == [chain |-> c, phase |-> phase[c], iter |-> m[c]]

\* Iteration m[c] of the phase; it is kept if saving and thinning keep it.
Iterate(c, saving) ==
  /\ m' = [m EXCEPT ![c] = @ + 1]
  /\ writer' = IF saving /\ Keep(c) THEN [writer EXCEPT ![c] = AppendRow(@, Row(c))]
               ELSE writer
  /\ UNCHANGED <<config, phase, has_metric, callVars>>

WarmupIteration(c) ==
  /\ phase[c] = "warmup"
  /\ m[c] < config.num_warmup
  /\ Iterate(c, config.save_warmup)

\* Fault: the iterations of the second phase go on where the first ended.
FaultyEndWarmup(c) ==
  /\ phase[c] = "warmup"
  /\ m[c] = config.num_warmup
  /\ phase' = [phase EXCEPT ![c] = "sampling"]
  /\ has_metric' = [has_metric EXCEPT ![c] = config.engine = "adapt"]
  /\ UNCHANGED <<config, m, writer, callVars>>

\* Adaptation is over: write_sampler_state_struct() stores the metric.
EndWarmup(c) ==
  /\ phase[c] = "warmup"
  /\ m[c] = config.num_warmup
  /\ phase' = [phase EXCEPT ![c] = "sampling"]
  /\ m' = [m EXCEPT ![c] = 0]
  /\ has_metric' = [has_metric EXCEPT ![c] = config.engine = "adapt"]
  /\ UNCHANGED <<config, writer, callVars>>

SampleIteration(c) ==
  /\ phase[c] = "sampling"
  /\ m[c] < config.num_samples
  /\ Iterate(c, TRUE)

EndChain(c) ==
  /\ phase[c] = "sampling"
  /\ m[c] = config.num_samples
  /\ phase' = [phase EXCEPT ![c] = "done"]
  /\ UNCHANGED <<config, m, writer, has_metric, callVars>>

Throw(c) ==
  /\ \/ phase[c] = "warmup" /\ m[c] < config.num_warmup
     \/ phase[c] = "sampling" /\ m[c] < config.num_samples
  /\ phase' = [phase EXCEPT ![c] = "threw"]
  /\ UNCHANGED <<config, m, writer, has_metric, callVars>>
-----------------------------------------------------------------------------
(* The R thread, after run_on_worker_thread().                             *)

\* The arguments were refused, or parallel_for rethrew: no arrays for Stan's
\* services, an error for walnuts.
WorkerFails ==
  /\ pc = "wait"
  /\ \/ Refused
     \/ /\ \A c \in Chains : phase[c] \in Ended
        /\ \E c \in Chains : phase[c] = "threw"
  /\ pc' = "finished"
  /\ outcome' = IF config.engine = "walnuts" THEN "error" ELSE "no draws"
  /\ UNCHANGED <<config, chainVars, copied, arrays>>

WorkerReturns ==
  /\ pc = "wait"
  /\ ~Refused
  /\ \A c \in Chains : phase[c] = "done"
  /\ pc' = "check"
  /\ UNCHANGED <<config, chainVars, copied, arrays, outcome>>

n_iterations == NRows(writer[0])
n_warmup     == IF warmup_rows < n_iterations THEN warmup_rows ELSE n_iterations
n_post       == n_iterations - n_warmup

IsDiagnostic(v) == ColNames[v + 1] \in DiagnosticNames
all_cols   == 0..NCols(writer[0]) - 1
diag_cols  == Ascending({v \in all_cols : IsDiagnostic(v)})
param_cols == Ascending({v \in all_cols : ~IsDiagnostic(v)})

Blank(iterations, variables) ==
  RArray(iterations, NumChains, variables,
         [x \in 0..RSize(iterations, NumChains, variables) - 1 |-> Junk])

\* Fault: only the numbers of rows are compared.
FaultySameDimensions == \A c \in Chains : NRows(writer[c]) = NRows(writer[0])

SameDimensions ==
  \A c \in Chains : /\ NRows(writer[c]) = NRows(writer[0])
                    /\ NCols(writer[c]) = NCols(writer[0])

\* The chains must have the same dimensions; then the arrays are made.
CheckDimensions ==
  /\ pc = "check"
  /\ IF SameDimensions
     THEN /\ pc' = "copy"
          /\ arrays' = [samples     |-> Blank(n_post, Len(param_cols)),
                        diagnostics |-> Blank(n_post, Len(diag_cols)),
                        warmup_samples     |-> Blank(n_warmup, Len(param_cols)),
                        warmup_diagnostics |-> Blank(n_warmup, Len(diag_cols))]
          /\ UNCHANGED outcome
     ELSE pc' = "finished" /\ outcome' = "error" /\ UNCHANGED arrays
  /\ UNCHANGED <<config, chainVars, copied>>

\* Fault: the variables of a chain are kept together.
FaultyColumnIndex(cols, g, c) == c * Len(cols) + g

\* idx: where the column of variable g and chain c is in the Eigen map of an
\* array (its columns have as many rows as the array has iterations).
ColumnIndex(cols, g, c) == g * NumChains + c

\* array_map.col(idx) = rows first, first + 1, ... of the chain's column.
Filled(array, cols, c, first) ==
  LET n == array.dim[1]
      Column(g) == ColumnIndex(cols, g, c)
  IN  [array EXCEPT !.data =
        [x \in DOMAIN @ |->
          IF \E g \in 0..Len(cols) - 1 : Column(g) = x \div n
          THEN LET g == CHOOSE g \in 0..Len(cols) - 1 : Column(g) = x \div n
               IN  ValueAt(writer[c], cols[g + 1], first + (x % n))
          ELSE @[x]]]

\* One round of the copying loop; the chain's buffer is then released.
CopyChain ==
  /\ pc = "copy"
  /\ copied < NumChains
  /\ n_iterations > 0
  /\ arrays' = [samples     |-> Filled(arrays.samples, param_cols, copied, n_warmup),
                diagnostics |-> Filled(arrays.diagnostics, diag_cols, copied, n_warmup),
                warmup_samples     |-> Filled(arrays.warmup_samples, param_cols, copied, 0),
                warmup_diagnostics |-> Filled(arrays.warmup_diagnostics, diag_cols, copied, 0)]
  /\ writer' = [writer EXCEPT ![copied] = Release(@)]
  /\ copied' = copied + 1
  /\ UNCHANGED <<config, phase, m, has_metric, pc, outcome>>

ReturnArrays ==
  /\ pc = "copy"
  /\ copied = NumChains \/ n_iterations = 0
  /\ pc' = "finished"
  /\ outcome' = "draws"
  /\ UNCHANGED <<config, chainVars, copied, arrays>>

Finished == pc = "finished" /\ UNCHANGED vars
-----------------------------------------------------------------------------
Chain(c) ==
  \/ StartChain(c) \/ StepsizeFails(c) \/ SkipChain(c)
  \/ WarmupIteration(c) \/ EndWarmup(c) \/ SampleIteration(c) \/ EndChain(c)
  \/ Throw(c)

RThread == WorkerFails \/ WorkerReturns \/ CheckDimensions \/ CopyChain \/ ReturnArrays

Next == (\E c \in Chains : Chain(c)) \/ RThread \/ Finished

Spec == Init /\ [][Next]_vars
-----------------------------------------------------------------------------
TypeOK ==
  /\ config \in Config
  /\ phase \in [Chains -> {"start", "warmup", "sampling"} \cup Ended]
  /\ m \in [Chains -> Nat]
  /\ \A c \in Chains : /\ phase[c] = "warmup" => m[c] <= config.num_warmup
                       /\ phase[c] = "sampling" => m[c] <= config.num_samples
  /\ \A c \in Chains : writer[c].room \in Nat /\ writer[c].named \in BOOLEAN
  /\ has_metric \in [Chains -> BOOLEAN]
  /\ pc \in {"wait", "check", "copy", "finished"}
  /\ copied \in 0..NumChains
  /\ outcome \in {"running", "draws", "no draws", "error"}

\* The buffer made for expected_rows is exactly what the chain fills: it is
\* never grown while sampling, and a finished chain leaves no row unused.
PreallocationExact ==
  \A c \in Chains : writer[c].named =>
    /\ writer[c].room = expected_rows
    /\ phase[c] = "done" => NRows(writer[c]) = expected_rows

\* Element [i, c, v] of an array is variable v of the i-th kept iteration of
\* that phase of chain c, for every element.
Holds(array, ph, iterations, cols) ==
  LET kept == KeptIterations(config.num_thin, iterations)
  IN  /\ array.dim = <<Len(kept), NumChains, Len(cols)>>
      /\ \A i \in 0..Len(kept) - 1, c \in Chains, v \in 0..Len(cols) - 1 :
           RElement(array, i, c, v) =
             <<[chain |-> c, phase |-> ph, iter |-> kept[i + 1]], ColNames[cols[v + 1] + 1]>>

\* The arrays R receives hold the draws of every chain, warmup and sampling
\* apart, thinned, at the indices at which R will look for them - or, when
\* no chain found a step size, nothing at all.
ArraysHoldTheDraws ==
  outcome = "draws" =>
    \/ \A c \in Chains : ~writer[c].named
    \/ LET warmups == IF config.save_warmup THEN config.num_warmup ELSE 0
       IN  /\ Holds(arrays.samples, "sampling", config.num_samples, param_cols)
           /\ Holds(arrays.diagnostics, "sampling", config.num_samples, diag_cols)
           /\ Holds(arrays.warmup_samples, "warmup", warmups, param_cols)
           /\ Holds(arrays.warmup_diagnostics, "warmup", warmups, diag_cols)

\* When some chains found no step size and others did, the call is an error: a
\* chain without draws never passes for one with; and where R gets the metric of
\* one chain it gets that of every chain.
LostChainIsAnError ==
  pc = "finished" =>
    /\ (\A c \in Chains : phase[c] = "done") /\ (\E c, d \in Chains : writer[c].named /\ ~writer[d].named)
         => outcome = "error"
    /\ outcome = "draws" /\ (\E c \in Chains : has_metric[c]) => \A c \in Chains : has_metric[c]
=============================================================================
