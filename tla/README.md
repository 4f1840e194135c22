# A TLA+ model of stanr

stanr (the R package under `inst/`, `R/` and `src/`) compiles Stan programs from R and
runs Stan's algorithms on them. This directory holds TLA+ modules of the parts where
threads, processes, failures and index arithmetic meet, the TLC configurations that check
them on small instances, and TLAPS proofs of the most important invariants for every
number of chains, threads and sessions. Paths below are relative to the repository.

1. [Inventory](#1-inventory): what the system is made of
2. [Modules](#2-modules): which module models what
3. [Runs](#3-runs): what TLC checks, with which bounds and fairness
4. [Disagreements](#4-disagreements-between-code-and-documentation)
5. [Proofs](#5-proofs)
6. [Limits and plan](#6-limits-and-plan)

## 1. Inventory

| component | state | operations | interacts with | what makes it hard | correct if |
|---|---|---|---|---|---|
| Worker thread and wait loop (`inst/include/stanr/r_worker.hpp`, `r_interrupt.hpp`) | the future, the flags `interrupted` (R thread) and `cancel_requested` (atomic), R's pending interrupt | start, wait 50 ms, flush, poll, last flush, `get()` | logger (flush), chains (flag), R | two kinds of thread; Ctrl-C at any time; exceptions that travel through TBB and the future | no chain outlives the call; Ctrl-C ends it and is never answered with a value; OK means that every chain finished |
| Buffered logger (`r_logger.hpp`) | `buffer_`, `history_`, the counters `metropolis_pending_` and `init_pending_` | `push()` from any chain, `flush()` and `$output()` on the R thread | chains, wait loop | pushes between the swap and the printing; log blocks of several chains interleave | no line lost, repeated or moved; chatter silent, errors not |
| Sampling dispatch (`run_sampling.hpp`, `run_walnuts.hpp`, Stan's services) | per chain: phase, iteration | initialize, adapt, sample, join | worker, writers | one chain fails in one of four ways while the others run | a chain that failed never passes for one that sampled |
| Writers and stacking (`r_output.hpp`, `r_metric_writer.hpp`, `stack_writer_chains.hpp`) | rows and room of each chain's buffer, metric, arrays | names, append, grow, release, copy | sampling, R arrays | preallocation from thinning and warmup; column-major index arithmetic | element [i, c, v] is kept iteration i of chain c |
| Services of the R thread (`run_optimizing.hpp`, `run_laplace.hpp`, `run_advi.hpp`, `run_diagnose.hpp`, `run_standalone_gqs.hpp`, `run_pathfinder.hpp` with one path; `R/stanmodel-*.R`) | initial values, iteration or draw, rows of the writer, return code, R's pending interrupt, the fit made of it | initialize, iterate, draw, end or throw, flush once, make a fit | logger, R; `$laplace()` calls `$optimize()` | each service makes something else of an exception and of Ctrl-C; partial results; index arithmetic | a failure is explained; Ctrl-C never passes unnoticed; OK means all is there; the array of quantities holds each draw at its index |
| Compiled-model cache (`R/stan_model.R`) | library on disk, memo and request of each session | hash, memo, restore, translate, compile, write back | other sessions by the disk, `stanc()` | concurrent sessions, crashes, failed copies, a file read twice | a request is served what its hash says |
| Precompiled headers (`R/pch.R`, `inst/pch.mk`) | a directory per fingerprint, mtimes, each session's step | look, stage, build, touch, prune, compile, rebuild, fall back | other sessions by the disk, the compiler | pruning and rebuilding under other sessions; half-written files | a good model compiles; the cache stays small |
| Fit and model objects (`R/stanfit-zzz-base.R`, `R/stanmodel-zzz-base.R`, `R/stanfit-mcmc.R`) | the model's environments and generation; each fit's pointers and generation | compile, expose, new fit, native method, save, restore | compiled-model cache | stale and nil pointers, compiles that fail halfway through a repair | a method never uses a pointer of an old generation or a nil one; a restored fit answers |
| Pathfinder with several paths (`run_pathfinder.hpp`) | one writer per path | parallel paths on the worker, resampling | worker, logger | paths initialize in parallel; one path ends the range of others | as for sampling |
| R service path (`R/utilities.R`) | none | argument checks, one native call, a fit of its result | all services | a result with a code that is not OK is still a fit | |
| Data context (`src/r_data_context.cpp`, `tuple_declarations.hpp`) | `reserved_names_`, entries by name | check the names; add an atomic value, a data frame, a tuple | every service | arrays of tuples of arrays of tuples; two storage layouts; names that collide | each number where the generated code reads it; what is accepted is what was declared |
| Model methods (`src/model_methods.cpp`) | none | log density, gradient, (un)constrain | fit | numerics | |
| stanc and includes (`R/stanc.R`) | none | translate, resolve `#include` | compiled-model cache | recursion over files | each file once, cycles found |
| Exposed functions (`R/expose.R`) | none | generate wrappers, compile | both caches | text generation | |
| stanli backend (`src/stanli_model.cpp`, `src/stanli/runtime`) | columns of `write_array()`; per pool a free list and the memory of its executors | construct (probe up to three points), density, gradient, `write_array()` | samplers, model methods | threads share a pool; a call fails between any two steps; a probe fails halfway | no executor used by two threads; a call is answered for its own point; a row has the names of its values |
| Diagnostics and result classes (`R/diagnostics.R`, `R/stanfit-*.R`) | arrays | summaries, warnings | fit | | |
| Vendored code (`inst/include/stan`, `src/tbb`, `src/sundials`) | | | | third-party | modelled only where a component above calls it |

The path of a `$sample()` call through these parts: `stan_model()` hashes the program, looks
into its memo, then on disk, else it translates and compiles it with the flags of the
precompiled-header cache. `$sample()` makes the data context and starts
`run_on_worker_thread()`. The worker initializes the chains and runs them as TBB tasks that
write to their own writer and to the common logger; meanwhile the R thread wakes every
50 ms, prints what was logged and polls for Ctrl-C. When the future is ready it flushes once
more, takes the result, and stacks the writers of the chains into arrays.

## 2. Modules

| module | models | composed with |
|---|---|---|
| `RunCall` | what a call promises: messages in order and all of them before the end, no value after Ctrl-C | the abstract specification of `RunWorker` |
| `RLogger` | `stanr::r_logger`: operators `Push`, `SwapBuffer`, `PrintEntry` and their state | extended by `RunWorker` and `SyncServices` |
| `RunWorker` | `run_on_worker_thread()` and the chains of Stan's services or of walnuts | extends `RLogger`; `Call == INSTANCE RunCall` is its refinement mapping |
| `RunWorkerProofs` | theorems about `RunWorker` | extends it |
| `DrawsLayout` | R arrays in column-major order, `saved_rows()` | extended by the next two |
| `SampleChains` | the writers of the chains and `writer_chains_to_arrays()` | |
| `SampleChainsProofs` | theorems about `SampleChains` | extends it |
| `SyncServices` | the seven services that run on the R thread, from their initial values to the fit R makes | extends `RLogger` and `DrawsLayout` |
| `SyncServicesProofs` | theorems about `SyncServices` | extends it |
| `DataContext` | the constructor of `r_data_context`: flattening of lists to the entries Stan reads | extended by the next |
| `TupleValues` | which lists are values of the declared type, said of the list and its declaration alone, and the property that uses it | extended by the next and by `MCDataContext` |
| `DataContextProofs` | theorems about `DataContext` and `TupleValues` | extends the latter |
| `ModelCalls` | what a model promises the threads that evaluate it: each call is a function of its arguments | the abstract specification of `StanliModel` |
| `StanliModel` | `stanli_model_base`, `ExecutorPool`, the columns of `WaInterp` | `Isolated == INSTANCE ModelCalls` is its refinement mapping |
| `StanliModelProofs` | theorems about `StanliModel` | extends it |
| `BuildCache` | the compiled-model cache, several sessions | |
| `BuildCacheProofs` | theorems about `BuildCache` | extends it |
| `PchCache` | the precompiled-header cache, several sessions | |
| `PchCacheProofs` | theorems about `PchCache` | extends it |
| `FitHandle` | `$compile()`, `$expose_stan_functions()`, `ensure_native()` and the handles of a model and its fits | |
| `FitHandleProofs` | theorems about `FitHandle` | extends it |
| `MC...` | values for the constants and symmetry | extend the module of the same name (`MCDataContext`: `TupleValues`) |

Definitions keep the names of the source where they can. Each file says at its top which
code it is about, and `PROJECT.json` ("map") gives the lines of every definition. A
definition whose name begins with `Faulty` is not part of any specification: it is the
definition that follows it with a bug put in, and TLC finds a property of the run violated
when it takes the place of the original (`PROJECT.json`, "mutants").

**RLogger.** `push()` holds the mutex throughout and is one step. `flush()` holds it for the
swap only: `SwapBuffer`, then one `PrintEntry` per entry, between which chains push. A message
is a record of its source, its level and what `push()` looks at in its text (the two
prefixes, empty or other). Two things are not in the code: `pushed`, the messages in mutex
order, and `block` in a message, the block of chatter its writer was really in, which
`push()` has to guess from text and counters.

**RunWorker.** `r_pc` walks the wait loop: `wait` → `swap` → `print` → `poll` → `wait`, and, once the
future is ready, `last_swap` → `last_print` → `get` → `finished`. Each chain has a `phase` and the
next line `emit` of the log block it is writing; a block is pushed line by line, so blocks
interleave as they do under `parallel_for`. There are two services. `"hmc"`: Stan's own, which
initialize the chains one after another on the worker, and turn exceptions into a logged
message and a return code. `"walnuts"`: initializes on the R thread before the worker starts
(where the model begins) and lets an exception reach the future. How many iterations a chain
runs is left open, so a chain that never ends is among the behaviours. A thrown exception
cancels the TBB group: tasks not begun may be skipped, the others run to their own end, and
only then is the exception of one of them rethrown.

**SampleChains.** What `RunWorker` abstracts: which iterations become rows. A draw is its chain, phase
and iteration, and a value is a draw with a column name. `room` is the number of rows the
buffer was made for, so an inexact preallocation shows. `CopyChain` is one round of the copying
loop with the release of the chain's buffer; reading a released buffer gives `Junk`.

**SyncServices.** Optimizing (`lbfgs`, of which `bfgs` is a copy, and `newton`), `laplace`, `advi`, `path` (Pathfinder with one
path), `diagnose` and `gq`. They share a frame - initial values, a loop that looks for Ctrl-C, an end, one flush -
and differ in what they make of an exception: `LbfgsCodes` ... `GqCodes` say for an exception of `initialize()`, of the model
and of the interrupt callback which code it ends in or that it `"escapes"` to R. The callback throws
`unwind_exception`, which is a `std::exception`, so a service that catches those swallows Ctrl-C. A row is the number of the
iteration or draw it was written for, a row of `gq` the draw it was computed from. `ReturnFit` is `.stanr_run_service()` with the
`payload_fn` of the method; `StartLaplace` and `NoMode` are the end of the `$optimize()` that `$laplace()` calls for its mode.
`Log` pushes the lines of an action one by one, with the logger of `RLogger`.

**DataContext.** A value is atomic, a list or a data frame; a number is the path at which the user put it
and what the code asks of it - whole, not whole, or NA. One action adds one element of the list that is supplied. A list for a tuple is flattened in
steps: `flatten_recurse()` calls itself for each slot, so `pending` is the sequence of slots its loops have yet to visit, each with its
values in all elements of the enclosing arrays and the sizes of these. `AddTuple` is the outermost call, `FlattenTuple` one for a slot that is a tuple
or an array of tuples, `FlattenLeaf` the end of the recursion. `Unnest` is `tuple_array_shape()` and `enumerate_elements()`: one dimension
(`Deeper`) at a time, outermost index fastest (`Interleaved`). A dotted name is its base and its slots, where slot 0 stands for anything behind a dot that names no slot (`y.a`). The references do not
know any of this: `Route` follows the path of a single number through the declaration, with the sizes of the arrays it goes through,
to the place where Stan's storage of tuples has it (`InPlace`), and `Regular` in `TupleValues` looks
at one place of the declaration after another: a column is all the values there, of every element of the arrays around it, and is `Sound` when they
are lists of one length or payloads of one shape; its `Parts` are the columns one place further in.

**StanliModel.** The constructor's actions are the probes (`ProbeThrows`, `ProbeSucceeds`) and the two ways without an
interpreter. A thread's call goes through `acquire` (→ `clone`) → `load` → `run` → `release` → `return`; the steps end where another thread can
see a difference: the mutex of the free list, the clone made outside of it, the parameters, the sweep, the destructor of the lease. An
executor is its memory, the point last written into it; a sweep is one step since it touches nothing another thread
has. The values and adjoints of an executor are left out: a sweep runs every operation again and `gradient()` clears the adjoints first
(`executor.cpp:600-653`); that each kernel overwrites its output is assumed. `density()` turns an exception into minus infinity, `write_array()` lets it out; both end the lease.

**BuildCache.** One Stan file, several R sessions, one external C++ file that may be edited between any
two steps. A library is the hash compiled into it, what it was really compiled from, and
whether it was copied whole. The steps of a session are the accesses to shared files:
hashing, restoring, `stanc()`, copying, `unlink()`, `file.rename()`. Nothing locks; a session may die
between any two. After a crash the same session stands for a new one with an empty memo;
the temporary file of the dead one has a name nobody else uses.

**PchCache.** One directory per fingerprint, `newer` orders the PCHs by their mtimes. Each access to the disk
is a step. `compiler` is clang (temporary file and rename, fails without its PCH) or GCC
(writes in place, needs the staged header, falls back to it silently). `Compiler(s)` gives
the possible outcomes of a compile for the state of the disk at that moment.

**FitHandle.** A model and fits made with it. A handle (environment, pointer to the C++ model, pointer to
the RNG) is `NULL`, `NIL` (an external pointer that went through `saveRDS()`) or the generation
whose library it points into. `Call(f)` is a native method of fit f: `ensure_native()` has five ways
to end, and each is an action: `CallAtOnce` (the fast path), `CallFails` (the pointers are made before
the probe and that throws), `CallProbed`, `CallRebuilt` and `CallNotCompiled`. A compile may be answered by
the memo, build, or throw after it has moved the generation. `Restore` saves and restores the
model with all its fits, in the same session or a new one.

## 3. Runs

| run | instance | shows |
|---|---|---|
| `worker_safety` | 2 chains on 2 threads of `"hmc"`, one block each, both gates closed | all interleavings of two chains, flushes, Ctrl-C, failed initialization, failed step size, throwing model: `OutputAccounted`, `NoChainOutlivesCall`, `OkMeansEveryChainFinished`, `MetropolisCountsOpenBlocks`, `ChatterSilenced`, `LoneErrorsShown`, and `CallSafety`: the safety part of `RunCall` |
| `worker_live` | 2 chains on 2 threads of `"walnuts"`, gates open | `CallPromise` (with timely delivery) and `CtrlCEndsCall` |
| `sample_chains` | 2 chains; warmup 0, 1, 3; samples 0, 2, 3; thinning 1, 2; saving warmup or not; 4 engines; 3 columns | `PreallocationExact`, `ArraysHoldTheDraws`, `LostChainIsAnError` |
| `sync_services` | 7 services, 3 iterations or draws, 2 rejected initial values, one Ctrl-C; fits of 1 to 3 iterations, 1 to 3 chains, 1 or 2 quantities; both gates closed | `FailureIsExplained`, `CtrlCIsNoticed`, `OkMeansComplete`, `NoDrawLost` |
| `gq_places` | the same | a counterexample to "iterations x chains x variables" |
| `data_context` | 3 tuple types, arrays of 0 to 3 elements nested up to two deep, 4 kinds of slot, 10 ways to spoil one of 16 places; a tuple beside a plain value under the same name, the name of a slot, one with another dot or none | `NumbersInPlace`, `NothingLost`, `AcceptedIffRegular`, `LengthsMatchDims`, `OnlyCleanNumbers` |
| `stanli_model` | 2 threads, 2 points and a vector of the wrong size, 3 columns, 2 choices of sections | `ExclusiveLease`, `ClonesBounded`, `RowsLabelledUnlessTorn`, and `CallsAreIsolated`: the whole of `ModelCalls`, that every call is answered included |
| `stanli_columns` | the same | a counterexample to "discovered on the first evaluation and fixed from then on" |
| `build_cache` | 2 sessions, 2 texts, 2 setups, 2 edits, 2 requests or crashes per session | `ServedCarriesTheHash`, `FaithfulUnlessRaced` |
| `pch_cache` | 2 sessions, 3 fingerprints, 2 requests each, 1 crash, 1 outdated PCH | `GoodModelsCompile`, `CacheBounded` |
| `fit_handle` | 2 fits, 4 compiles, 2 restores | `FastPathSafe`, `UsedFitsRecover`, `NewGenerationNewPointer`, `LiveModelAnswers` |
| `fit_restored` | the same | a counterexample to what a test says of restored fits |

Every passing run but `worker_live` and `data_context` (whose values are its inputs) also checks the type invariant of its module.

**Bounds.** *Chains.* With two chains blocks interleave, one chain throws while another runs, and two
chains end in different ways; with one block per chain a chain's block lies before, after or
across another's, and a genuine error falls inside one. The proofs cover every number of
chains, threads and blocks. *Iterations.* With thinning 2, the counts 0, 1, 2 and 3 are the
empty, the smallest, the divisible and the indivisible case for warmup and sampling
separately; the index arithmetic is linear in the chain and the variable, and 2 chains with
2 parameters and 1 diagnostic distinguish every stride in it. *Caches.* Two sessions are what a
race needs; two requests let a session meet its own memo and what another left on disk; two
edits are there and back. The cache of headers keeps two entries, so three fingerprints
make one session prune another's. *Fits.* Two fits share a model, so one's repair moves the
other's generation; four compiles and two restores are a compile before, between and after the
restores, and one that fails. *Services.* Three iterations or draws are the first, one between and the last,
and one more than the two draws Pathfinder has from choosing its approximation; the shapes of the fits tell every stride of the reshape
from every other. One Ctrl-C per call: a second one would only be pending. *Data.* Two levels of arrays with sizes 2 x 3 and 1 x 2 tell
row from column order at each level; every path of the three declarations is spoilt in every way its value allows.
*Threads.* Two threads race for the free list and clone at the same time; two points tell whose answer it is. `MaxRejects`, `MaxBlocks`, `MaxEdits`, `MaxRequests`, `MaxCrashes`, `MaxOutdated`,
`MaxGeneration` and `MaxRestores` are the only bounds in guards; each is a constant. `Nesting` bounds no action: it says how deep the
supplied values are nested, so that what is inside one can be defined without recursion.

**Symmetry** is used in the cache models and in `FitHandle`, for sessions, texts, setups, fingerprints
and fits; their runs check safety only, and no definition tells two elements of these sets apart.

**Fairness.** `RunWorker` assumes weak fairness of the R thread (its loop wakes every 50 ms), of the
worker, and of each chain as a whole: a thread that can take a step takes one. That is what
the operating system gives to runnable threads; TBB owes no more than that to a chain it has begun, and
begins the others when there is room. It is *not* assumed that a chain chooses to be done
with its iterations, nor that Ctrl-C is ever pressed. Hence `CtrlCEndsCall` rests on the flag
alone: with `CheckInterrupt` not reading it, the property fails. `StanliModel` assumes weak fairness of each thread while
it is in a call: nothing in a call waits for anything but the mutex of the free list, which is held for a few instructions. No
thread has to begin a call. The other modules are checked for safety only. Deadlock is checked in all runs but those of the caches and of
`FitHandle`, which stop when their bounds are used up, and of `DataContext`, a constructor that ends.

## 4. Disagreements between code and documentation

Each is a run that ends with a counterexample, quoted in `PROJECT.json` under "findings".

- `gq_places`: the generated-quantities array is filled as chains x iterations and labelled
  iterations x chains (`run_standalone_gqs.hpp:58` against line 34). `NoDrawLost` shows that the
  copy is a permutation; with one chain or one iteration it is the identity.
- `stanli_columns`: a probe of `prepare_write_array()` that throws after its first column leaves what it discovered in `cols_`; the next
  probe appends all columns again (`wa_interp.cpp:226-273` against `wa_interp.hpp:19-20`). `RowsLabelledUnlessTorn`, proved for any
  columns and sections, says that nothing else misplaces a name.
- `fit_restored`: `ensure_native()` makes the missing RNG before it probes the pointer, so a fit saved before
  any native method was used asks a nil function for it and fails at every call
  (`stanfit-zzz-base.R:405` against `tests/testthat/test-model-methods.R:369`). `UsedFitsRecover` and
  `LiveModelAnswers`, both proved, delimit this: only fits never used, or whose model was compiled
  (or failed to) since their last use, and only while the environment is a restored one.
Remarks without a run of their own:

- `$expose_stan_functions()` of a restored model finds its old environment, which is dead but not `NULL`, and fails
  (`stanmodel-zzz-base.R:363` against lines 724-727; `Expose` in `FitHandle`).
- Pruning can remove the PCH another session is about to use; GCC's message is then not recognized and the compile fails
  (`pch.R:96` against lines 79-80). `GoodModelsCompile` shows that clang is safe, and that GCC fails in no other way.
- The compile command is part of the message in which `is_pch_diagnostic()` looks for `\.gch`, so with clang any error in a model
  rebuilds the PCH (`pch.R:258` against `tests/testthat/test-pch.R:6-7`; `CompileFails` in `PchCache`).
- The class comment of the logger says that "genuine errors are never suppressed" (`r_logger.hpp:20`); an error logged while
  another chain's block is open is, as the comment at lines 41-43 admits. `LoneErrorsShown`, proved, says when the claim holds.
- A library is reused under the hash of a text it was not compiled from when the external C++ file is edited between its two
  reads (`stan_model.R:409, 461`). `FaithfulUnlessRaced`, proved, excludes this case - an edit while a session is between its reads - and says that
  other edits, other sessions, failed copies and crashes cannot have the same effect.
- `$laplace()` does not look at the return code of its `$optimize()`: the last point of a search whose line search failed, or with
  `opt_args = list(save_iterations = TRUE)` of one that Ctrl-C ended, becomes the mode (`stanmodel-laplace.R:100`; the exception in
  `CtrlCIsNoticed`).
- Pathfinder with one path that meets a `std::domain_error` at a draw falls back on the draws of its ELBO and returns OK
  (`pathfinder/single.hpp:940-960`). R then gets another number of draws than `single_path_draws`, "Number of draws per path"
  (`stanmodel-pathfinder.R:17`; `tests/testthat/test-pathfinder.R:33, 42` asks for 50 and expects 50): fewer when the error comes early, with 25 draws for the ELBO
  and 1000 asked for; and because those draws are written after the rows that are there already, some are there twice, though the message at lines 945-948 speaks
  of the ELBO draws alone. A code of OK therefore says nothing of the draws of `$pathfinder()`, and `OkMeansComplete` leaves it out. What holds, and is
  part of `FailureIsExplained`: either all draws are there, each once, or the warning is the last but one line of `$output()`.
- A fit that was never used when its model is compiled again has no generation (`NA`), so `generation_changed` is `FALSE`
  (`stanfit-zzz-base.R:403`): `ensure_native()` keeps the pointer it was made with, into the old library, and files it under the new generation. A used
  fit gets a new pointer (`NewGenerationNewPointer`), as the test at `test-model-methods.R:493` asks; the fit never used is not part of
  that property, and no other property catches it.
- With `iter = 0` lbfgs takes a step all the same, and with saved iterations writes two rows where `run_optimizing.hpp:86` has "at most
  iter updates"; newton reports convergence at the start.
- A number of ELBO samples of 0 passes R's check and makes the constructor of ADVI throw outside the `try` (`BeginThrows`).
- A Ctrl-C that comes when a worker is about to return OK ends in `cpp11::stop()` inside a `try` whose handler catches the exception
  by which `stop()` unwinds, and stops again with that exception's own text (`r_worker.hpp:74-81`): an error all the same, with other words.
- A tuple slot that is a vector of length 0 gets the shape of a scalar (`payload_shape`, `r_data_context.cpp:23-31`); the properties
  of `DataContext` that fail for it say so (`NoEmptyPayload`). A factor
  column of a data frame is taken for its codes (lines 154-165), though `as.matrix()`, which the comment there refers to, makes it text.
- `have_cols_ = true` is written by every `eval()` of every thread (`wa_interp.cpp:192`): the same value, but a race.

## 5. Proofs

All theorems hold for every value of the constants that satisfies the named assumptions:
`RunAssumption` (at least one chain and one thread, the writers of the logger are the chains),
`GatesAreBoolean`, `BuildAssumption`, `FitAssumption` (the bounds are numbers), `PchAssumption` (finitely many sessions and fingerprints),
`SampleAssumption` (the numbers of iterations are numbers, thinning and the number of columns are not 0), `SyncAssumption` (the numbers asked for
are numbers; a fit has iterations and chains), `StanliAssumption` (finitely many threads; the sections lie within the columns),
`DataAssumption` (values are nested to some finite depth; what R sees to: a `dim` agrees with the length of its vector, an integer is whole, the
columns of a data frame are of equal length; declarations are of tuples with plain names), and `PathAssumption` (a convention: the numbers of a
list for a tuple are labelled with the paths to them, so that a number says where it was), and `TupleAssumption` (what Stan sees to: a tuple has
slots, a variable has a name). TLAPS checks them with Z3,
Zenon and, for the temporal steps, LS4.

**RunWorkerProofs.** In the order of the module:

1. `TypeCorrect`: the type invariant is inductive.
2. `StructureInvariant`: `WorkerInv /\ RThreadInv`. None of the safety properties is inductive by
   itself. That no chain outlives the call depends on what the worker was doing when the
   future became ready (`WorkerInv`: which lines a chain may be about to write in which
   phase, `EmitFits`; how far initialization has come, `Reached`; `ready` means that all are
   quiet). `RThreadInv` stands on it: after the last swap nothing may refill the buffer, so it is empty
   until the end; and the two flags agree.
3. `OutputTheorem`: with the chains out of the picture (`LogStep` says what any step does to the log), this is the lemmas about
   the logger at the head of the module: what push, swap and print do to its types and to `OutputAccounted`, whoever calls them.
   `SyncServicesProofs` begins with the same lemmas.
4. `NoChainOutlivesCallTheorem` and `OkTheorem` follow from 2.
5. `MetropolisTheorem`: the counter is a cardinality; a header adds a chain to the set of open
   blocks, a blank line removes one, and no other line of level error is taken for either.
6. `LoneErrorTheorem`: when the set of open blocks is empty the counter is 0, and then only a header is
   taken for chatter.
7. `ChatterTheorem`: by `ChatterInv` every line of a block is classified as chatter when it is
   pushed (`Classified`). For Metropolis blocks this is 5; for initialization blocks, that one
   chain at a time initializes, so that `init_pending_` belongs to it.
8. `CallRefinement`: `Init` implies `Call!Init`, and a step of `RunWorker` is a step of `RunCall` or a
   stutter, under the invariants 1 to 3.

**BuildCacheProofs.** `TypeCorrect`, `ServedTheorem` and `FaithfulTheorem` from one inductive invariant,
`CacheInv`. What is served is not inductive, because it may come from the memo or from a compile
under way; the strengthening says that a session at work knows its hash (`Hashed`), that between its two reads the C++ file is as it was
hashed (`Unedited`), so that what it translated is what it hashed (`Translated`), both unless there was a race, and that a memo holds
whole libraries under their own hash (`MemoSound`). Nothing is needed about the library on
disk but that it is faithful: `Accepts` checks the rest when it is read.

**FitHandleProofs.** One inductive invariant, `FitInv`: the types with "no fit is ahead of its model", `UsedFitsRecover`
and `HandlesInv`. The fast path looks at the fit's own pointer only; that the rest is alive too needs
to know how handles live and die together: a live pointer implies a live environment and a RNG
that is not nil, because a restore takes all of them at once and a pointer is only made from
a live environment. Each step is split into what it does to the model (`ModelStep`) and to one
fit (`OnlyFit`, `FitAfter`). The two action properties follow branch by branch.

**StanliModelProofs.** `LeaseTheorem` is the conjunct that makes the others inductive: an executor belongs to one call or to the
free list, never to two, never to none. Then `ClonesTheorem` is arithmetic: at a clone the free list was empty *when it was looked at*, and the invariant
has to count the threads that are on their way to clone as well. `IsolationTheorem` needs that between `Load` and `Forward` the memory of a held
executor does not change (`LeaseTheorem` again), so that what `Forward` reads is the caller's point; each step of `StanliModel` then is a step of
`ModelCalls` or a stutter. `RowsTheorem` rests on what the constructor leaves (`columns_` and the two boundaries, unless
torn) and on lemmas about the two ranges of `Selected`.

**PchCacheProofs.** `TypeCorrect` shows that building, touching and removing keep the mtimes a total order of the entries with a PCH.
`GoodModelsTheorem` rests on where GCC finds the staged header: beside every PCH (`Staged`), and for a session that has made its flags until
somebody removes its entry (`Usable`). `CacheBounded` is not inductive: a session removes what it listed some steps ago, and meanwhile others build.
`Tidied` is: for *every* set S of sessions that have a list, it bounds what would be left if exactly those were done removing. A new PCH comes from a
session that counts as untidy; a list is made from an order of which at most two escape; a removal takes the session out of S.

**SampleChainsProofs.** `RowsSoFar` says what a writer holds at iteration m of each phase: `Saved(m)` rows of it. That this is never more than what
was made room for needs two lemmas about `saved_rows()`: it grows with the iterations, and by one exactly where `m % thin = 0`.
`LostChainTheorem` needs that only chains which began to sample have their names (`Begun`) and that no chain moves once the R thread stacks them (`Settled`).

`ArraysTheorem` has two invariants of its own. `RowsInv`: row k of a writer is its k-th kept draw (`Draw`, which continues from
the warmup into the sampling). A row that was kept is placed by `Saved(m)`, so the proof has to know that `saved_rows()`, a division, *counts* the
multiples of `thin` below m (`KeptCount`: m / thin is a bijection from them) and that the k-th of them is k times `thin`
(`KeptAt`). `CopyInv`: while chains are copied each array has its final size and holds the rows of the chains before `copied`,
and the buffers of the chains still to come are not released, so none of them is read as junk. A round of the loop writes column-major positions; that it
touches no other chain's is that position and (iteration, chain, variable) determine each other (`Position`, `FilledAt`).

**SyncServicesProofs.** `CtrlCTheorem` follows a Ctrl-C from the callback that takes it (`NoticeInv`); the way it can be lost is a row that `$laplace()` takes for
a mode, so the invariant also says when lbfgs has written none (`SearchInv`). `OkTheorem`, which is about all services but Pathfinder, needs for each what its rows are
after every iteration or draw (`SearchInv`, `DrawInv`, `FitInv`).

`TypeCorrect` and `ExplainedTheorem` come from `LogInv`, which follows the lines a service logs to the console. Nothing is flushed before the service has
returned, and all of it then (`FlushInv`); no line of these services is the header of a Metropolis block, so the counter stays 0 and an error
is never taken for the second line of one (`LinesInv`); and with every code that is not OK an error is on its way - among the lines of the action, in the
buffer, among the entries of the flush or printed (`ExplainedInv`). For the warning of Pathfinder it is enough to look at the
lines as a whole, pushed or not (`WarnedInv`), which `push()` does not change (`LogMoves`).

`NoDrawLostTheorem` is index arithmetic on `ArrayInv`. The copy puts row y of a variable where `RowAt` says; a number has only one pair of
digits for a base (`Digits`), so `RowAt` is a bijection when the rows fill the chains evenly, and two rows of `gq` are never equal,
since each was computed from a draw of its own (`RowsDiffer`).

**DataContextProofs.** The theorems hold for values nested to any depth and arrays of any sizes, so they rest on inductions, over the
levels of nesting, the elements of a sequence and the dimensions of an array. The induction rules of the library take an operator as their
parameter; here a set takes its place: a non-empty set of numbers has a least element (`LeastElement`), so a set that contains 0 and
with each number the next contains all (`NatSet`; `SeqSet` for sequences). `Recursion` and `Iterate` are what is used of it to show that the recursive functions of the
model (`Size`, `Levels`, `Unnest`, the folds in `FlattenSeq`) satisfy their equations.

`DataInv` is inductive. Its parts: `TypeInv`, by which what is pending comes from the value just taken up and every number in it is one of that
value's; `NamesInv`, the reason why `emplace()` never finds its name taken: every entry belongs to an element that has been taken up, no name
belongs to two (`OneOwner`), and within a tuple `flatten_leaf()` looks before it stores; `LengthsInv`, that an entry has as many values as its
dimensions say; `NumbersInv`, that every number of the elements taken up is stored in their entries or still pending, and nothing else is.
`CleanTheorem` needs only the first. What the steps keep are lemmas about the operators: `UnnestKeeps` (no dimension loses or invents a number, because `Interleaved` is a
bijection, `Digits` and `Compose`), `FlattenRange` and `FlattenLen`, and `WindowIn` and `WindowOnto` (the windows of complex numbers hold every number
and, besides padding, no other).

`NumbersInPlace` follows a single number instead. A path `Stands` at a value and a position of its `Route`; it goes on from a list to one
of its items (`StandsNext`) and ends at a payload (`StandsLast`). `PlacesInv` says that every number of a list taken up is at its place in an
entry, or that its path stands at one of the values of a pending slot, at the position that slot gives to it (`Sits`). It starts so
(`StartSits`). `FlattenTuple` takes it further: after k dimensions of `Unnest` the path stands at one of the elements, whose index is the inner
offset the route has computed (`UnnestAmong`, by induction over the dimensions; `InterleavedIndex` is one of them), `FlattenSeq` puts the
elements of the enclosing arrays one after another (`FlattenIndex`), and so the path stands at an item of that element in the new slot
(`TuplePlaces`). `FlattenLeaf` ends it: the payloads have one length, since their shapes are equal and none is empty (`LeafParts`), so the
number is at its block, or in the filled half of window of its block (`WindowPlace`, `LeafPlaces`); and an entry stays (`StaysInPlace`).

`AcceptTheorem` compares the code with `Regular`, which knows nothing of how lists are flattened. The reference goes through the declaration place by place,
the code slot by slot and, within a slot, dimension by dimension. They meet in the column of a pending slot, the values it has in all elements.
`RegularParts` turns the definition of a regular column into a recursive one: a column is regular when it is sound and its parts are. That needs
that no column lies further in than the bound on the levels says, which the finite depth of values gives (`ColumnDepth`); a part with
no values would escape it, so that tuples have slots and arrays have elements matters. `SlotColumn` follows `Unnest` through the dimensions of an array (by
induction, `AlikeLevel` is one of them): the column is regular exactly when all arrays are regular and of equal sizes and the column of
all their elements is regular; that `Unnest` stops below a size of 0 is the case of no values. `TupleRegular` takes this to the slots `FlattenTuple` makes,
`RegularUnpacks` says that it makes them, and `LeafRegular` is the end of the recursion: `flatten_leaf()` throws exactly where the column of its payloads is not
sound. `payload_shape()` and `OwnShape` are different functions; that they tell the same payloads apart holds only while
none is empty (`SameShape`). `AcceptInv` carries the question through the run: a list that is supplied alone is regular as long as all pending slots are, a run
that stopped had one that was not, and the names of the pending slots part from each other and from what is stored (`ApartNames`), so that a
collision of names never is what throws.

**Only model-checked.** Liveness (`CallPromise` beyond `CallSafety`, `CallsAreIsolated` beyond its safety, and `CtrlCEndsCall`): TLAPS does not
handle fairness and ENABLED. Every invariant and every action property of the passing runs is a theorem.

## 6. Limits and plan

**Abstractions.** The numerics of the samplers are left out: a transition succeeds, logs or throws.
Wording is left out but for the prefixes that `push()` reads. Levels debug and fatal behave in the
logger as info and error and stand behind them. The lines a service writes for one genuine error
are one line. The compilers are modelled by how the code uses them. In `PchCache` the look at the directory that pruning starts with
(`list.dirs()`, two `file.exists()`, `file.info()`: `pch.R:82-94`) is one step, and the removal of all old entries and what is in them (line 96) is another; a
session that looks while another is halfway through either is not modelled.

**Not modelled in the modelled components.** The emscripten variant of the worker, which runs
the service on the R thread (`r_worker.hpp:19-39`). The initialization of several
`fixed_param` chains, whose exception is not caught and reaches the future (`fixed_param.hpp:151-162`),
and static HMC, which has the control of NUTS. The reading of metric arguments
(`make_metric_contexts`). The initialization of walnuts on the R thread before the worker starts. Standalone functions
(`R/expose.R:321-413`) have no cache on disk, though the documentation says so
(`R/stanmodel-zzz-base.R:718-720`); their compile uses the PCH cache.

**Not modelled components.** Model methods, `stanc()`, exposed functions, diagnostics and the
result classes keep no state and run nothing concurrently. Vendored code is third-party.

**Plan.** In this order:

1. Pathfinder with several paths, and `fixed_param` with several chains, as services of `RunWorker`: the paths initialize
   in parallel, which takes away what `ChatterTheorem` rests on. With `show_exceptions = FALSE` the lines of interleaved blocks of
   rejected initial values are then shown, for `init_pending_` counts the lines of one block; and a path that fails ends the others of
   its TBB range (`pathfinder/multi.hpp`).
2. The resolution of `#include` as a pure algorithm.
