------------------------------ MODULE FitHandle ------------------------------
(***************************************************************************)
(* The native handles of a StanModel and of the fits made with it          *)
(* (R/stanmodel-zzz-base.R, R/stanfit-zzz-base.R): the environment of      *)
(* native functions a model was compiled to, the external pointers to the  *)
(* C++ model and the RNG that each fit keeps, and the generations by which *)
(* a fit notices that its model was compiled again.                        *)
(*                                                                         *)
(* saveRDS() and readRDS() keep the R objects; every external pointer in   *)
(* them - a fit's, or the addresses in a compiled environment - comes back *)
(* as nil, which is not NULL.  A compile may fail, or be interrupted.      *)
(*                                                                         *)
(* A handle is NULL, NIL or the generation that compiled the library it    *)
(* points into.  Libraries are never unloaded.                             *)
(***************************************************************************)
EXTENDS Integers

CONSTANTS
  Fits,            \* the fits of the model
  MaxGeneration,   \* bound: compiles
  MaxRestores      \* bound: how often everything is saved and restored

ASSUME FitAssumption == MaxGeneration \in Nat /\ MaxRestores \in Nat

NULL == 0
NIL  == -1
NA   == -1
Live(handle) == handle > 0

VARIABLES
  compile_standalone,   \* the model's compile_standalone_
  compiled_env,         \* its compiled_env_
  compile_generation,   \* its compile_generation_
  functions_env,        \* its functions_compiled_env_
  functions,            \* what is bound in $functions
  memo,                 \* the environment the session remembers for the model
  model_ptr,            \* of each fit; NULL: there is no such fit yet
  rng_ptr,              \* of each fit
  native_generation,    \* of each fit
  answer,               \* how the last native method of each fit ended
  exposed,              \* how the last $expose_stan_functions() ended
  restores              \* restores so far (for the bound)

modelVars == <<compile_standalone, compiled_env, compile_generation,
               functions_env, functions, memo>>
fitVars   == <<model_ptr, rng_ptr, native_generation, answer>>
vars      == <<modelVars, fitVars, exposed, restores>>

Outcomes == {"none", "answered", "failed", "not compiled"}

Init ==
  /\ compile_standalone \in BOOLEAN
  /\ compiled_env = NULL
  /\ compile_generation = 0
  /\ functions_env = NULL
  /\ functions = NULL
  /\ memo = NULL
  /\ model_ptr = [f \in Fits |-> NULL]
  /\ rng_ptr = [f \in Fits |-> NULL]
  /\ native_generation = [f \in Fits |-> NA]
  /\ answer = [f \in Fits |-> "none"]
  /\ exposed = "none"
  /\ restores = 0
-----------------------------------------------------------------------------
(* $compile().  The memo answers unless it is told not to, or the external *)
(* C++ was edited; the generation counts attempts.                         *)

NextGeneration ==
  /\ compile_generation < MaxGeneration
  /\ compile_generation' = compile_generation + 1

Compiles(force_recompile, standalone) ==
  /\ NextGeneration
  /\ \/ compiled_env' = compile_generation'
     \/ ~force_recompile /\ memo # NULL /\ compiled_env' = memo
  /\ memo' = compiled_env'
  /\ functions_env' = IF standalone THEN compiled_env' ELSE functions_env
  /\ functions' = IF standalone THEN compiled_env' ELSE functions
  /\ UNCHANGED compile_standalone

CompileThrows ==
  /\ NextGeneration
  /\ UNCHANGED <<compile_standalone, compiled_env, functions_env, functions, memo>>

\* The user compiles the model.
Compile ==
  /\ \/ \E force, standalone \in BOOLEAN : Compiles(force, standalone)
     \/ CompileThrows
  /\ UNCHANGED <<fitVars, exposed, restores>>
-----------------------------------------------------------------------------
(* .stanr_run_service(): $new_model() compiles a model that is not compiled *)
(* and hands its pointer on to the fit.  With nil addresses it is an error. *)

NewFit(f) ==
  /\ model_ptr[f] = NULL
  /\ IF compiled_env = NULL THEN Compiles(FALSE, compile_standalone)
     ELSE Live(compiled_env) /\ UNCHANGED modelVars
  /\ model_ptr' = [model_ptr EXCEPT ![f] = compiled_env']
  /\ UNCHANGED <<rng_ptr, native_generation, answer, exposed, restores>>

NewFitFails ==
  /\ compiled_env = NULL
  /\ CompileThrows
  /\ UNCHANGED <<fitVars, exposed, restores>>
-----------------------------------------------------------------------------
(* ensure_native() and the native method that follows it.                  *)

\* Fault: nobody asks whether the pointer has survived.
FaultyFastPath(f) ==
  native_generation[f] # NA /\ native_generation[f] = compile_generation

\* Nothing to do: same generation, and the pointer is there.
FastPath(f) ==
  /\ native_generation[f] # NA
  /\ native_generation[f] = compile_generation
  /\ Live(model_ptr[f])

\* Fault: the generation is not compared.
FaultyChanged(f) == FALSE

\* generation_changed
Changed(f) ==
  native_generation[f] # NA /\ native_generation[f] # compile_generation

\* initialize_pointer(force = generation_changed): what it makes anew.
ModelAfter(f) == IF Changed(f) THEN compiled_env ELSE model_ptr[f]
NeedsRng(f)   == Changed(f) \/ rng_ptr[f] = NULL

\* Fault: force is forgotten.
FaultyRngAfter(f) == IF rng_ptr[f] = NULL THEN compiled_env ELSE rng_ptr[f]

RngAfter(f)   == IF NeedsRng(f) THEN compiled_env ELSE rng_ptr[f]

Handles(f, model, rng) ==
  /\ model_ptr' = [model_ptr EXCEPT ![f] = model]
  /\ rng_ptr' = [rng_ptr EXCEPT ![f] = rng]

\* The method itself, with the functions of env.
Answer(f, env, model, rng) ==
  answer' = [answer EXCEPT ![f] = IF Live(env) /\ Live(model) /\ Live(rng)
                                  THEN "answered" ELSE "failed"]

CallAtOnce(f) ==
  /\ FastPath(f)
  /\ Answer(f, compiled_env, model_ptr[f], rng_ptr[f])
  /\ UNCHANGED <<modelVars, model_ptr, rng_ptr, native_generation, exposed, restores>>

\* new_model() or new_base_rng() of a restored environment: an error that
\* nothing catches, before there is a probe.
InitializeFails(f) == ~FastPath(f) /\ compiled_env = NIL /\ NeedsRng(f)

CallFails(f) ==
  /\ InitializeFails(f)
  /\ answer' = [answer EXCEPT ![f] = "failed"]
  /\ UNCHANGED <<modelVars, model_ptr, rng_ptr, native_generation, exposed, restores>>

\* probe(private$model_ptr_)
Valid(f) == Live(compiled_env) /\ Live(ModelAfter(f))

CallProbed(f) ==
  /\ ~FastPath(f)
  /\ Valid(f)
  /\ Handles(f, ModelAfter(f), RngAfter(f))
  /\ native_generation' = [native_generation EXCEPT ![f] = compile_generation]
  /\ Answer(f, compiled_env, ModelAfter(f), RngAfter(f))
  /\ UNCHANGED <<modelVars, exposed, restores>>

Invalid(f) == ~FastPath(f) /\ ~InitializeFails(f) /\ ~Valid(f)

\* Fault: the pointers are not made anew after the compile.
FaultyCallRebuilt(f) ==
  /\ Invalid(f)
  /\ Compiles(FALSE, compile_standalone)
  /\ Handles(f, model_ptr[f], RngAfter(f))
  /\ native_generation' = [native_generation EXCEPT ![f] = compile_generation']
  /\ Answer(f, compiled_env', model_ptr[f], RngAfter(f))
  /\ UNCHANGED <<exposed, restores>>

\* The probe failed: compile, and make both pointers again.
CallRebuilt(f) ==
  /\ Invalid(f)
  /\ Compiles(FALSE, compile_standalone)
  /\ Handles(f, compiled_env', compiled_env')
  /\ native_generation' = [native_generation EXCEPT ![f] = compile_generation']
  /\ Answer(f, compiled_env', compiled_env', compiled_env')
  /\ UNCHANGED <<exposed, restores>>

CallNotCompiled(f) ==
  /\ Invalid(f)
  /\ CompileThrows
  /\ Handles(f, ModelAfter(f), RngAfter(f))
  /\ answer' = [answer EXCEPT ![f] = "not compiled"]
  /\ UNCHANGED <<native_generation, exposed, restores>>

\* A native method: $log_prob(), $constrain_variables(), ...
Call(f) ==
  /\ model_ptr[f] # NULL
  /\ CallAtOnce(f) \/ CallFails(f) \/ CallProbed(f) \/ CallRebuilt(f) \/ CallNotCompiled(f)
-----------------------------------------------------------------------------
(* $expose_stan_functions(): compiled once, then bound whenever called.    *)

Expose ==
  /\ \/ /\ functions_env = NULL
        /\ \/ functions_env' = 1 /\ functions' = 1 /\ exposed' = "answered"
           \/ exposed' = "not compiled" /\ UNCHANGED <<functions_env, functions>>
     \/ /\ functions_env # NULL
        /\ IF Live(functions_env)
           THEN functions' = functions_env /\ exposed' = "answered"
           ELSE exposed' = "failed" /\ UNCHANGED functions
        /\ UNCHANGED functions_env
  /\ UNCHANGED <<compile_standalone, compiled_env, compile_generation, memo,
                 fitVars, restores>>
-----------------------------------------------------------------------------
\* What is left of a handle that was saved and restored.
Restored(handle) == IF Live(handle) THEN NIL ELSE handle

RestoreHandles ==
  /\ restores < MaxRestores
  /\ restores' = restores + 1
  /\ compiled_env' = Restored(compiled_env)
  /\ functions_env' = Restored(functions_env)
  /\ functions' = Restored(functions)
  /\ memo' \in {memo, NULL}
  /\ model_ptr' = [f \in Fits |-> Restored(model_ptr[f])]
  /\ rng_ptr' = [f \in Fits |-> Restored(rng_ptr[f])]
  /\ answer' = [f \in Fits |-> "none"]
  /\ exposed' = "none"
  /\ UNCHANGED <<compile_standalone, native_generation>>

\* Fault: the generations begin again, but the fits remember theirs.
FaultyRestore == RestoreHandles /\ compile_generation' = 0

\* The model and its fits are saved and restored, in the same session (the
\* memo is still there) or in a new one.
Restore == RestoreHandles /\ UNCHANGED compile_generation

Next ==
  \/ Compile \/ NewFitFails \/ Expose \/ Restore
  \/ \E f \in Fits : NewFit(f) \/ Call(f)

Spec == Init /\ [][Next]_vars
-----------------------------------------------------------------------------
Handle == {NULL, NIL} \cup 1..MaxGeneration

\* The type invariant; no fit is ahead of its model.
TypeOK ==
  /\ compile_standalone \in BOOLEAN
  /\ compiled_env \in Handle
  /\ compile_generation \in 0..MaxGeneration
  /\ functions_env \in Handle \cup {1} /\ functions \in Handle \cup {1}
  /\ memo \in Handle \ {NIL}
  /\ model_ptr \in [Fits -> Handle] /\ rng_ptr \in [Fits -> Handle]
  /\ native_generation \in [Fits -> {NA} \cup Nat]
  /\ \A f \in Fits : native_generation[f] <= compile_generation
  /\ answer \in [Fits -> Outcomes]
  /\ exposed \in Outcomes
  /\ restores \in 0..MaxRestores

\* Whenever ensure_native() returns without a look at the model - the
\* generations agree and the fit's own pointer is there - the functions, the
\* pointer and the RNG it did not look at are there too, however often the
\* model was compiled, saved and restored.
FastPathSafe ==
  \A f \in Fits : model_ptr[f] # NULL /\ FastPath(f) =>
    Live(compiled_env) /\ Live(model_ptr[f]) /\ Live(rng_ptr[f])

\* A fit that was used before its model was compiled again leaves the old
\* library behind: its generation only moves together with a new pointer
\* (test-model-methods.R:493: "must rebuild the pointer against the new
\* artifact").  A fit whose generation is still NA is not part of this: its
\* pointer is kept, and comes under the new generation with the old library.
PointerWithGeneration(f) ==
  native_generation[f] # NA /\ native_generation'[f] # native_generation[f]
    => model_ptr'[f] = compiled_env'

NewGenerationNewPointer == [][\A f \in Fits : PointerWithGeneration(f)]_vars

\* While the model's functions are there, every fit answers: failed and
\* interrupted compiles, restores and fits never used before do not matter.
FailsOnlyRestored(f) == Call(f) /\ answer'[f] = "failed" => compiled_env = NIL

LiveModelAnswers == [][\A f \in Fits : FailsOnlyRestored(f)]_vars

\* A fit whose native methods were used since its model was last compiled, or
\* tried to, answers after it is restored, as long as no compile fails: a
\* failed one counts as a generation, and the nil functions are then asked for
\* a new pointer before anything compiles again.
UsedFitsRecover ==
  \A f \in Fits : answer[f] = "failed" =>
    rng_ptr[f] = NULL \/ native_generation[f] # compile_generation

\* "serialized fits lazily rebuild data-bound model methods"
\* (test-model-methods.R:369): a native method fails only when the compile
\* it needs fails.
RestoredFitsAnswer == \A f \in Fits : answer[f] # "failed"
=============================================================================
