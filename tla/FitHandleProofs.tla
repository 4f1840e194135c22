-------------------------- MODULE FitHandleProofs --------------------------
(***************************************************************************)
(* What FitHandle promises, for every set of fits and any number of        *)
(* compiles and restores.  The inductive invariant says which handles are  *)
(* live together: a restore takes all of them at once, and a fit only gets *)
(* a live pointer from a live environment.                                 *)
(***************************************************************************)
EXTENDS FitHandle, TLAPS

LEMMA HandleType == Handle \subseteq Int /\ \A h \in Handle : Restored(h) \in Handle
BY FitAssumption DEF Handle, NULL, NIL, Restored, Live

\* What a successful compile leaves behind.
LEMMA CompilesType ==
  ASSUME TypeOK, NEW force \in BOOLEAN, NEW standalone \in BOOLEAN,
         Compiles(force, standalone)
  PROVE  /\ compile_generation' = compile_generation + 1
         /\ compile_generation' \in 1..MaxGeneration
         /\ compiled_env' \in Handle /\ Live(compiled_env')
         /\ memo' = compiled_env' /\ compile_standalone' = compile_standalone
         /\ functions_env' \in Handle \cup {1} /\ functions' \in Handle \cup {1}
<1>1. compile_generation' = compile_generation + 1 /\ compile_generation' \in 1..MaxGeneration
  BY FitAssumption DEF TypeOK, Compiles, NextGeneration
<1>2. compiled_env' \in Handle /\ Live(compiled_env')
  BY <1>1 DEF TypeOK, Compiles, Handle, Live, NULL, NIL
<1>3. QED
  BY <1>1, <1>2 DEF TypeOK, Compiles

\* What a failed one does.
LEMMA ThrowsType ==
  ASSUME TypeOK, CompileThrows
  PROVE  /\ compile_generation' = compile_generation + 1
         /\ compile_generation' \in 1..MaxGeneration
         /\ UNCHANGED <<compile_standalone, compiled_env, functions_env, functions, memo>>
BY FitAssumption DEF TypeOK, CompileThrows, NextGeneration

-----------------------------------------------------------------------------
(* The steps, by what they do to the model and to at most one fit.         *)

\* What a step may do to the model's variables.
ModelStep ==
  \/ UNCHANGED modelVars
  \/ \E force, standalone \in BOOLEAN : Compiles(force, standalone)
  \/ CompileThrows

LEMMA ModelStepType ==
  ASSUME TypeOK, ModelStep
  PROVE  /\ compile_standalone' \in BOOLEAN
         /\ compiled_env' \in Handle /\ memo' \in Handle \ {NIL}
         /\ compile_generation' \in 0..MaxGeneration
         /\ compile_generation' >= compile_generation
         /\ functions_env' \in Handle \cup {1} /\ functions' \in Handle \cup {1}
         /\ compiled_env # NULL => compiled_env' # NULL
         /\ Live(compiled_env) => Live(compiled_env')
         /\ compile_generation' = compile_generation => UNCHANGED modelVars
<1>1. CASE UNCHANGED modelVars
  BY <1>1 DEF TypeOK, modelVars
<1>2. CASE \E force, standalone \in BOOLEAN : Compiles(force, standalone)
  BY <1>2, CompilesType DEF TypeOK, Live, NULL, NIL, Handle
<1>3. CASE CompileThrows
  BY <1>3, ThrowsType DEF TypeOK, Live
<1>4. QED
  BY <1>1, <1>2, <1>3 DEF ModelStep

\* compiled_env exists once there is a fit, a fit that was used has both of
\* its pointers, and a live model pointer is never alone.
HandlesInv ==
  \A f \in Fits :
    /\ model_ptr[f] # NULL => compiled_env # NULL
    /\ rng_ptr[f] # NULL => model_ptr[f] # NULL
    /\ native_generation[f] # NA => rng_ptr[f] # NULL
    /\ Live(model_ptr[f]) => Live(compiled_env) /\ rng_ptr[f] # NIL

FitInv == TypeOK /\ HandlesInv /\ UsedFitsRecover

LEMMA FitInvInit == Init => FitInv
BY FitAssumption DEF Init, FitInv, TypeOK, HandlesInv, UsedFitsRecover, Handle,
   Outcomes, NULL, NIL, NA, Live

\* A step that leaves the fits alone.
LEMMA ModelStepInv ==
  ASSUME FitInv, ModelStep, UNCHANGED fitVars,
         exposed' \in Outcomes, UNCHANGED restores
  PROVE  FitInv'
<1>1. TypeOK'
  <2>1. \A f \in Fits : native_generation[f] <= compile_generation'
    BY ModelStepType DEF FitInv, TypeOK, NA
  <2>2. QED
    BY <2>1, ModelStepType DEF FitInv, TypeOK, fitVars
<1>2. HandlesInv'
  BY ModelStepType DEF FitInv, HandlesInv, fitVars
<1>3. UsedFitsRecover'
  BY ModelStepType DEF FitInv, UsedFitsRecover, TypeOK, fitVars, NA, modelVars
<1>4. QED
  BY <1>1, <1>2, <1>3 DEF FitInv

LEMMA ExposeInv ==
  ASSUME FitInv, Expose
  PROVE  FitInv'
<1>1. functions_env' \in Handle \cup {1} /\ functions' \in Handle \cup {1} /\ exposed' \in Outcomes
  BY DEF Expose, FitInv, TypeOK, Outcomes
<1>2. TypeOK'
  BY <1>1 DEF Expose, FitInv, TypeOK, fitVars
<1>3. HandlesInv' /\ UsedFitsRecover'
  BY DEF Expose, FitInv, HandlesInv, UsedFitsRecover, fitVars
<1>4. QED
  BY <1>2, <1>3 DEF FitInv

\* A restore turns every live handle into a nil one, and no other.
LEMMA RestoreInv ==
  ASSUME FitInv, Restore
  PROVE  FitInv'
<1>1. TypeOK'
  <2>1. compiled_env' \in Handle /\ memo' \in Handle \ {NIL}
    BY HandleType DEF Restore, RestoreHandles, FitInv, TypeOK, Handle, NULL, NIL
  <2>2. functions_env' \in Handle \cup {1} /\ functions' \in Handle \cup {1}
    BY HandleType DEF Restore, RestoreHandles, FitInv, TypeOK, Restored, Handle
  <2>3. model_ptr' \in [Fits -> Handle] /\ rng_ptr' \in [Fits -> Handle]
    BY HandleType DEF Restore, RestoreHandles, FitInv, TypeOK
  <2>4. restores' \in 0..MaxRestores /\ answer' \in [Fits -> Outcomes] /\ exposed' \in Outcomes
    <3>1. restores' = restores + 1 /\ restores < MaxRestores /\ restores \in 0..MaxRestores
      BY DEF Restore, RestoreHandles, FitInv, TypeOK
    <3>2. answer' = [f \in Fits |-> "none"] /\ exposed' = "none" /\ "none" \in Outcomes
      BY DEF Restore, RestoreHandles, Outcomes
    <3>3. QED
      BY <3>1, <3>2, FitAssumption
  <2>5. UNCHANGED <<compile_standalone, native_generation, compile_generation>>
    BY DEF Restore, RestoreHandles
  <2>6. /\ native_generation' \in [Fits -> {NA} \cup Nat]
        /\ \A f \in Fits : native_generation'[f] <= compile_generation'
        /\ compile_generation' \in 0..MaxGeneration
        /\ compile_standalone' \in BOOLEAN
    BY <2>5 DEF FitInv, TypeOK
  <2>7. QED
    BY <2>1, <2>2, <2>3, <2>4, <2>6 DEF TypeOK
<1>2. HandlesInv'
  <2> SUFFICES ASSUME NEW f \in Fits
               PROVE  /\ model_ptr'[f] # NULL => compiled_env' # NULL
                      /\ rng_ptr'[f] # NULL => model_ptr'[f] # NULL
                      /\ native_generation'[f] # NA => rng_ptr'[f] # NULL
                      /\ Live(model_ptr'[f]) => Live(compiled_env') /\ rng_ptr'[f] # NIL
    BY DEF HandlesInv
  <2>1. /\ compiled_env' = Restored(compiled_env)
        /\ model_ptr'[f] = Restored(model_ptr[f]) /\ rng_ptr'[f] = Restored(rng_ptr[f])
        /\ native_generation' = native_generation
    BY DEF Restore, RestoreHandles
  <2>2. \A h \in Handle : ~Live(Restored(h)) /\ (Restored(h) = NULL <=> h = NULL)
    BY DEF Restored, Live, NULL, NIL
  <2>3. compiled_env \in Handle /\ model_ptr[f] \in Handle /\ rng_ptr[f] \in Handle
    BY DEF FitInv, TypeOK
  <2>4. QED
    BY <2>1, <2>2, <2>3 DEF FitInv, HandlesInv
<1>3. UsedFitsRecover'
  BY DEF Restore, RestoreHandles, UsedFitsRecover
<1>4. QED
  BY <1>1, <1>2, <1>3 DEF FitInv
-----------------------------------------------------------------------------
(* A step of one fit: its new handles are of the right kind.               *)

\* What such a step has to establish for the fit f.
FitAfter(f) ==
  /\ model_ptr'[f] \in Handle \ {NULL} /\ rng_ptr'[f] \in Handle
  /\ compiled_env' # NULL
  /\ native_generation'[f] \in {NA} \cup Nat
  /\ native_generation'[f] <= compile_generation'
  /\ native_generation'[f] # NA => rng_ptr'[f] # NULL
  /\ Live(model_ptr'[f]) => Live(compiled_env') /\ rng_ptr'[f] # NIL
  /\ answer'[f] \in Outcomes
  /\ answer'[f] = "failed" =>
       rng_ptr'[f] = NULL \/ native_generation'[f] # compile_generation'

\* It leaves the others alone.
OnlyFit(f) ==
  /\ \E m \in Handle : model_ptr' = [model_ptr EXCEPT ![f] = m]
  /\ \E r \in Handle : rng_ptr' = [rng_ptr EXCEPT ![f] = r]
  /\ \E g \in {NA} \cup Nat : native_generation' = [native_generation EXCEPT ![f] = g]
  /\ \E a \in Outcomes : answer' = [answer EXCEPT ![f] = a]
  /\ UNCHANGED <<exposed, restores>>

LEMMA FitStepInv ==
  ASSUME FitInv, ModelStep, NEW f \in Fits, OnlyFit(f), FitAfter(f)
  PROVE  FitInv'
<1>1. \A g \in Fits \ {f} :
        /\ model_ptr'[g] = model_ptr[g] /\ rng_ptr'[g] = rng_ptr[g]
        /\ native_generation'[g] = native_generation[g] /\ answer'[g] = answer[g]
  BY DEF OnlyFit, FitInv, TypeOK
<1>2. TypeOK'
  <2>1. /\ model_ptr' \in [Fits -> Handle] /\ rng_ptr' \in [Fits -> Handle]
        /\ native_generation' \in [Fits -> {NA} \cup Nat] /\ answer' \in [Fits -> Outcomes]
    BY DEF OnlyFit, FitInv, TypeOK
  <2>2. \A g \in Fits : native_generation'[g] <= compile_generation'
    BY <1>1, ModelStepType DEF FitAfter, FitInv, TypeOK, NA
  <2>3. QED
    BY <2>1, <2>2, ModelStepType DEF OnlyFit, FitInv, TypeOK
<1>3. HandlesInv'
  BY <1>1, ModelStepType DEF FitAfter, FitInv, HandlesInv
<1>4. UsedFitsRecover'
  BY <1>1, ModelStepType DEF FitAfter, FitInv, UsedFitsRecover, TypeOK, NA, modelVars
<1>5. QED
  BY <1>2, <1>3, <1>4 DEF FitInv

\* A new fit gets a live pointer from an environment that is live by then.
LEMMA NewFitInv ==
  ASSUME FitInv, NEW f \in Fits, NewFit(f)
  PROVE  FitInv'
<1>1. ModelStep /\ compiled_env' \in Handle /\ Live(compiled_env')
  <2>1. CASE compiled_env = NULL
    <3>1. Compiles(FALSE, compile_standalone) /\ compile_standalone \in BOOLEAN
      BY <2>1 DEF NewFit, FitInv, TypeOK
    <3>2. QED
      BY <3>1, CompilesType DEF FitInv, ModelStep
  <2>2. CASE compiled_env # NULL
    BY <2>2 DEF NewFit, FitInv, TypeOK, ModelStep, modelVars
  <2>3. QED
    BY <2>1, <2>2
<1>2. rng_ptr[f] = NULL /\ native_generation[f] = NA
  BY DEF NewFit, FitInv, HandlesInv
<1>3. OnlyFit(f)
  <2>1. /\ rng_ptr' = [rng_ptr EXCEPT ![f] = rng_ptr[f]]
        /\ native_generation' = [native_generation EXCEPT ![f] = native_generation[f]]
        /\ answer' = [answer EXCEPT ![f] = answer[f]]
    BY DEF NewFit, FitInv, TypeOK
  <2>2. rng_ptr[f] \in Handle /\ native_generation[f] \in {NA} \cup Nat /\ answer[f] \in Outcomes
    BY DEF FitInv, TypeOK
  <2>3. QED
    BY <1>1, <2>1, <2>2 DEF OnlyFit, NewFit
<1>4. FitAfter(f)
  <2>1. model_ptr'[f] = compiled_env' /\ compiled_env' # NULL
    BY <1>1 DEF NewFit, FitInv, TypeOK, Live, NULL
  <2>2. rng_ptr'[f] = NULL /\ native_generation'[f] = NA /\ answer'[f] \in Outcomes
    BY <1>2 DEF NewFit, FitInv, TypeOK
  <2>3. NA <= compile_generation'
    BY <1>1, ModelStepType DEF FitInv, TypeOK, NA
  <2>4. QED
    BY <1>1, <2>1, <2>2, <2>3 DEF FitAfter, Handle, NULL, NIL, NA
<1>5. QED
  BY <1>1, <1>3, <1>4, FitStepInv
-----------------------------------------------------------------------------
(* A native method.                                                        *)

\* What initialize_pointer() leaves behind has the right type.
LEMMA AfterType ==
  ASSUME FitInv, NEW f \in Fits, model_ptr[f] # NULL
  PROVE  /\ ModelAfter(f) \in Handle \ {NULL} /\ RngAfter(f) \in Handle \ {NULL}
         /\ compiled_env \in Handle \ {NULL}
BY DEF FitInv, TypeOK, HandlesInv, ModelAfter, RngAfter, NeedsRng, Changed

\* When the probe succeeds, all that a native method needs is live.
LEMMA ProbedLive ==
  ASSUME FitInv, NEW f \in Fits, model_ptr[f] # NULL, Valid(f)
  PROVE  Live(compiled_env) /\ Live(ModelAfter(f)) /\ Live(RngAfter(f))
<1>1. Live(compiled_env) /\ Live(ModelAfter(f))
  BY DEF Valid
<1>2. CASE NeedsRng(f)
  BY <1>1, <1>2 DEF RngAfter
<1>3. CASE ~NeedsRng(f)
  <2>1. ModelAfter(f) = model_ptr[f] /\ RngAfter(f) = rng_ptr[f] /\ rng_ptr[f] # NULL
    BY <1>3 DEF NeedsRng, ModelAfter, RngAfter
  <2>2. QED
    BY <1>1, <2>1 DEF FitInv, TypeOK, HandlesInv, Handle, Live, NULL, NIL
<1>4. QED
  BY <1>1, <1>2, <1>3

\* So it is when ensure_native() returns at once.
LEMMA FastPathLive ==
  ASSUME FitInv, NEW f \in Fits, FastPath(f)
  PROVE  Live(compiled_env) /\ Live(model_ptr[f]) /\ Live(rng_ptr[f])
BY DEF FitInv, TypeOK, HandlesInv, FastPath, Handle, Live, NULL, NIL

\* Every branch of a native method.
LEMMA CallInv ==
  ASSUME FitInv, NEW f \in Fits, Call(f)
  PROVE  FitInv'
<1>1. model_ptr[f] # NULL
  BY DEF Call
<1>2. /\ compiled_env \in Handle \ {NULL} /\ model_ptr[f] \in Handle /\ rng_ptr[f] \in Handle
      /\ native_generation[f] \in {NA} \cup Nat /\ native_generation[f] <= compile_generation
      /\ answer[f] \in Outcomes /\ compile_generation \in Nat
      /\ compile_standalone \in BOOLEAN
  BY <1>1, AfterType DEF FitInv, TypeOK
<1>3. CASE CallAtOnce(f)
  <2>1. ModelStep /\ compiled_env' = compiled_env /\ compile_generation' = compile_generation
    BY <1>3 DEF CallAtOnce, ModelStep, modelVars
  <2>2. FastPath(f) /\ answer' = [answer EXCEPT ![f] = "answered"]
    BY <1>3, FastPathLive DEF CallAtOnce, Answer
  <2>3. OnlyFit(f)
    <3>1. /\ model_ptr' = [model_ptr EXCEPT ![f] = model_ptr[f]]
          /\ rng_ptr' = [rng_ptr EXCEPT ![f] = rng_ptr[f]]
          /\ native_generation' = [native_generation EXCEPT ![f] = native_generation[f]]
      BY <1>3 DEF CallAtOnce, FitInv, TypeOK
    <3>2. QED
      BY <1>2, <1>3, <2>2, <3>1 DEF OnlyFit, CallAtOnce, Outcomes
  <2>4. FitAfter(f)
    BY <1>1, <1>2, <1>3, <2>1, <2>2 DEF FitAfter, CallAtOnce, FitInv, HandlesInv, TypeOK, Outcomes
  <2>5. QED
    BY <2>1, <2>3, <2>4, FitStepInv
<1>4. CASE CallFails(f)
  <2>1. ModelStep /\ compiled_env' = compiled_env /\ compile_generation' = compile_generation
    BY <1>4 DEF CallFails, ModelStep, modelVars
  <2>2. rng_ptr[f] = NULL \/ native_generation[f] # compile_generation
    BY <1>4 DEF CallFails, InitializeFails, NeedsRng, Changed
  <2>3. OnlyFit(f)
    <3>1. /\ model_ptr' = [model_ptr EXCEPT ![f] = model_ptr[f]]
          /\ rng_ptr' = [rng_ptr EXCEPT ![f] = rng_ptr[f]]
          /\ native_generation' = [native_generation EXCEPT ![f] = native_generation[f]]
      BY <1>4 DEF CallFails, FitInv, TypeOK
    <3>2. QED
      BY <1>2, <1>4, <3>1 DEF OnlyFit, CallFails, Outcomes
  <2>4. FitAfter(f)
    BY <1>1, <1>2, <1>4, <2>1, <2>2 DEF FitAfter, CallFails, FitInv, HandlesInv, TypeOK, Outcomes
  <2>5. QED
    BY <2>1, <2>3, <2>4, FitStepInv
<1>5. CASE CallProbed(f)
  <2>1. ModelStep /\ compiled_env' = compiled_env /\ compile_generation' = compile_generation
    BY <1>5 DEF CallProbed, ModelStep, modelVars
  <2>2. Live(compiled_env) /\ Live(ModelAfter(f)) /\ Live(RngAfter(f))
    BY <1>1, <1>5, ProbedLive DEF CallProbed
  <2>3. answer' = [answer EXCEPT ![f] = "answered"]
    BY <1>5, <2>2 DEF CallProbed, Answer
  <2>4. OnlyFit(f)
    BY <1>1, <1>2, <1>5, <2>3, AfterType DEF OnlyFit, CallProbed, Handles, Outcomes
  <2>5. FitAfter(f)
    <3>1. /\ model_ptr'[f] = ModelAfter(f) /\ rng_ptr'[f] = RngAfter(f)
          /\ native_generation'[f] = compile_generation /\ answer'[f] = "answered"
      BY <1>5, <2>3 DEF CallProbed, Handles, FitInv, TypeOK
    <3>2. RngAfter(f) # NIL
      BY <2>2 DEF Live, NIL
    <3>3. /\ model_ptr'[f] \in Handle \ {NULL} /\ rng_ptr'[f] \in Handle \ {NULL}
          /\ compiled_env' # NULL /\ Live(compiled_env')
      BY <1>1, <1>2, <2>1, <2>2, <3>1, AfterType
    <3>4. native_generation'[f] \in Nat /\ native_generation'[f] = compile_generation'
      BY <1>2, <2>1, <3>1
    <3>5. native_generation'[f] <= compile_generation'
      BY <3>4
    <3>6. answer'[f] \in Outcomes /\ answer'[f] # "failed"
      BY <3>1 DEF Outcomes
    <3>7. QED
      BY <3>1, <3>2, <3>3, <3>4, <3>5, <3>6, Zenon DEF FitAfter
  <2>6. QED
    BY <2>1, <2>4, <2>5, FitStepInv
<1>6. CASE CallRebuilt(f)
  <2>1. Compiles(FALSE, compile_standalone)
    BY <1>6 DEF CallRebuilt
  <2>2. ModelStep
    <3>1. compile_standalone \in BOOLEAN
      BY DEF FitInv, TypeOK
    <3>2. QED
      BY <2>1, <3>1 DEF ModelStep
  <2>3. compiled_env' \in Handle /\ Live(compiled_env') /\ compile_generation' \in Nat
    <3>1. compile_standalone \in BOOLEAN /\ TypeOK
      BY DEF FitInv, TypeOK
    <3>2. /\ compiled_env' \in Handle /\ Live(compiled_env')
          /\ compile_generation' \in 1..MaxGeneration
      BY <2>1, <3>1, CompilesType, Zenon
    <3>3. QED
      BY <3>2
  <2>4. answer' = [answer EXCEPT ![f] = "answered"]
    BY <1>6, <2>3 DEF CallRebuilt, Answer
  <2>5. OnlyFit(f)
    BY <1>6, <2>3, <2>4 DEF OnlyFit, CallRebuilt, Handles, Outcomes
  <2>6. FitAfter(f)
    <3>1. /\ model_ptr'[f] = compiled_env' /\ rng_ptr'[f] = compiled_env'
          /\ native_generation'[f] = compile_generation' /\ answer'[f] = "answered"
      BY <1>6, <2>4 DEF CallRebuilt, Handles, FitInv, TypeOK
    <3>2. QED
      BY <2>3, <3>1 DEF FitAfter, Outcomes, Live, NULL, NIL
  <2>7. QED
    BY <2>2, <2>5, <2>6, FitStepInv
<1>7. CASE CallNotCompiled(f)
  <2>1. CompileThrows /\ ModelStep /\ compiled_env' = compiled_env
    BY <1>7 DEF CallNotCompiled, CompileThrows, ModelStep
  <2>2. compile_generation' = compile_generation + 1
    BY <2>1, ThrowsType DEF FitInv
  <2>3. ~Live(ModelAfter(f))
    BY <1>7 DEF CallNotCompiled, Invalid, Valid, ModelAfter, FitInv, HandlesInv
  <2>4. OnlyFit(f)
    <3>1. native_generation' = [native_generation EXCEPT ![f] = native_generation[f]]
      BY <1>7 DEF CallNotCompiled, FitInv, TypeOK
    <3>2. QED
      BY <1>1, <1>2, <1>7, <3>1, AfterType DEF OnlyFit, CallNotCompiled, Handles, Outcomes
  <2>5. FitAfter(f)
    <3>1. /\ model_ptr'[f] = ModelAfter(f) /\ rng_ptr'[f] = RngAfter(f)
          /\ native_generation'[f] = native_generation[f] /\ answer'[f] = "not compiled"
      BY <1>7 DEF CallNotCompiled, Handles, FitInv, TypeOK
    <3>2. native_generation[f] <= compile_generation'
      BY <1>2, <2>2 DEF NA
    <3>3. QED
      BY <1>1, <1>2, <2>1, <2>3, <3>1, <3>2, AfterType DEF FitAfter, Outcomes
  <2>6. QED
    BY <2>1, <2>4, <2>5, FitStepInv
<1>8. QED
  BY <1>3, <1>4, <1>5, <1>6, <1>7 DEF Call

LEMMA FitInvStep ==
  ASSUME FitInv, [Next]_vars
  PROVE  FitInv'
<1>1. CASE Compile \/ NewFitFails
  <2>1. ModelStep /\ UNCHANGED fitVars /\ UNCHANGED exposed /\ UNCHANGED restores
    BY <1>1 DEF Compile, NewFitFails, ModelStep
  <2>2. QED
    BY <2>1, ModelStepInv DEF FitInv, TypeOK
<1>2. CASE Expose
  BY <1>2, ExposeInv
<1>3. CASE Restore
  BY <1>3, RestoreInv
<1>4. ASSUME NEW f \in Fits, NewFit(f) \/ Call(f) PROVE FitInv'
  BY <1>4, NewFitInv, CallInv
<1>5. CASE UNCHANGED vars
  <2>1. ModelStep /\ UNCHANGED fitVars /\ UNCHANGED exposed /\ UNCHANGED restores
    BY <1>5 DEF vars, ModelStep
  <2>2. QED
    BY <2>1, ModelStepInv DEF FitInv, TypeOK
<1>6. QED
  BY <1>1, <1>2, <1>3, <1>4, <1>5 DEF Next
-----------------------------------------------------------------------------
(* The theorems.                                                           *)

\* The handles, generations and outcomes keep their types, and no fit is
\* ahead of its model (R/stanfit-zzz-base.R, R/stanmodel-zzz-base.R).
THEOREM FitInvariant == Spec => []FitInv
<1>1. QED
  BY FitInvInit, FitInvStep, PTL DEF Spec

THEOREM TypeCorrect == Spec => []TypeOK
<1>1. FitInv => TypeOK
  BY DEF FitInv
<1>2. QED
  BY <1>1, FitInvariant, PTL

\* ensure_native() may return without a look at the model when the
\* generations agree and the fit's own pointer has survived.
THEOREM FastPathTheorem == Spec => []FastPathSafe
<1>1. FitInv => FastPathSafe
  BY FastPathLive DEF FastPathSafe
<1>2. QED
  BY <1>1, FitInvariant, PTL

\* The only fits that a restore breaks for good are those never used and
\* those whose model was compiled, or failed to, since their last use.
THEOREM UsedFitsTheorem == Spec => []UsedFitsRecover
<1>1. FitInv => UsedFitsRecover
  BY DEF FitInv
<1>2. QED
  BY <1>1, FitInvariant, PTL

LEMMA NewGenerationStep ==
  ASSUME FitInv, [Next]_vars, NEW f \in Fits
  PROVE  PointerWithGeneration(f)
<1> SUFFICES ASSUME native_generation[f] # NA,
                    native_generation'[f] # native_generation[f]
             PROVE  model_ptr'[f] = compiled_env'
  BY DEF PointerWithGeneration
<1>1. \E g \in Fits : CallProbed(g) \/ CallRebuilt(g)
  BY DEF Next, vars, fitVars, Compile, NewFitFails, Expose, Restore, RestoreHandles,
     NewFit, Call, CallAtOnce, CallFails, CallNotCompiled
<1>2. PICK g \in Fits : CallProbed(g) \/ CallRebuilt(g)
  BY <1>1
<1>3. g = f
  BY <1>2 DEF CallProbed, CallRebuilt, FitInv, TypeOK
<1>4. CASE CallProbed(f)
  <2>1. native_generation'[f] = compile_generation /\ model_ptr'[f] = ModelAfter(f)
    BY <1>4 DEF CallProbed, Handles, FitInv, TypeOK
  <2>2. Changed(f)
    BY <2>1 DEF Changed
  <2>3. QED
    BY <1>4, <2>1, <2>2 DEF ModelAfter, CallProbed, modelVars
<1>5. CASE CallRebuilt(f)
  BY <1>5 DEF CallRebuilt, Handles, FitInv, TypeOK
<1>6. QED
  BY <1>2, <1>3, <1>4, <1>5

\* A fit's generation only moves together with a new pointer from the
\* environment of that generation.
THEOREM NewGenerationTheorem == Spec => NewGenerationNewPointer
<1>1. FitInv /\ [Next]_vars => [\A f \in Fits : PointerWithGeneration(f)]_vars
  BY NewGenerationStep
<1>2. QED
  BY <1>1, FitInvariant, PTL DEF Spec, NewGenerationNewPointer

LEMMA LiveModelStep ==
  ASSUME FitInv, NEW f \in Fits
  PROVE  FailsOnlyRestored(f)
<1> SUFFICES ASSUME Call(f), answer'[f] = "failed" PROVE compiled_env = NIL
  BY DEF FailsOnlyRestored
<1>1. model_ptr[f] # NULL /\ f \in DOMAIN answer
  BY DEF Call, FitInv, TypeOK
<1>2. ~CallAtOnce(f)
  BY <1>1, FastPathLive DEF CallAtOnce, Answer
<1>3. ~CallProbed(f)
  BY <1>1, ProbedLive DEF CallProbed, Answer
<1>4. ~CallRebuilt(f)
  <2>1. SUFFICES ASSUME CallRebuilt(f) PROVE FALSE
    OBVIOUS
  <2>2. Compiles(FALSE, compile_standalone) /\ compile_standalone \in BOOLEAN /\ TypeOK
    BY <2>1 DEF CallRebuilt, FitInv, TypeOK
  <2>3. Live(compiled_env')
    BY <2>2, CompilesType, Zenon
  <2>4. QED
    BY <1>1, <2>1, <2>3 DEF CallRebuilt, Answer
<1>5. ~CallNotCompiled(f)
  BY <1>1 DEF CallNotCompiled
<1>6. CallFails(f)
  BY <1>2, <1>3, <1>4, <1>5 DEF Call
<1>7. QED
  BY <1>6 DEF CallFails, InitializeFails

\* While the model's functions are there every native method answers.
THEOREM LiveModelTheorem == Spec => LiveModelAnswers
<1>1. FitInv => [\A f \in Fits : FailsOnlyRestored(f)]_vars
  BY LiveModelStep
<1>2. QED
  BY <1>1, FitInvariant, PTL DEF Spec, LiveModelAnswers
=============================================================================
