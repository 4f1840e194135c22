----------------------------- MODULE StanliModel -----------------------------
(***************************************************************************)
(* A model of the stanli backend (src/stanli_model.cpp): its construction, *)
(* which finds the columns of write_array() by evaluating it at probe      *)
(* points, and its evaluation by several threads, each of which leases an  *)
(* executor from a pool (src/stanli/runtime/src/executor_pool.cpp) for the *)
(* length of one call.                                                     *)
(*                                                                         *)
(* An executor is its memory: the point last written into its parameters.  *)
(* A sweep overwrites every value with those of the parameters it finds,   *)
(* and clears the adjoints before it goes back (executor.cpp:653), so that *)
(* what an earlier call left of these is not part of the model.            *)
(* Taking an executor from the free list, cloning the prototype, writing   *)
(* the parameters, the sweep and giving the executor back are the steps    *)
(* between which other threads run.                                        *)
(***************************************************************************)
EXTENDS Naturals, Sequences, FiniteSets

CONSTANTS
  Threads,
  Points,       \* values of the unconstrained parameters
  WrongSize,    \* a parameter vector of the wrong length
  Columns,      \* the columns one run of generate_quantities writes, in order
  NumParams,    \* how many of them are parameters,
  NumTParams,   \* and how many transformed parameters
  ProbeStops,   \* how many columns a probe may have written when it throws
  Flags         \* what write_array() is asked for: <<include_tparams, include_gqs>>

ASSUME StanliAssumption ==
  /\ IsFiniteSet(Threads)
  /\ WrongSize \notin Points /\ "blank" \notin Points
  /\ Columns \in Seq(STRING)
  /\ NumParams \in Nat /\ NumTParams \in Nat
  /\ NumParams + NumTParams <= Len(Columns)
  /\ ProbeStops \subseteq 0..Len(Columns)
  /\ Flags \subseteq BOOLEAN \X BOOLEAN

Pools == {"pool_", "wa_pool_"}

VARIABLES
  write_array,  \* what the compiled model has: "interp", "graph" or "none"
  variant,      \* the probe being tried, 0 to 3; 4 once the model is built
  cols_,        \* columns the interpreter has discovered
  n_tp_start_,  \* where the transformed parameters begin in cols_
  n_gq_start_,  \* where the generated quantities begin in cols_
  torn,         \* a probe threw after its first column (not in the code)
  columns_,     \* the columns of the model
  pc,           \* where each thread is in its call
  call,         \* its call
  held,         \* the executor it holds, 0 for none
  reply,        \* what it is about to return
  free_,        \* free list of each pool
  arena         \* memory of the executors of each pool

buildVars == <<write_array, variant, cols_, n_tp_start_, n_gq_start_, torn, columns_>>
poolVars  == <<free_, arena>>
callVars  == <<pc, call, held, reply>>
vars      == <<buildVars, callVars, poolVars>>

Density == [op : {"density"}, q : Points \cup {WrongSize}]
Rows    == [op : {"write_array"}, q : Points \cup {WrongSize}, flags : Flags]
AllCalls == Density \cup Rows
NoCall   == [op |-> "none"]

Blank == "blank"
Executor == Points \cup {Blank}
NewExecutor == Blank

Init ==
  /\ write_array \in {"interp", "graph", "none"}
  /\ variant = 0
  /\ cols_ = <<>>
  /\ n_tp_start_ = 0
  /\ n_gq_start_ = 0
  /\ torn = FALSE
  /\ columns_ = <<>>
  /\ pc = [t \in Threads |-> "idle"]
  /\ call = [t \in Threads |-> NoCall]
  /\ held = [t \in Threads |-> 0]
  /\ reply = [t \in Threads |-> NoCall]
  /\ free_ = [p \in Pools |-> <<>>]
  /\ arena = [p \in Pools |-> <<>>]
-----------------------------------------------------------------------------
(* The constructor: prepare_write_array() and WaInterp::eval().            *)

First(n) == SubSeq(Columns, 1, n)

\* What an evaluation that writes the first n columns does to the state of
\* the interpreter while have_cols_ is FALSE: the guards of the sections note
\* where they are (a section without one is empty), FnWriteParam appends a
\* column.
Discover(n) ==
  /\ cols_' = cols_ \o First(n)
  /\ n_tp_start_' = IF n >= NumParams THEN Len(cols_) + NumParams ELSE n_tp_start_
  /\ n_gq_start_' = IF n >= NumParams + NumTParams
                    THEN Len(cols_) + NumParams + NumTParams ELSE n_gq_start_

Probing == write_array = "interp" /\ variant < 3

\* The catch of the loop over the probe points: the model is out of support
\* there or its code throws, possibly after some columns were discovered.
ProbeThrows ==
  /\ Probing
  /\ \E n \in ProbeStops :
       /\ Discover(n)
       /\ torn' = (torn \/ n > 0)
  /\ variant' = variant + 1
  /\ UNCHANGED <<write_array, columns_, callVars, poolVars>>

ProbeSucceeds ==
  /\ Probing
  /\ Discover(Len(Columns))
  /\ columns_' = cols_'
  /\ variant' = 4
  /\ UNCHANGED <<write_array, torn, callVars, poolVars>>

\* No probe succeeded, or there is no write_array: the parameters alone, and
\* the interpreter goes unused.
NoWriteArray ==
  /\ \/ write_array = "interp" /\ variant = 3
     \/ write_array = "none" /\ variant = 0
  /\ write_array' = "none"
  /\ columns_' = First(NumParams)
  /\ cols_' = <<>>
  /\ n_tp_start_' = NumParams
  /\ n_gq_start_' = NumParams
  /\ variant' = 4
  /\ torn' = FALSE
  /\ UNCHANGED <<callVars, poolVars>>

GraphColumns ==
  /\ write_array = "graph" /\ variant = 0
  /\ columns_' = Columns
  /\ n_tp_start_' = NumParams
  /\ n_gq_start_' = NumParams + NumTParams
  /\ variant' = 4
  /\ UNCHANGED <<write_array, cols_, torn, callVars, poolVars>>

Constructed == variant = 4
-----------------------------------------------------------------------------
(* Calls.                                                                  *)

PoolOf(c) == IF c.op = "write_array" /\ write_array = "graph" THEN "wa_pool_" ELSE "pool_"

\* Fault: the second range starts where the transformed parameters do.
FaultySelected(row, c) ==
  SubSeq(row, 1, IF c.flags[1] THEN n_gq_start_ ELSE n_tp_start_)
    \o (IF c.flags[2] THEN SubSeq(row, n_tp_start_ + 1, Len(columns_)) ELSE <<>>)

\* selected_ranges(): of a row whose columns are those of columns_.
Selected(row, c) ==
  SubSeq(row, 1, IF c.flags[1] THEN n_gq_start_ ELSE n_tp_start_)
    \o (IF c.flags[2] THEN SubSeq(row, n_gq_start_ + 1, Len(columns_)) ELSE <<>>)

\* The values a row of write_array() holds: those of one evaluation.  Where
\* column_offsets_ goes beyond it, whatever lies there.
Row == IF write_array = "none" THEN First(NumParams) ELSE Columns
Copied(c) == Selected([i \in 1..Len(columns_) |-> IF i <= Len(Row) THEN Row[i] ELSE Blank], c)

Failed   == [op |-> "error"]
Rejected == [op |-> "-inf"]
ValueAt(q) == [op |-> "value", at |-> q]
RowAt(c, q) == [op |-> "row", at |-> q, names |-> Selected(columns_, c), values |-> Copied(c)]

Goto(t, from, to) == pc[t] = from /\ pc' = [pc EXCEPT ![t] = to]

Begin(t) ==
  /\ Constructed
  /\ Goto(t, "idle", "acquire")
  /\ \E c \in AllCalls : call' = [call EXCEPT ![t] = c]
  /\ UNCHANGED <<buildVars, held, reply, poolVars>>

\* write_array() checks the size first, density() when it has its lease.
RefuseSize(t) ==
  /\ Goto(t, "acquire", "return")
  /\ call[t].op = "write_array" /\ call[t].q = WrongSize
  /\ reply' = [reply EXCEPT ![t] = Failed]
  /\ UNCHANGED <<buildVars, call, held, poolVars>>

Acquiring(t) == ~(call[t].op = "write_array" /\ call[t].q = WrongSize)

MyPool(t) == PoolOf(call[t])
Mine(t)   == arena[MyPool(t)][held[t]]

\* Fault: the executor is used but stays in the list.
FaultyTakeFree(t) ==
  /\ Goto(t, "acquire", "load")
  /\ Acquiring(t)
  /\ LET s == free_[MyPool(t)] IN
       /\ s # <<>>
       /\ held' = [held EXCEPT ![t] = s[Len(s)]]
  /\ UNCHANGED <<buildVars, call, reply, poolVars>>

\* acquire(), under the mutex.
TakeFree(t) ==
  /\ Goto(t, "acquire", "load")
  /\ Acquiring(t)
  /\ LET s == free_[MyPool(t)] IN
       /\ s # <<>>
       /\ held' = [held EXCEPT ![t] = s[Len(s)]]
       /\ free_' = [free_ EXCEPT ![MyPool(t)] = SubSeq(s, 1, Len(s) - 1)]
  /\ UNCHANGED <<buildVars, call, reply, arena>>

NoneFree(t) ==
  /\ Goto(t, "acquire", "clone")
  /\ Acquiring(t)
  /\ free_[MyPool(t)] = <<>>
  /\ UNCHANGED <<buildVars, call, held, reply, poolVars>>

\* Fault: the new executor gets the number of the one after it.
FaultyClone(t) ==
  /\ Goto(t, "clone", "load")
  /\ arena' = [arena EXCEPT ![MyPool(t)] = Append(@, NewExecutor)]
  /\ held' = [held EXCEPT ![t] = Len(arena'[MyPool(t)]) + 1]
  /\ UNCHANGED <<buildVars, call, reply, free_>>

\* Without the mutex.
Clone(t) ==
  /\ Goto(t, "clone", "load")
  /\ arena' = [arena EXCEPT ![MyPool(t)] = Append(@, NewExecutor)]
  /\ held' = [held EXCEPT ![t] = Len(arena[MyPool(t)]) + 1]
  /\ UNCHANGED <<buildVars, call, reply, free_>>

\* Fault: the parameters are not written when the executor has been used.
FaultyLoad(t) ==
  /\ Goto(t, "load", "run")
  /\ call[t].q # WrongSize
  /\ arena' = [arena EXCEPT ![MyPool(t)][held[t]] = IF @ = Blank THEN call[t].q ELSE @]
  /\ UNCHANGED <<buildVars, call, held, reply, free_>>

Load(t) ==
  /\ Goto(t, "load", "run")
  /\ call[t].q # WrongSize
  /\ arena' = [arena EXCEPT ![MyPool(t)][held[t]] = call[t].q]
  /\ UNCHANGED <<buildVars, call, held, reply, free_>>

SizeThrows(t) ==
  /\ Goto(t, "load", "release")
  /\ call[t].q = WrongSize
  /\ reply' = [reply EXCEPT ![t] = Failed]
  /\ UNCHANGED <<buildVars, call, held, poolVars>>

\* The sweep and the reading of its result.
Forward(t) ==
  /\ Goto(t, "run", "release")
  /\ reply' = [reply EXCEPT ![t] =
                 IF call[t].op = "density" THEN ValueAt(Mine(t)) ELSE RowAt(call[t], Mine(t))]
  /\ UNCHANGED <<buildVars, call, held, poolVars>>

\* A kernel throws: density() answers minus infinity, write_array() lets the
\* exception out.
ForwardThrows(t) ==
  /\ Goto(t, "run", "release")
  /\ reply' = [reply EXCEPT ![t] = IF call[t].op = "density" THEN Rejected ELSE Failed]
  /\ UNCHANGED <<buildVars, call, held, poolVars>>

\* Fault: the lease is not ended when the call fails.
FaultyGiveBack(t) ==
  /\ Goto(t, "release", "return")
  /\ free_' = [free_ EXCEPT ![MyPool(t)] =
                 IF reply[t] = Failed THEN @ ELSE Append(@, held[t])]
  /\ held' = [held EXCEPT ![t] = 0]
  /\ UNCHANGED <<buildVars, call, reply, arena>>

\* ~Lease(), whichever way the call ends.
GiveBack(t) ==
  /\ Goto(t, "release", "return")
  /\ free_' = [free_ EXCEPT ![MyPool(t)] = Append(@, held[t])]
  /\ held' = [held EXCEPT ![t] = 0]
  /\ UNCHANGED <<buildVars, call, reply, arena>>

Return(t) ==
  /\ Goto(t, "return", "idle")
  /\ call' = [call EXCEPT ![t] = NoCall]
  /\ reply' = [reply EXCEPT ![t] = NoCall]
  /\ UNCHANGED <<buildVars, held, poolVars>>

Construct == ProbeThrows \/ ProbeSucceeds \/ NoWriteArray \/ GraphColumns

Evaluate(t) ==
  \/ RefuseSize(t) \/ TakeFree(t) \/ NoneFree(t) \/ Clone(t)
  \/ Load(t) \/ SizeThrows(t) \/ Forward(t) \/ ForwardThrows(t)
  \/ GiveBack(t) \/ Return(t)

Next == Construct \/ \E t \in Threads : Begin(t) \/ Evaluate(t)

\* A thread that has begun a call goes on with it; nobody has to begin one.
Safety == Init /\ [][Next]_vars
Spec == Safety /\ \A t \in Threads : WF_vars(Evaluate(t))
-----------------------------------------------------------------------------
(* Properties.                                                             *)

Holding == {"load", "run", "release"}
Replies == {NoCall, Failed, Rejected} \cup [op : {"value"}, at : Points \cup {Blank}]

\* The types of the state; an executor in a list or a lease exists.
TypeOK ==
  /\ write_array \in {"interp", "graph", "none"} /\ variant \in 0..4
  /\ n_tp_start_ \in Nat /\ n_gq_start_ \in Nat /\ torn \in BOOLEAN
  /\ cols_ \in Seq(STRING) /\ columns_ \in Seq(STRING)
  /\ call \in [Threads -> AllCalls \cup {NoCall}]
  /\ pc \in [Threads -> {"idle", "acquire", "clone", "return"} \cup Holding]
  /\ arena \in [Pools -> Seq(Executor)]
  /\ free_ \in [Pools -> Seq(Nat \ {0})]
  /\ \A p \in Pools : \A i \in 1..Len(free_[p]) : free_[p][i] \in DOMAIN arena[p]
  /\ held \in [Threads -> Nat]
  /\ \A t \in Threads :
       /\ call[t] = NoCall <=> pc[t] = "idle"
       /\ IF pc[t] \in Holding THEN held[t] \in DOMAIN arena[MyPool(t)] ELSE held[t] = 0
       /\ reply[t] \in Replies \/ reply[t].op = "row"

UsersOf(p) == {t \in Threads : pc[t] \in Holding /\ MyPool(t) = p}

\* Two calls never use one executor ("two concurrent sweeps on one executor
\* produce wrong numbers rather than a crash"), and on no path, exceptions
\* included, is one lost: "a clone is either in the free list or in exactly one
\* lease" (executor_pool.hpp).
ExclusiveLease ==
  \A p \in Pools :
    /\ \A i, j \in 1..Len(free_[p]) : free_[p][i] = free_[p][j] => i = j
    /\ \A t, u \in UsersOf(p) : held[t] = held[u] => t = u
    /\ \A t \in UsersOf(p), i \in 1..Len(free_[p]) : free_[p][i] # held[t]
    /\ \A n \in DOMAIN arena[p] :
         (\E i \in 1..Len(free_[p]) : free_[p][i] = n) \/ (\E t \in UsersOf(p) : held[t] = n)

\* "Two threads arriving at an empty pool both clone, and both clones are
\* kept": the pool still never has more clones than there are threads.
ClonesBounded == \A p \in Pools : Len(arena[p]) <= Cardinality(Threads)

\* What the flags of a call select from the columns of the model.
Wanted(c) ==
  LET Section(from, to) == SubSeq(Columns, from + 1, to) IN
  IF write_array = "none" THEN First(NumParams)
  ELSE First(NumParams)
    \o (IF c.flags[1] THEN Section(NumParams, NumParams + NumTParams) ELSE <<>>)
    \o (IF c.flags[2] THEN Section(NumParams + NumTParams, Len(Columns)) ELSE <<>>)

RowIsWanted(t) ==
  pc[t] \in {"release", "return"} /\ reply[t].op = "row"
    => reply[t].names = Wanted(call[t]) /\ reply[t].values = Wanted(call[t])

\* "Columns are discovered on the first evaluation and fixed from then on"
\* (wa_interp.hpp): a row has the sections its caller asks for, and the names R
\* gives its columns are those of its values, however many probes threw.
RowsAreLabelled == \A t \in Threads : RowIsWanted(t)

\* So they are, unless a probe threw after its first column.
RowsLabelledUnlessTorn == torn \/ RowsAreLabelled

Visible(r) == IF r.op = "row" THEN [op |-> "row", at |-> r.at] ELSE r

AnswersTo(c) ==
  IF c.q = WrongSize THEN {Failed}
  ELSE IF c.op = "density" THEN {ValueAt(c.q), Rejected}
  ELSE {[op |-> "row", at |-> c.q], Failed}

Isolated == INSTANCE ModelCalls WITH
  Calls <- AllCalls,
  Answers <- [c \in AllCalls |-> AnswersTo(c)],
  asked <- call,
  answer <- [t \in Threads |-> IF pc[t] = "return" THEN Visible(reply[t]) ELSE NoCall]

\* Threads that share the executors cannot be told from threads that do not:
\* each call is answered for its own point, whatever the one before it left in
\* the executor, and every call is answered.
CallsAreIsolated == Isolated!Spec
=============================================================================
