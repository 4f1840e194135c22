------------------------- MODULE SampleChainsProofs -------------------------
(***************************************************************************)
(* The writers of $sample() for every number of chains and columns, every  *)
(* number of iterations and every thinning.                                *)
(*                                                                         *)
(* A writer has to be followed through both phases: the rows it holds are  *)
(* those of a saved warmup and as many as thinning has kept so far         *)
(* (RowsSoFar), which is never more than saved_rows() of all of them       *)
(* because that number grows with the iterations (the lemmas on it).  That *)
(* a chain without draws is noticed needs to know which chains have their  *)
(* names, and that no chain moves once the R thread has gone on.  That the *)
(* arrays hold the draws needs which draw each row is (RowsInv), for which *)
(* saved_rows() must count the multiples of the thinning, and how far the  *)
(* copying has come (CopyInv).                                             *)
(***************************************************************************)
EXTENDS SampleChains, FiniteSetTheorems, FunctionTheorems, TLAPS

Draws == [chain : Chains, phase : {"warmup", "sampling"}, iter : Nat]

Writers == [named : BOOLEAN, rows : Seq(Draws), room : Nat, released : BOOLEAN]

Types == TypeOK /\ writer \in [Chains -> Writers]

Room ==
  \A c \in Chains :
    writer[c].room = IF writer[c].named THEN expected_rows ELSE 0

RowsSoFar ==
  \A c \in Chains :
    /\ phase[c] = "start" => NRows(writer[c]) = 0 /\ m[c] = 0
    /\ phase[c] = "warmup" =>
         NRows(writer[c]) = IF config.save_warmup THEN Saved(m[c]) ELSE 0
    /\ phase[c] = "sampling" => NRows(writer[c]) = warmup_rows + Saved(m[c])
    /\ phase[c] = "done" /\ writer[c].named => NRows(writer[c]) = expected_rows

\* A chain that has begun has its names, and one that has adapted its metric.
Begun ==
  /\ config.engine = "fixed_param" => ~config.save_warmup
  /\ \A c \in Chains :
       /\ NamesUpFront => writer[c].named
       /\ config.engine = "adapt" /\ phase[c] = "start" => ~writer[c].named
       /\ phase[c] \in {"warmup", "sampling"} => writer[c].named
       /\ has_metric[c] => config.engine = "adapt" /\ writer[c].named
       /\ config.engine = "adapt" /\ (phase[c] = "sampling" \/ (phase[c] = "done" /\ writer[c].named)) =>
            has_metric[c]

\* What the R thread knows of the chains once it has gone on.
Settled ==
  /\ Refused => \A c \in Chains : phase[c] = "start"
  /\ pc # "wait" => Refused \/ \A c \in Chains : phase[c] \in Ended
  /\ pc \in {"check", "copy"} \/ outcome = "draws" => \A c \in Chains : phase[c] = "done"
  /\ pc = "copy" \/ outcome = "draws" =>
       \A c, d \in Chains : writer[c].named = writer[d].named
  /\ pc = "finished" =>
       \/ outcome \in {"draws", "error"}
       \/ outcome = "no draws" /\ \E c \in Chains : phase[c] # "done"

SampleInv == Types /\ Room /\ RowsSoFar /\ Begun /\ Settled

\* Row k of chain c, counted from 1: thinning keeps every num_thin-th iteration.
Draw(c, k) ==
  IF k <= warmup_rows
  THEN [chain |-> c, phase |-> "warmup", iter |-> (k - 1) * config.num_thin]
  ELSE [chain |-> c, phase |-> "sampling", iter |-> (k - warmup_rows - 1) * config.num_thin]

RowsInv == \A c \in Chains : \A k \in 1..NRows(writer[c]) : writer[c].rows[k] = Draw(c, k)

\* An array has its size, and the rows from first on of the chains copied so far.
Whole(array, iterations, cols) ==
  /\ array = RArray(iterations, NumChains, Len(cols), array.data)
  /\ array.data = [x \in 0..RSize(iterations, NumChains, Len(cols)) - 1 |-> array.data[x]]

HoldsRows(array, iterations, cols, first, chains) ==
  \A i \in 0..iterations - 1, v \in 0..Len(cols) - 1, c \in chains :
    RElement(array, i, c, v) = <<writer[c].rows[first + i + 1], ColNames[cols[v + 1] + 1]>>

Stacked(array, iterations, cols, first) ==
  /\ Whole(array, iterations, cols)
  /\ HoldsRows(array, iterations, cols, first, 0..copied - 1)

CopyInv ==
  /\ pc \in {"wait", "check"} => copied = 0
  /\ \A c \in Chains : c >= copied => ~writer[c].released
  /\ pc = "copy" \/ outcome = "draws" =>
       /\ Stacked(arrays.samples, n_post, param_cols, n_warmup)
       /\ Stacked(arrays.diagnostics, n_post, diag_cols, n_warmup)
       /\ Stacked(arrays.warmup_samples, n_warmup, param_cols, 0)
       /\ Stacked(arrays.warmup_diagnostics, n_warmup, diag_cols, 0)
  /\ outcome = "draws" => pc = "finished" /\ (copied = NumChains \/ n_iterations = 0)
-----------------------------------------------------------------------------
(* saved_rows()                                                            *)

LEMMA SavedMonotone ==
  ASSUME NEW t \in Nat \ {0}, NEW n \in Nat, NEW k \in Nat, k <= n
  PROVE  SavedRows(t, k) <= SavedRows(t, n)
BY SMTT(30) DEF SavedRows

LEMMA SavedNext ==
  ASSUME NEW t \in Nat \ {0}, NEW n \in Nat
  PROVE  /\ SavedRows(t, n) \in Nat
         /\ SavedRows(t, n + 1) = SavedRows(t, n) + (IF n % t = 0 THEN 1 ELSE 0)
         /\ SavedRows(t, 0) = 0
BY SMTT(30) DEF SavedRows

\* The k-th multiple of num_thin, and which multiples are below n.
LEMMA Multiples ==
  ASSUME NEW t \in Nat \ {0}, NEW n \in Nat, NEW k \in Nat
  PROVE  /\ k * t \in Nat /\ (k * t) % t = 0 /\ (k * t) \div t = k
         /\ SavedRows(t, k * t) = k
         /\ k < SavedRows(t, n) <=> k * t < n
<1>1. k * t \in Nat /\ (k * t) \div t = k /\ (k * t) % t = 0
  BY SMTT(30)
<1>2. SavedRows(t, k * t) = k
  BY <1>1 DEF SavedRows
<1>3. PICK q, r : q = n \div t /\ r = n % t
  OBVIOUS
<1>4. q \in Nat /\ r \in 0..t-1 /\ n = r + t * q
  BY <1>3, SMTT(30)
<1>5. CASE k < q
  <2>1. k * t + t <= t * q
    BY <1>4, <1>5, SMTT(30)
  <2> QED BY <1>1, <1>3, <1>4, <1>5, <2>1, SMTT(30) DEF SavedRows
<1>6. CASE k = q
  BY <1>1, <1>3, <1>4, <1>6, SMTT(30) DEF SavedRows
<1>7. CASE k > q
  <2>1. t * q + t <= k * t
    BY <1>4, <1>7, SMTT(30)
  <2> QED BY <1>1, <1>3, <1>4, <1>7, <2>1, SMTT(30) DEF SavedRows
<1> QED BY <1>1, <1>2, <1>4, <1>5, <1>6, <1>7

LEMMA Divided ==
  ASSUME NEW t \in Nat \ {0}, NEW x \in Nat, x % t = 0
  PROVE  x \div t \in Nat /\ x = (x \div t) * t
BY SMTT(30)

\* saved_rows() counts the iterations that thinning keeps.
LEMMA KeptCount ==
  ASSUME NEW t \in Nat \ {0}, NEW n \in Nat
  PROVE  Cardinality({x \in 0..n - 1 : x % t = 0}) = SavedRows(t, n)
<1> DEFINE S == {x \in 0..n - 1 : x % t = 0}
<1>1. PICK s : s = SavedRows(t, n)
  OBVIOUS
<1>2. s \in Nat
  BY <1>1, SMTT(30) DEF SavedRows
<1> DEFINE f == [k \in 1..s |-> (k - 1) * t]
<1>3. ASSUME NEW k \in 1..s PROVE f[k] \in S
  <2>1. PICK j \in Nat : j = k - 1
    OBVIOUS
  <2>2. j < SavedRows(t, n)
    BY <1>1, <1>2, <2>1
  <2>3. j * t \in Nat /\ (j * t) % t = 0 /\ j * t < n
    BY <2>2, Multiples
  <2> QED BY <2>1, <2>3
<1>4. ASSUME NEW k \in 1..s, NEW l \in 1..s, f[k] = f[l] PROVE k = l
  <2>1. PICK i \in Nat, j \in Nat : i = k - 1 /\ j = l - 1
    OBVIOUS
  <2>2. i * t = j * t
    BY <1>4, <2>1
  <2>3. (i * t) \div t = i /\ (j * t) \div t = j
    BY Multiples
  <2>4. i = j
    BY <2>2, <2>3, Zenon
  <2> QED BY <2>1, <2>4
<1>5. ASSUME NEW x \in S PROVE \E k \in 1..s : f[k] = x
  <2>1. PICK j : j = x \div t
    OBVIOUS
  <2>2. j \in Nat /\ x = j * t /\ x < n
    BY <2>1, Divided
  <2>3. j < s
    BY <1>1, <2>2, Multiples
  <2>4. j + 1 \in 1..s /\ (j + 1) - 1 = j
    BY <1>2, <2>2, <2>3
  <2>5. f[j + 1] = j * t
    BY <2>4
  <2> QED BY <2>2, <2>4, <2>5
<1> HIDE DEF f, S
<1>6. f \in [1..s -> S]
  BY <1>3 DEF f
<1>7. f \in Bijection(1..s, S)
  BY <1>4, <1>5, <1>6, Fun_IsBij
<1>8. ExistsBijection(1..s, S)
  BY <1>7 DEF ExistsBijection
<1> QED BY <1>1, <1>2, <1>8, FS_CountingElements DEF S

\* The iterations that thinning keeps, one by one.
LEMMA KeptAt ==
  ASSUME NEW t \in Nat \ {0}, NEW n \in Nat
  PROVE  KeptIterations(t, n) = [k \in 1..SavedRows(t, n) |-> (k - 1) * t]
<1> DEFINE S == {x \in 0..n - 1 : x % t = 0}
           Below(x) == {y \in S : y < x}
<1>1. Cardinality(S) = SavedRows(t, n)
  BY KeptCount
<1>2. ASSUME NEW x \in S PROVE Cardinality(Below(x)) = x \div t /\ x \in Nat /\ x = (x \div t) * t
  <2>1. x \in Nat /\ x \div t \in Nat /\ x = (x \div t) * t
    BY Divided
  <2>2. Below(x) = {y \in 0..x - 1 : y % t = 0}
    BY <2>1
  <2>3. SavedRows(t, x) = x \div t
    BY <1>2, <2>1 DEF SavedRows
  <2> QED BY <2>1, <2>2, <2>3, KeptCount
<1>3. ASSUME NEW k \in 1..SavedRows(t, n)
      PROVE  (CHOOSE x \in S : Cardinality(Below(x)) = k - 1) = (k - 1) * t
  <2>1. PICK j : j = k - 1
    OBVIOUS
  <2>2. j \in Nat /\ j < SavedRows(t, n)
    <3>1. SavedRows(t, n) \in Nat
      BY SMTT(30) DEF SavedRows
    <3> QED BY <2>1, <3>1
  <2>3. j * t \in S /\ (j * t) \div t = j
    BY <2>2, Multiples
  <2>4. Cardinality(Below(j * t)) = j
    BY <1>2, <2>3
  <2>5. \A x \in S : Cardinality(Below(x)) = j => x = j * t
    BY <1>2
  <2> HIDE DEF S, Below
  <2>6. (CHOOSE x \in S : Cardinality(Below(x)) = j) = j * t
    BY <2>3, <2>4, <2>5
  <2> QED BY <2>1, <2>6
<1>4. KeptIterations(t, n) = [k \in 1..SavedRows(t, n) |-> CHOOSE x \in S : Cardinality(Below(x)) = k - 1]
  BY <1>1, Zenon DEF KeptIterations, Ascending
<1> HIDE DEF S, Below
<1> QED BY <1>3, <1>4
-----------------------------------------------------------------------------
(* The counts of the call.                                                 *)

LEMMA Counts ==
  ASSUME config \in Config
  PROVE  /\ config.num_thin \in Nat \ {0}
         /\ config.num_warmup \in Nat /\ config.num_samples \in Nat
         /\ config.save_warmup \in BOOLEAN
         /\ config.engine \in Engines
         /\ warmup_rows \in Nat /\ expected_rows \in Nat
         /\ Saved(config.num_samples) \in Nat
         /\ expected_rows = warmup_rows + Saved(config.num_samples)
<1>1. /\ config.num_thin \in Nat \ {0}
      /\ config.num_warmup \in Nat /\ config.num_samples \in Nat
      /\ config.save_warmup \in BOOLEAN
      /\ config.engine \in Engines
  BY SampleAssumption DEF Config
<1>2. Saved(config.num_warmup) \in Nat /\ Saved(config.num_samples) \in Nat
  BY <1>1, SavedNext DEF Saved
<1>3. warmup_rows \in Nat
  BY <1>1, <1>2 DEF warmup_rows
<1> QED BY <1>1, <1>2, <1>3 DEF expected_rows

LEMMA FirstChain == 0 \in Chains /\ \A c \in Chains : c \in Nat
BY SampleAssumption DEF Chains

\* Appending a row to a writer that has room for it takes nothing else.
LEMMA Appended ==
  ASSUME NEW w \in Writers, NEW row \in Draws, NRows(w) < w.room
  PROVE  /\ AppendRow(w, row) \in Writers
         /\ NRows(AppendRow(w, row)) = NRows(w) + 1
         /\ AppendRow(w, row).room = w.room
         /\ AppendRow(w, row).named = w.named
<1>1. Append(w.rows, row) \in Seq(Draws) /\ Len(Append(w.rows, row)) = Len(w.rows) + 1
  BY DEF Writers
<1>2. ~(NRows(w) >= w.room)
  BY DEF Writers, NRows
<1> DEFINE r == Append(w.rows, row)
<1> HIDE DEF r
<1>3. AppendRow(w, row) = [w EXCEPT !.rows = r, !.room = w.room]
  BY <1>2 DEF AppendRow, r
<1> QED BY <1>1, <1>3 DEF Writers, NRows, r

\* What an iteration does to the writers: one of them gets at most one row, for
\* which there is room.
LEMMA IterateWrites ==
  ASSUME Types, NEW c \in Chains, NEW saving \in BOOLEAN, Iterate(c, saving),
         phase[c] \in {"warmup", "sampling"},
         saving /\ Keep(c) => NRows(writer[c]) < writer[c].room
  PROVE  /\ writer' \in [Chains -> Writers]
         /\ m' = [m EXCEPT ![c] = @ + 1]
         /\ \A d \in Chains : /\ writer'[d].named = writer[d].named
                              /\ writer'[d].room = writer[d].room
                              /\ d # c => writer'[d] = writer[d]
         /\ NRows(writer'[c]) = NRows(writer[c]) + (IF saving /\ Keep(c) THEN 1 ELSE 0)
<1>1. m' = [m EXCEPT ![c] = @ + 1]
  BY DEF Iterate
<1>2. writer[c] \in Writers /\ Row(c) \in Draws /\ NRows(writer[c]) \in Nat
  <2>1. m[c] \in Nat /\ writer[c] \in Writers
    BY DEF Types, TypeOK
  <2> QED BY <2>1 DEF Row, Draws, Writers, NRows
<1>3. CASE saving /\ Keep(c)
  <2>1. PICK w : w = AppendRow(writer[c], Row(c))
    OBVIOUS
  <2>2. /\ w \in Writers /\ NRows(w) = NRows(writer[c]) + 1
        /\ w.room = writer[c].room /\ w.named = writer[c].named
    BY <1>2, <1>3, <2>1, Appended
  <2>3. writer' = [writer EXCEPT ![c] = w]
    BY <1>3, <2>1 DEF Iterate
  <2>4. /\ writer' \in [Chains -> Writers] /\ writer'[c] = w
        /\ \A d \in Chains : d # c => writer'[d] = writer[d]
    BY <2>2, <2>3 DEF Types
  <2> QED BY <1>1, <1>3, <2>2, <2>4
<1>4. CASE ~(saving /\ Keep(c))
  <2>1. writer' = writer
    BY <1>4 DEF Iterate
  <2> QED BY <1>1, <1>2, <1>4, <2>1 DEF Types
<1> QED BY <1>3, <1>4
-----------------------------------------------------------------------------
(* The steps.                                                              *)

\* Naming an empty writer makes room for the rows that are expected.
LEMMA NamedWriter ==
  ASSUME expected_rows \in Nat, NEW w \in Writers, w.room \in {0, expected_rows}
  PROVE  /\ Named(w) \in Writers
         /\ Named(w).named = TRUE /\ Named(w).room = expected_rows
         /\ Named(w).rows = w.rows
<1>1. PICK n \in Nat : n = expected_rows
  OBVIOUS
<1>2. Named(w) = [w EXCEPT !.named = TRUE, !.room = IF n > 0 THEN n ELSE @]
  BY <1>1 DEF Named
<1>3. (IF n > 0 THEN n ELSE w.room) = n
  BY <1>1
<1>4. Named(w) = [w EXCEPT !.named = TRUE, !.room = n]
  BY <1>2, <1>3
<1> QED BY <1>1, <1>4 DEF Writers

LEMMA InitEstablishes == Init => SampleInv
<1> SUFFICES ASSUME Init PROVE SampleInv
  OBVIOUS
<1>1. /\ config \in Config /\ pc = "wait" /\ copied = 0 /\ outcome = "running"
      /\ phase \in [Chains -> {"start", "warmup", "sampling"} \cup Ended]
      /\ m \in [Chains -> Nat] /\ has_metric \in [Chains -> BOOLEAN]
  BY DEF Init
<1>2. expected_rows \in Nat
  BY <1>1, Counts
<1>3. /\ NewWriter \in Writers /\ NewWriter.named = FALSE /\ NewWriter.room = 0
      /\ NewWriter.rows = <<>>
  BY DEF NewWriter, Writers
<1>4. /\ Named(NewWriter) \in Writers /\ Named(NewWriter).named = TRUE
      /\ Named(NewWriter).room = expected_rows /\ Named(NewWriter).rows = <<>>
  BY <1>2, <1>3, NamedWriter
<1>5. \A c \in Chains : writer[c] = IF NamesUpFront THEN Named(NewWriter) ELSE NewWriter
  BY DEF Init
<1>6. /\ writer \in [Chains -> Writers]
      /\ \A c \in Chains : NRows(writer[c]) = 0 /\ (writer[c].named <=> NamesUpFront)
                           /\ writer[c].room = IF writer[c].named THEN expected_rows ELSE 0
  <2>1. writer \in [Chains -> Writers]
    BY <1>3, <1>4 DEF Init
  <2>2. CASE NamesUpFront
    BY <1>4, <1>5, <2>1, <2>2 DEF NRows
  <2>3. CASE ~NamesUpFront
    BY <1>3, <1>5, <2>1, <2>3 DEF NRows
  <2> QED BY <2>2, <2>3
<1>7. Types
  BY <1>1, <1>6, SampleAssumption DEF Types, TypeOK, Init, Writers
<1>8. Room /\ RowsSoFar
  BY <1>6 DEF Room, RowsSoFar, Init
<1>9. Begun
  BY <1>6 DEF Begun, Init, NamesUpFront
<1>10. Settled
  BY DEF Settled, Init
<1> QED BY <1>7, <1>8, <1>9, <1>10 DEF SampleInv

\* A chain moves only while the R thread waits for it.
LEMMA OnlyWhileWaiting ==
  ASSUME SampleInv, NEW c \in Chains, Chain(c)
  PROVE  pc = "wait" /\ outcome \notin {"draws"} /\ ~Refused
<1>1. phase[c] \notin Ended /\ ~Refused
  <2>1. CASE SkipChain(c)
    <3>1. PICK d \in Chains : phase[d] = "threw"
      BY <2>1 DEF SkipChain
    <3> QED BY <2>1, <3>1 DEF SkipChain, SampleInv, Settled, Ended
  <2>2. CASE ~SkipChain(c)
    <3>1. phase[c] \in {"start", "warmup", "sampling"}
      BY <2>2 DEF Chain, StartChain, StepsizeFails, WarmupIteration, EndWarmup, SampleIteration, EndChain, Throw
    <3>2. phase[c] = "start" => ~Refused
      BY <2>2 DEF Chain, StartChain, StepsizeFails, WarmupIteration, EndWarmup, SampleIteration, EndChain, Throw
    <3> QED BY <3>1, <3>2 DEF SampleInv, Settled, Ended
  <2> QED BY <2>1, <2>2
<1> QED BY <1>1 DEF SampleInv, Settled, Ended

LEMMA IterationPreserves ==
  ASSUME SampleInv, NEW c \in Chains, WarmupIteration(c) \/ SampleIteration(c)
  PROVE  SampleInv'
<1> DEFINE saving == IF phase[c] = "warmup" THEN config.save_warmup ELSE TRUE
<1>1. /\ phase[c] \in {"warmup", "sampling"}
      /\ phase[c] = "warmup" => m[c] < config.num_warmup
      /\ phase[c] = "sampling" => m[c] < config.num_samples
  BY DEF WarmupIteration, SampleIteration
<1>2. saving \in BOOLEAN /\ Iterate(c, saving)
  BY Counts DEF WarmupIteration, SampleIteration, SampleInv, Types, TypeOK
<1>3. /\ writer[c].room = expected_rows /\ writer[c] \in Writers
      /\ phase[c] = "warmup" => NRows(writer[c]) = IF config.save_warmup THEN Saved(m[c]) ELSE 0
      /\ phase[c] = "sampling" => NRows(writer[c]) = warmup_rows + Saved(m[c])
      /\ m[c] \in Nat
  BY <1>1 DEF SampleInv, Room, RowsSoFar, Begun, Types, TypeOK
<1>4. /\ config.num_thin \in Nat \ {0} /\ config.num_warmup \in Nat /\ config.num_samples \in Nat
      /\ config.save_warmup \in BOOLEAN /\ warmup_rows \in Nat
      /\ expected_rows = warmup_rows + Saved(config.num_samples)
      /\ Saved(config.num_samples) \in Nat
  BY Counts DEF SampleInv, Types, TypeOK
<1>5. /\ Saved(m[c]) \in Nat
      /\ Saved(m[c] + 1) = Saved(m[c]) + (IF Keep(c) THEN 1 ELSE 0)
      /\ m[c] < config.num_warmup => Saved(m[c] + 1) <= Saved(config.num_warmup)
      /\ m[c] < config.num_samples => Saved(m[c] + 1) <= Saved(config.num_samples)
  <2>1. PICK n \in Nat : n = m[c]
    BY <1>3
  <2>2. PICK t \in Nat \ {0}, w \in Nat, k \in Nat :
          t = config.num_thin /\ w = config.num_warmup /\ k = config.num_samples
    BY <1>4
  <2>3. SavedRows(t, n) \in Nat /\ SavedRows(t, n + 1) = SavedRows(t, n) + (IF n % t = 0 THEN 1 ELSE 0)
    BY SavedNext
  <2>4. /\ n < w => SavedRows(t, n + 1) <= SavedRows(t, w)
        /\ n < k => SavedRows(t, n + 1) <= SavedRows(t, k)
    BY SavedMonotone
  <2> QED BY <2>1, <2>2, <2>3, <2>4 DEF Saved, Keep
<1> HIDE DEF saving
<1>6. saving /\ Keep(c) => NRows(writer[c]) < writer[c].room
  <2>1. CASE phase[c] = "warmup"
    BY <1>1, <1>3, <1>4, <1>5, <2>1 DEF saving, warmup_rows
  <2>2. CASE phase[c] = "sampling"
    BY <1>1, <1>3, <1>4, <1>5, <2>2
  <2> QED BY <1>1, <2>1, <2>2
<1>7. /\ writer' \in [Chains -> Writers]
      /\ m' = [m EXCEPT ![c] = @ + 1]
      /\ \A d \in Chains : /\ writer'[d].named = writer[d].named
                           /\ writer'[d].room = writer[d].room
                           /\ d # c => writer'[d] = writer[d]
      /\ NRows(writer'[c]) = NRows(writer[c]) + (IF saving /\ Keep(c) THEN 1 ELSE 0)
  BY <1>1, <1>2, <1>6, IterateWrites DEF SampleInv
<1>8. UNCHANGED <<config, phase, has_metric, pc, copied, arrays, outcome>>
  BY <1>2 DEF Iterate, callVars
<1>9. /\ m' \in [Chains -> Nat] /\ m'[c] = m[c] + 1 /\ \A d \in Chains : d # c => m'[d] = m[d]
  <2>1. m \in [Chains -> Nat]
    BY DEF SampleInv, Types, TypeOK
  <2> QED BY <1>3, <1>7, <2>1
<1>10. Types'
  <2>1. TypeOK
    BY DEF SampleInv, Types
  <2>2. \A d \in Chains : writer'[d].room \in Nat /\ writer'[d].named \in BOOLEAN
    BY <1>7 DEF Writers
  <2>3. \A d \in Chains : /\ phase[d] = "warmup" => m'[d] <= config.num_warmup
                          /\ phase[d] = "sampling" => m'[d] <= config.num_samples
    <3>1. \A d \in Chains : /\ phase[d] = "warmup" => m[d] <= config.num_warmup
                            /\ phase[d] = "sampling" => m[d] <= config.num_samples
      BY <2>1 DEF TypeOK
    <3> QED BY <1>1, <1>3, <1>4, <1>9, <3>1
  <2> QED BY <1>7, <1>8, <1>9, <2>1, <2>2, <2>3 DEF Types, TypeOK
<1>11. Room'
  BY <1>7, <1>8 DEF SampleInv, Room, expected_rows, warmup_rows, Saved
<1>12. RowsSoFar'
  <2>1. \A d \in Chains : d # c => NRows(writer[d])' = NRows(writer[d])
    BY <1>7 DEF NRows
  <2>2. phase[c] = "warmup" => NRows(writer[c])' = IF config.save_warmup THEN Saved(m[c] + 1) ELSE 0
    <3> SUFFICES ASSUME phase[c] = "warmup"
                 PROVE  NRows(writer'[c]) = IF config.save_warmup THEN Saved(m[c] + 1) ELSE 0
      BY DEF NRows
    <3>1. saving = config.save_warmup
      BY DEF saving
    <3> QED BY <1>3, <1>4, <1>5, <1>7, <3>1
  <2>3. phase[c] = "sampling" => NRows(writer[c])' = warmup_rows + Saved(m[c] + 1)
    <3> SUFFICES ASSUME phase[c] = "sampling"
                 PROVE  NRows(writer'[c]) = warmup_rows + Saved(m[c] + 1)
      BY DEF NRows
    <3>1. saving = TRUE
      BY DEF saving
    <3> QED BY <1>3, <1>4, <1>5, <1>7, <3>1
  <2> QED BY <1>1, <1>7, <1>8, <1>9, <2>1, <2>2, <2>3 DEF SampleInv, RowsSoFar, expected_rows, warmup_rows, Saved
<1>13. Begun'
  BY <1>7, <1>8 DEF SampleInv, Begun, NamesUpFront
<1>14. Settled'
  BY <1>7, <1>8 DEF SampleInv, Settled, Refused
<1> QED BY <1>10, <1>11, <1>12, <1>13, <1>14 DEF SampleInv

LEMMA StartPreserves ==
  ASSUME SampleInv, NEW c \in Chains, StartChain(c), pc = "wait"
  PROVE  SampleInv'
<1>1. /\ phase[c] = "start" /\ ~Refused
      /\ UNCHANGED <<config, m, has_metric, pc, copied, arrays, outcome>>
  BY DEF StartChain, callVars
<1>2. /\ config.num_thin \in Nat \ {0} /\ config.num_warmup \in Nat /\ config.num_samples \in Nat
      /\ config.engine \in Engines /\ warmup_rows \in Nat /\ expected_rows \in Nat
  BY Counts DEF SampleInv, Types, TypeOK
<1>3. PICK p \in {"warmup", "sampling"} :
        /\ phase' = [phase EXCEPT ![c] = p]
        /\ p = "sampling" <=> config.engine = "fixed_param"
  BY DEF StartChain
<1>4. /\ writer' \in [Chains -> Writers]
      /\ \A d \in Chains \ {c} : writer'[d] = writer[d]
      /\ writer'[c].named /\ writer'[c].room = expected_rows /\ writer'[c].rows = writer[c].rows
  <2>1. writer[c] \in Writers /\ writer \in [Chains -> Writers]
    BY DEF SampleInv, Types
  <2>2. writer[c].room \in {0, expected_rows} /\ (writer[c].named => writer[c].room = expected_rows)
    BY DEF SampleInv, Room
  <2>3. CASE NamesUpFront
    BY <2>1, <2>2, <2>3 DEF StartChain, SampleInv, Begun
  <2>4. CASE ~NamesUpFront
    <3>1. PICK w : w = Named(writer[c])
      OBVIOUS
    <3>2. w \in Writers /\ w.named = TRUE /\ w.room = expected_rows /\ w.rows = writer[c].rows
      BY <1>2, <2>1, <2>2, <3>1, NamedWriter
    <3>3. writer' = [writer EXCEPT ![c] = w]
      BY <2>4, <3>1 DEF StartChain
    <3> QED BY <2>1, <3>2, <3>3
  <2> QED BY <2>3, <2>4
<1>5. /\ phase' \in [Chains -> {"start", "warmup", "sampling"} \cup Ended]
      /\ phase'[c] = p /\ \A d \in Chains \ {c} : phase'[d] = phase[d]
  BY <1>3 DEF SampleInv, Types, TypeOK
<1>6. NRows(writer[c]) = 0 /\ m[c] = 0
  BY <1>1 DEF SampleInv, RowsSoFar
<1>7. Types'
  <2>1. TypeOK
    BY DEF SampleInv, Types
  <2>2. \A d \in Chains : writer'[d].room \in Nat /\ writer'[d].named \in BOOLEAN
    BY <1>4 DEF Writers
  <2>3. \A d \in Chains : /\ phase'[d] = "warmup" => m[d] <= config.num_warmup
                          /\ phase'[d] = "sampling" => m[d] <= config.num_samples
    <3>1. \A d \in Chains : /\ phase[d] = "warmup" => m[d] <= config.num_warmup
                            /\ phase[d] = "sampling" => m[d] <= config.num_samples
      BY <2>1 DEF TypeOK
    <3> QED BY <1>2, <1>5, <1>6, <3>1
  <2> QED BY <1>1, <1>4, <1>5, <2>1, <2>2, <2>3 DEF Types, TypeOK
<1>8. Room'
  BY <1>1, <1>4 DEF SampleInv, Room, expected_rows, warmup_rows, Saved
<1>9. RowsSoFar'
  <2>1. NRows(writer[c])' = 0 /\ \A d \in Chains \ {c} : NRows(writer[d])' = NRows(writer[d])
    BY <1>4, <1>6 DEF NRows
  <2>2. Saved(m[c]) = 0 /\ (p = "sampling" => warmup_rows = 0)
    BY <1>2, <1>3, <1>6, SavedNext DEF Saved, warmup_rows, SampleInv, Begun
  <2> QED BY <1>1, <1>2, <1>4, <1>5, <1>6, <2>1, <2>2
          DEF SampleInv, RowsSoFar, expected_rows, warmup_rows, Saved
<1>10. Begun'
  BY <1>1, <1>3, <1>4, <1>5 DEF SampleInv, Begun, NamesUpFront
<1>11. Settled'
  BY <1>1, <1>3, <1>4, <1>5 DEF SampleInv, Settled, Refused
<1> QED BY <1>7, <1>8, <1>9, <1>10, <1>11 DEF SampleInv

\* The steps that leave the rows alone.
LEMMA PhasePreserves ==
  ASSUME SampleInv, NEW c \in Chains, pc = "wait", outcome # "draws", ~Refused,
         StepsizeFails(c) \/ SkipChain(c) \/ EndWarmup(c) \/ EndChain(c) \/ Throw(c)
  PROVE  SampleInv'
<1>1. UNCHANGED <<config, writer, pc, copied, arrays, outcome>>
  BY DEF StepsizeFails, SkipChain, EndWarmup, EndChain, Throw, callVars
<1>2. PICK p \in {"sampling"} \cup Ended : phase' = [phase EXCEPT ![c] = p]
  BY DEF StepsizeFails, SkipChain, EndWarmup, EndChain, Throw, Ended
<1>3. /\ phase \in [Chains -> {"start", "warmup", "sampling"} \cup Ended]
      /\ m \in [Chains -> Nat] /\ has_metric \in [Chains -> BOOLEAN]
      /\ writer \in [Chains -> Writers]
  BY DEF SampleInv, Types, TypeOK
<1>4. /\ phase' \in [Chains -> {"start", "warmup", "sampling"} \cup Ended]
      /\ phase'[c] = p /\ \A d \in Chains \ {c} : phase'[d] = phase[d]
  BY <1>2, <1>3
<1>5. \/ p \in Ended /\ m' = m /\ has_metric' = has_metric
      \/ /\ EndWarmup(c) /\ p = "sampling" /\ phase[c] = "warmup" /\ m[c] = config.num_warmup
         /\ m' = [m EXCEPT ![c] = 0]
         /\ has_metric' = [has_metric EXCEPT ![c] = config.engine = "adapt"]
  BY <1>2, <1>3, <1>4 DEF StepsizeFails, SkipChain, EndWarmup, EndChain, Throw, Ended
<1>6. /\ m' \in [Chains -> Nat] /\ \A d \in Chains \ {c} : m'[d] = m[d]
      /\ p = "sampling" => m'[c] = 0
  BY <1>3, <1>5 DEF Ended
<1>7. /\ has_metric' \in [Chains -> BOOLEAN]
      /\ \A d \in Chains \ {c} : has_metric'[d] <=> has_metric[d]
      /\ p = "sampling" => (has_metric'[c] <=> config.engine = "adapt")
      /\ p # "sampling" => (has_metric'[c] <=> has_metric[c])
  <2>1. (config.engine = "adapt") \in BOOLEAN
    OBVIOUS
  <2>2. CASE p \in Ended /\ has_metric' = has_metric
    BY <1>3, <2>2 DEF Ended
  <2>3. CASE p = "sampling" /\ has_metric' = [has_metric EXCEPT ![c] = config.engine = "adapt"]
    BY <1>3, <2>1, <2>3
  <2> QED BY <1>5, <2>2, <2>3
<1>8. /\ config.num_thin \in Nat \ {0} /\ config.num_warmup \in Nat /\ config.num_samples \in Nat
      /\ warmup_rows \in Nat /\ expected_rows = warmup_rows + Saved(config.num_samples)
  BY Counts DEF SampleInv, Types, TypeOK
<1>9. Types'
  <2>1. TypeOK
    BY DEF SampleInv, Types
  <2>2. \A d \in Chains : /\ phase'[d] = "warmup" => m'[d] <= config.num_warmup
                          /\ phase'[d] = "sampling" => m'[d] <= config.num_samples
    <3>1. \A d \in Chains : /\ phase[d] = "warmup" => m[d] <= config.num_warmup
                            /\ phase[d] = "sampling" => m[d] <= config.num_samples
      BY <2>1 DEF TypeOK
    <3> QED BY <1>4, <1>6, <1>8, <3>1 DEF Ended
  <2> QED BY <1>1, <1>3, <1>4, <1>6, <1>7, <2>1, <2>2 DEF Types, TypeOK
<1>10. Room'
  BY <1>1 DEF SampleInv, Room, expected_rows, warmup_rows, Saved
<1>11. RowsSoFar'
  <2>1. ASSUME p = "sampling" PROVE NRows(writer[c]) = warmup_rows + Saved(0)
    <3>1. Saved(0) = 0
      BY <1>8, SavedNext DEF Saved
    <3>2. NRows(writer[c]) = warmup_rows
      BY <1>5, <2>1 DEF SampleInv, RowsSoFar, warmup_rows, Ended
    <3> QED BY <1>8, <3>1, <3>2
  <2>2. ASSUME p = "done", writer[c].named PROVE NRows(writer[c]) = expected_rows
    <3>1. ~StepsizeFails(c) => EndChain(c)
      BY <1>2, <1>4, <1>3, <2>2 DEF SkipChain, EndWarmup, Throw
    <3>2. CASE EndChain(c)
      BY <1>8, <3>2 DEF EndChain, SampleInv, RowsSoFar
    <3>3. CASE StepsizeFails(c)
      BY <2>2, <3>3 DEF StepsizeFails, SampleInv, Begun, NamesUpFront
    <3> QED BY <3>1, <3>2, <3>3
  <2> QED BY <1>1, <1>4, <1>6, <2>1, <2>2
          DEF SampleInv, RowsSoFar, expected_rows, warmup_rows, Saved, NRows, Ended
<1>12. Begun'
  <2>1. p = "sampling" => writer[c].named
    BY <1>5 DEF SampleInv, Begun, Ended
  <2>2. p = "done" /\ config.engine = "adapt" /\ writer[c].named => has_metric[c]
    <3>1. SUFFICES ASSUME p = "done", config.engine = "adapt", writer[c].named PROVE has_metric[c]
      OBVIOUS
    <3>2. ~StepsizeFails(c) => EndChain(c)
      BY <1>2, <1>4, <1>3, <3>1 DEF SkipChain, EndWarmup, Throw
    <3>3. phase[c] = "sampling"
      BY <3>1, <3>2 DEF EndChain, StepsizeFails, SampleInv, Begun
    <3> QED BY <3>1, <3>3 DEF SampleInv, Begun
  <2> QED BY <1>1, <1>4, <1>7, <2>1, <2>2 DEF SampleInv, Begun, NamesUpFront, Ended
<1>13. Settled'
  BY <1>1, <1>4 DEF SampleInv, Settled, Refused
<1> QED BY <1>9, <1>10, <1>11, <1>12, <1>13 DEF SampleInv

\* What the R thread does before and after it copies.
LEMMA ThreadPreserves ==
  ASSUME SampleInv, WorkerFails \/ WorkerReturns \/ CheckDimensions \/ ReturnArrays
  PROVE  SampleInv'
<1>1. UNCHANGED <<config, phase, m, writer, has_metric, copied>>
  BY DEF WorkerFails, WorkerReturns, CheckDimensions, ReturnArrays, chainVars
<1>2. /\ pc' \in {"wait", "check", "copy", "finished"}
      /\ outcome' \in {"running", "draws", "no draws", "error"}
  BY DEF WorkerFails, WorkerReturns, CheckDimensions, ReturnArrays, SampleInv, Types, TypeOK
<1>3. Types'
  BY <1>1, <1>2 DEF SampleInv, Types, TypeOK
<1>4. Room' /\ RowsSoFar' /\ Begun'
  BY <1>1 DEF SampleInv, Room, RowsSoFar, Begun, NRows, NamesUpFront, expected_rows, warmup_rows, Saved
<1>5. Settled'
  <2>1. CASE WorkerFails
    <3>1. Refused => phase[0] = "start"
      BY FirstChain DEF SampleInv, Settled
    <3>2. outcome # "draws"
      BY <2>1, <3>1, FirstChain DEF WorkerFails, SampleInv, Settled
    <3>3. \E c \in Chains : phase[c] # "done"
      BY <2>1, <3>1, FirstChain DEF WorkerFails
    <3>4. /\ pc' = "finished" /\ outcome' \in {"error", "no draws"}
          /\ Refused \/ \A c \in Chains : phase[c] \in Ended
      BY <2>1 DEF WorkerFails
    <3> QED BY <1>1, <3>3, <3>4 DEF SampleInv, Settled, Refused
  <2>2. CASE WorkerReturns
    BY <1>1, <2>2 DEF WorkerReturns, SampleInv, Settled, Refused, Ended
  <2>3. CASE CheckDimensions
    <3>1. CASE SameDimensions
      <4>1. ASSUME NEW c \in Chains PROVE writer[c].named = writer[0].named
        <5>1. writer[c].named \in BOOLEAN /\ writer[0].named \in BOOLEAN
          BY FirstChain DEF SampleInv, Types, TypeOK
        <5>2. NCols(writer[c]) = NCols(writer[0])
          BY <3>1 DEF SameDimensions
        <5> QED BY <5>1, <5>2, SampleAssumption DEF NCols
      <4>2. pc' = "copy" /\ outcome' = outcome
        BY <2>3, <3>1 DEF CheckDimensions
      <4> QED BY <1>1, <2>3, <4>1, <4>2 DEF CheckDimensions, SampleInv, Settled, Refused
    <3>2. CASE ~SameDimensions
      BY <1>1, <2>3, <3>2 DEF CheckDimensions, SampleInv, Settled, Refused
    <3> QED BY <3>1, <3>2
  <2>4. CASE ReturnArrays
    BY <1>1, <2>4 DEF ReturnArrays, SampleInv, Settled, Refused
  <2> QED BY <2>1, <2>2, <2>3, <2>4
<1> QED BY <1>3, <1>4, <1>5 DEF SampleInv

LEMMA CopyPreserves ==
  ASSUME SampleInv, CopyChain
  PROVE  SampleInv'
<1>0. copied \in 0..NumChains /\ copied < NumChains /\ copied' = copied + 1 /\ NumChains \in Nat
  <2>1. copied \in 0..NumChains
    BY DEF SampleInv, Types, TypeOK
  <2>2. copied < NumChains /\ copied' = copied + 1
    BY DEF CopyChain
  <2> QED BY <2>1, <2>2, SampleAssumption
<1>1. UNCHANGED <<config, phase, m, has_metric, pc, outcome>> /\ copied' \in 0..NumChains
  <2>1. UNCHANGED <<config, phase, m, has_metric, pc, outcome>>
    BY DEF CopyChain
  <2> QED BY <1>0, <2>1
<1>2. copied \in Chains
  BY <1>0 DEF Chains
<1>3. /\ writer' \in [Chains -> Writers]
      /\ \A c \in Chains : /\ writer'[c].named = writer[c].named /\ writer'[c].room = writer[c].room
                           /\ writer'[c].rows = writer[c].rows
  <2>1. PICK w : w = Release(writer[copied])
    OBVIOUS
  <2>2. writer[copied] \in Writers /\ writer \in [Chains -> Writers]
    BY <1>2 DEF SampleInv, Types
  <2>3. /\ w \in Writers /\ w.named = writer[copied].named /\ w.room = writer[copied].room
        /\ w.rows = writer[copied].rows
    BY <2>1, <2>2 DEF Release, Writers
  <2>4. writer' = [writer EXCEPT ![copied] = w]
    BY <2>1 DEF CopyChain
  <2> QED BY <1>2, <2>2, <2>3, <2>4
<1>4. Types'
  <2>1. TypeOK
    BY DEF SampleInv, Types
  <2>2. \A c \in Chains : writer'[c].room \in Nat /\ writer'[c].named \in BOOLEAN
    BY <1>3 DEF Writers
  <2> QED BY <1>1, <1>3, <2>1, <2>2 DEF Types, TypeOK
<1>5. Room' /\ RowsSoFar' /\ Begun'
  BY <1>1, <1>3 DEF SampleInv, Room, RowsSoFar, Begun, NRows, NamesUpFront, expected_rows, warmup_rows, Saved
<1>6. Settled'
  BY <1>1, <1>3 DEF SampleInv, Settled, Refused
<1> QED BY <1>4, <1>5, <1>6 DEF SampleInv

LEMMA StepPreserves == SampleInv /\ [Next]_vars => SampleInv'
<1> SUFFICES ASSUME SampleInv, [Next]_vars PROVE SampleInv'
  OBVIOUS
<1>1. ASSUME NEW c \in Chains, Chain(c) PROVE SampleInv'
  <2>1. pc = "wait" /\ outcome # "draws" /\ ~Refused
    BY <1>1, OnlyWhileWaiting
  <2> QED BY <1>1, <2>1, StartPreserves, PhasePreserves, IterationPreserves DEF Chain
<1>2. CASE RThread
  BY <1>2, ThreadPreserves, CopyPreserves DEF RThread
<1>3. CASE Finished \/ UNCHANGED vars
  <2>1. UNCHANGED <<config, phase, m, writer, has_metric, pc, copied, outcome>>
    BY <1>3 DEF Finished, vars, chainVars, callVars
  <2> QED BY <2>1 DEF SampleInv, Types, TypeOK, Room, RowsSoFar, Begun, Settled, NRows, NamesUpFront,
              Refused, expected_rows, warmup_rows, Saved
<1> QED BY <1>1, <1>2, <1>3 DEF Next
-----------------------------------------------------------------------------
(* What the rows are.                                                      *)

LEMMA RowsInitially == Init => RowsInv
<1> SUFFICES ASSUME Init, NEW c \in Chains PROVE NRows(writer[c]) = 0
  BY DEF RowsInv
<1>1. RowsSoFar /\ phase[c] = "start"
  BY InitEstablishes DEF SampleInv, Init
<1> QED BY <1>1 DEF RowsSoFar

\* A step that appends nothing keeps the rows what they are.
LEMMA SameRows ==
  ASSUME RowsInv, config' = config, \A c \in Chains : writer'[c].rows = writer[c].rows
  PROVE  RowsInv'
<1>1. \A c \in Chains : NRows(writer[c])' = NRows(writer[c])
  BY DEF NRows
<1>2. ASSUME NEW c \in Chains, NEW k \in 1..NRows(writer[c]) PROVE Draw(c, k)' = Draw(c, k)
  BY DEF Draw, warmup_rows, Saved
<1> QED BY <1>1, <1>2 DEF RowsInv

\* The row an iteration appends is the next one that thinning keeps.
LEMMA NextRow ==
  ASSUME SampleInv, NEW c \in Chains, Keep(c),
         \/ phase[c] = "warmup" /\ m[c] < config.num_warmup /\ config.save_warmup
         \/ phase[c] = "sampling" /\ m[c] < config.num_samples
  PROVE  Row(c) = Draw(c, NRows(writer[c]) + 1)
<1>1. /\ config.num_thin \in Nat \ {0} /\ config.num_warmup \in Nat /\ config.num_samples \in Nat
      /\ warmup_rows \in Nat
  BY Counts DEF SampleInv, Types, TypeOK
<1>2. PICK t, n, w : t = config.num_thin /\ n = m[c] /\ w = config.num_warmup
  OBVIOUS
<1>3. t \in Nat \ {0} /\ n \in Nat /\ n % t = 0 /\ w \in Nat
  BY <1>1, <1>2 DEF Keep, SampleInv, Types, TypeOK
<1>4. PICK q : q = n \div t
  OBVIOUS
<1>5. q \in Nat /\ n = q * t /\ SavedRows(t, n) = q
  <2>1. q \in Nat /\ n = q * t
    BY <1>3, <1>4, Divided
  <2> QED BY <1>3, <2>1, Multiples
<1>6. CASE phase[c] = "warmup"
  <2>1. NRows(writer[c]) = q /\ warmup_rows = SavedRows(t, w)
    BY <1>2, <1>5, <1>6 DEF SampleInv, RowsSoFar, Saved, warmup_rows
  <2>2. q < SavedRows(t, w)
    <3>1. q * t < w
      BY <1>2, <1>5, <1>6
    <3> QED BY <1>3, <1>5, <3>1, Multiples
  <2>3. NRows(writer[c]) + 1 <= warmup_rows /\ (NRows(writer[c]) + 1) - 1 = q
    BY <1>1, <1>5, <2>1, <2>2
  <2> QED BY <1>2, <1>5, <1>6, <2>3 DEF Row, Draw
<1>7. CASE phase[c] = "sampling"
  <2>1. NRows(writer[c]) = warmup_rows + q
    BY <1>2, <1>5, <1>7 DEF SampleInv, RowsSoFar, Saved
  <2>2. ~(NRows(writer[c]) + 1 <= warmup_rows) /\ (NRows(writer[c]) + 1) - warmup_rows - 1 = q
    BY <1>1, <1>5, <2>1
  <2> QED BY <1>2, <1>5, <1>7, <2>2 DEF Row, Draw
<1> QED BY <1>6, <1>7

LEMMA IterationRows ==
  ASSUME SampleInv, RowsInv, NEW c \in Chains, WarmupIteration(c) \/ SampleIteration(c)
  PROVE  RowsInv'
<1>1. config' = config
  BY DEF WarmupIteration, SampleIteration, Iterate
<1>2. \/ writer' = writer
      \/ /\ writer' = [writer EXCEPT ![c] = AppendRow(@, Row(c))]
         /\ Row(c) = Draw(c, NRows(writer[c]) + 1)
  BY NextRow DEF WarmupIteration, SampleIteration, Iterate
<1>3. CASE writer' = writer
  BY <1>1, <1>3, SameRows
<1>4. CASE /\ writer' = [writer EXCEPT ![c] = AppendRow(@, Row(c))]
           /\ Row(c) = Draw(c, NRows(writer[c]) + 1)
  <2>1. writer \in [Chains -> Writers] /\ m[c] \in Nat /\ phase[c] \in {"warmup", "sampling"}
    BY DEF SampleInv, Types, TypeOK, WarmupIteration, SampleIteration
  <2>2. PICK row : row = Row(c)
    OBVIOUS
  <2>3. row \in Draws
    BY <2>1, <2>2 DEF Row, Draws
  <2>4. PICK w : w = AppendRow(writer[c], row)
    OBVIOUS
  <2>5. w.rows = Append(writer[c].rows, row) /\ writer[c].rows \in Seq(Draws)
    <3>1. writer[c] = [named |-> writer[c].named, rows |-> writer[c].rows, room |-> writer[c].room,
                       released |-> writer[c].released] /\ writer[c].rows \in Seq(Draws)
      BY <2>1 DEF Writers
    <3> QED BY <2>4, <3>1 DEF AppendRow
  <2>6. writer'[c] = w /\ \A d \in Chains \ {c} : writer'[d] = writer[d]
    BY <1>4, <2>1, <2>2, <2>4
  <2>7. PICK s : s = writer[c].rows
    OBVIOUS
  <2>8. /\ Len(s) \in Nat /\ writer'[c].rows = Append(s, row) /\ Len(Append(s, row)) = Len(s) + 1
        /\ Append(s, row)[Len(s) + 1] = row /\ \A k \in 1..Len(s) : Append(s, row)[k] = s[k]
    BY <2>3, <2>5, <2>6, <2>7
  <2>9. ASSUME NEW d \in Chains, NEW k \in 1..Len(writer'[d].rows) PROVE writer'[d].rows[k] = Draw(d, k)
    <3>1. CASE d # c
      BY <2>6, <3>1 DEF RowsInv, NRows
    <3>2. CASE d = c /\ k = Len(s) + 1
      BY <1>4, <2>2, <2>7, <2>8, <3>2 DEF NRows
    <3>3. CASE d = c /\ k # Len(s) + 1
      <4>1. k \in 1..Len(s)
        BY <2>8, <3>3
      <4> QED BY <2>7, <2>8, <3>3, <4>1 DEF RowsInv, NRows
    <3> QED BY <3>1, <3>2, <3>3
  <2>10. ASSUME NEW d \in Chains, NEW k \in 1..Len(writer'[d].rows) PROVE Draw(d, k)' = Draw(d, k)
    BY <1>1 DEF Draw, warmup_rows, Saved
  <2> QED BY <2>9, <2>10 DEF RowsInv, NRows
<1> QED BY <1>2, <1>3, <1>4

\* Naming and releasing a writer leave its rows alone.
LEMMA OtherRows ==
  ASSUME SampleInv,
         \/ \E c \in Chains : \/ StartChain(c) \/ StepsizeFails(c) \/ SkipChain(c) \/ EndWarmup(c)
                              \/ EndChain(c) \/ Throw(c)
         \/ RThread
  PROVE  config' = config /\ \A c \in Chains : writer'[c].rows = writer[c].rows
<1>1. writer \in [Chains -> Writers]
  BY DEF SampleInv, Types
<1>2. ASSUME NEW c \in Chains, StartChain(c)
      PROVE  config' = config /\ \A d \in Chains : writer'[d].rows = writer[d].rows
  <2>1. expected_rows \in Nat
    BY Counts DEF SampleInv, Types, TypeOK
  <2>2. PICK w : w = Named(writer[c])
    OBVIOUS
  <2>3. writer[c].room \in {0, expected_rows} /\ writer[c] \in Writers
    BY <1>1 DEF SampleInv, Room
  <2>4. w.rows = writer[c].rows
    BY <2>1, <2>2, <2>3, NamedWriter
  <2>5. writer' = writer \/ writer' = [writer EXCEPT ![c] = w]
    BY <1>2, <2>2 DEF StartChain
  <2> QED BY <1>1, <1>2, <2>4, <2>5 DEF StartChain
<1>3. ASSUME NEW c \in Chains, StepsizeFails(c) \/ SkipChain(c) \/ EndWarmup(c) \/ EndChain(c) \/ Throw(c)
      PROVE  config' = config /\ \A d \in Chains : writer'[d].rows = writer[d].rows
  BY <1>3 DEF StepsizeFails, SkipChain, EndWarmup, EndChain, Throw
<1>4. CASE WorkerFails \/ WorkerReturns \/ CheckDimensions \/ ReturnArrays
  BY <1>4 DEF WorkerFails, WorkerReturns, CheckDimensions, ReturnArrays, chainVars
<1>5. CASE CopyChain
  <2>1. PICK w : w = Release(writer[copied])
    OBVIOUS
  <2>2. copied \in Chains
    <3>1. copied \in 0..NumChains /\ copied < NumChains
      BY <1>5 DEF SampleInv, Types, TypeOK, CopyChain
    <3> QED BY <3>1, SampleAssumption DEF Chains
  <2>3. w.rows = writer[copied].rows
    BY <1>1, <2>1, <2>2 DEF Release, Writers
  <2>4. writer' = [writer EXCEPT ![copied] = w]
    BY <1>5, <2>1 DEF CopyChain
  <2> QED BY <1>1, <1>5, <2>3, <2>4 DEF CopyChain
<1> QED BY <1>2, <1>3, <1>4, <1>5 DEF RThread

LEMMA RowsStepPreserves == SampleInv /\ RowsInv /\ [Next]_vars => RowsInv'
<1> SUFFICES ASSUME SampleInv, RowsInv, [Next]_vars PROVE RowsInv'
  OBVIOUS
<1>1. CASE Finished \/ UNCHANGED vars
  BY <1>1, SameRows DEF Finished, vars, chainVars
<1>2. CASE RThread
  BY <1>2, OtherRows, SameRows
<1>3. ASSUME NEW c \in Chains, Chain(c) PROVE RowsInv'
  <2>1. CASE WarmupIteration(c) \/ SampleIteration(c)
    BY <2>1, IterationRows
  <2>2. CASE StartChain(c) \/ StepsizeFails(c) \/ SkipChain(c) \/ EndWarmup(c) \/ EndChain(c) \/ Throw(c)
    BY <2>2, OtherRows, SameRows
  <2> QED BY <1>3, <2>1, <2>2 DEF Chain
<1> QED BY <1>1, <1>2, <1>3 DEF Next
-----------------------------------------------------------------------------
(* The copying loop.                                                       *)

\* A number made of a digit below p and one below q has these two digits.
LEMMA Compose ==
  ASSUME NEW p \in Nat \ {0}, NEW q \in Nat, NEW a \in 0..p - 1, NEW b \in 0..q - 1
  PROVE  /\ a + p * b \in 0..p * q - 1
         /\ (a + p * b) % p = a
         /\ (a + p * b) \div p = b
<1>1. p * b \in Nat /\ p * b + p <= p * q
  <2>1. p * (b + 1) <= p * q
    BY SMT
  <2>2. p * (b + 1) = p * b + p
    BY SMT
  <2> QED BY <2>1, <2>2, SMT
<1>2. a + p * b \in 0..p * q - 1
  BY <1>1
<1>3. (a + p * b) \div p = b
  BY SMTT(30)
<1>4. (a + p * b) % p = a
  BY SMTT(30)
<1> QED BY <1>2, <1>3, <1>4

\* Where element [i, c, v] is in the data of an array, and in which column.
LEMMA Position ==
  ASSUME NEW n \in Nat, NEW L \in Nat, NEW i \in 0..n - 1, NEW c \in Chains, NEW v \in 0..L - 1
  PROVE  /\ i + n * (c + NumChains * v) \in 0..RSize(n, NumChains, L) - 1
         /\ (i + n * (c + NumChains * v)) % n = i
         /\ (i + n * (c + NumChains * v)) \div n = c + NumChains * v
         /\ (c + NumChains * v) % NumChains = c /\ (c + NumChains * v) \div NumChains = v
<1>1. NumChains \in Nat \ {0} /\ c \in 0..NumChains - 1 /\ n \in Nat \ {0}
  BY SampleAssumption DEF Chains
<1>2. PICK y, q : y = c + NumChains * v /\ q = NumChains * L
  OBVIOUS
<1>3. y \in 0..q - 1 /\ y % NumChains = c /\ y \div NumChains = v
  BY <1>1, <1>2, Compose
<1>4. q \in Nat
  BY <1>1, <1>2
<1>5. i + n * y \in 0..n * q - 1 /\ (i + n * y) % n = i /\ (i + n * y) \div n = y
  BY <1>1, <1>3, <1>4, Compose
<1>6. n * q = RSize(n, NumChains, L)
  BY <1>1, <1>2, SMT DEF RSize
<1> QED BY <1>2, <1>3, <1>5, <1>6

\* Copying a chain writes its values at the indices of the chain and nothing else.
LEMMA FilledAt ==
  ASSUME NEW array, NEW n \in Nat, NEW cols, Len(cols) \in Nat, Whole(array, n, cols),
         NEW c \in Chains, NEW first
  PROVE  /\ Whole(Filled(array, cols, c, first), n, cols)
         /\ \A i \in 0..n - 1, v \in 0..Len(cols) - 1, d \in Chains :
              RElement(Filled(array, cols, c, first), i, d, v) =
                IF d = c THEN ValueAt(writer[c], cols[v + 1], first + i) ELSE RElement(array, i, d, v)
<1> DEFINE size == RSize(n, NumChains, Len(cols))
           Column(g) == ColumnIndex(cols, g, c)
           Value(x) ==
             IF \E g \in 0..Len(cols) - 1 : Column(g) = x \div n
             THEN ValueAt(writer[c], cols[(CHOOSE g \in 0..Len(cols) - 1 : Column(g) = x \div n) + 1],
                          first + (x % n))
             ELSE array.data[x]
<1>1. PICK data : data = array.data
  OBVIOUS
<1>2. /\ array = [dim |-> <<n, NumChains, Len(cols)>>, data |-> data]
      /\ data = [x \in 0..size - 1 |-> data[x]] /\ DOMAIN data = 0..size - 1
  BY <1>1 DEF Whole, RArray
<1>3. array.dim[1] = n
  BY <1>2
<1>4. PICK filled : filled = [x \in 0..size - 1 |-> Value(x)]
  OBVIOUS
<1>5. Filled(array, cols, c, first) = [array EXCEPT !.data = filled]
  BY <1>1, <1>2, <1>3, <1>4 DEF Filled
<1>6. Filled(array, cols, c, first) = [dim |-> <<n, NumChains, Len(cols)>>, data |-> filled]
  BY <1>2, <1>5
<1>7. Whole(Filled(array, cols, c, first), n, cols)
  BY <1>4, <1>6 DEF Whole, RArray
<1>8. ASSUME NEW i \in 0..n - 1, NEW v \in 0..Len(cols) - 1, NEW d \in Chains
      PROVE  RElement(Filled(array, cols, c, first), i, d, v) =
               IF d = c THEN ValueAt(writer[c], cols[v + 1], first + i) ELSE RElement(array, i, d, v)
  <2>1. PICK x : x = i + n * (d + NumChains * v)
    OBVIOUS
  <2>2. /\ x \in 0..size - 1 /\ x % n = i /\ x \div n = d + NumChains * v
        /\ (d + NumChains * v) % NumChains = d /\ (d + NumChains * v) \div NumChains = v
    BY <2>1, Position
  <2>3. /\ RElement(Filled(array, cols, c, first), i, d, v) = filled[x]
        /\ RElement(array, i, d, v) = array.data[x]
    BY <1>2, <1>6, <2>1 DEF RElement
  <2>4. ASSUME NEW g \in 0..Len(cols) - 1, Column(g) = x \div n PROVE d = c /\ g = v
    <3>1. Column(g) = c + NumChains * g
      BY SampleAssumption DEF ColumnIndex, Chains
    <3>2. (c + NumChains * g) % NumChains = c /\ (c + NumChains * g) \div NumChains = g
      BY SampleAssumption, Compose DEF Chains
    <3> QED BY <2>2, <2>4, <3>1, <3>2
  <2>5. CASE d = c
    <3>1. Column(v) = x \div n
      BY <2>2, <2>5, SampleAssumption DEF ColumnIndex, Chains
    <3>2. (CHOOSE g \in 0..Len(cols) - 1 : Column(g) = x \div n) = v
      BY <2>4, <3>1
    <3>3. Value(x) = ValueAt(writer[c], cols[v + 1], first + i)
      BY <2>2, <3>1, <3>2
    <3> QED BY <1>4, <2>2, <2>3, <2>5, <3>3
  <2>6. CASE d # c
    <3>1. Value(x) = array.data[x]
      BY <2>4, <2>6
    <3> QED BY <1>4, <2>2, <2>3, <2>6, <3>1
  <2> QED BY <2>5, <2>6
<1> QED BY <1>7, <1>8

LEMMA AscendingLength ==
  ASSUME NEW S, IsFiniteSet(S)
  PROVE  Len(Ascending(S)) \in Nat
<1>1. PICK n : n = Cardinality(S)
  OBVIOUS
<1>2. n \in Nat
  BY <1>1, FS_CardinalityType
<1> DEFINE at(k) == CHOOSE x \in S : Cardinality({y \in S : y < x}) = k - 1
<1>3. Ascending(S) = [k \in 1..n |-> at(k)]
  BY <1>1, Zenon DEF Ascending
<1> HIDE DEF at
<1>4. Len([k \in 1..n |-> at(k)]) = n
  BY <1>2
<1> QED BY <1>2, <1>3, <1>4

LEMMA Shape ==
  ASSUME SampleInv
  PROVE  /\ n_iterations \in Nat /\ n_warmup \in Nat /\ n_post \in Nat
         /\ n_iterations = n_warmup + n_post
         /\ Len(param_cols) \in Nat /\ Len(diag_cols) \in Nat
<1>1. n_iterations \in Nat /\ warmup_rows \in Nat
  <2>1. writer[0] \in Writers
    BY FirstChain DEF SampleInv, Types
  <2>2. Len(writer[0].rows) \in Nat
    BY <2>1 DEF Writers
  <2>3. config \in Config
    BY DEF SampleInv, Types, TypeOK
  <2> QED BY <2>2, <2>3, Counts DEF n_iterations, NRows
<1>2. NCols(writer[0]) \in Nat
  BY SampleAssumption DEF NCols
<1>3. IsFiniteSet(all_cols)
  <2>1. PICK n \in Nat : n = NCols(writer[0])
    BY <1>2
  <2> QED BY <2>1, FS_Interval DEF all_cols
<1>4. /\ IsFiniteSet({v \in all_cols : IsDiagnostic(v)})
      /\ IsFiniteSet({v \in all_cols : ~IsDiagnostic(v)})
  BY <1>3, FS_Subset
<1> QED BY <1>1, <1>4, AscendingLength DEF n_warmup, n_post, param_cols, diag_cols

LEMMA SameShape ==
  ASSUME config' = config, writer'[0].rows = writer[0].rows, writer'[0].named = writer[0].named
  PROVE  UNCHANGED <<n_iterations, n_warmup, n_post, param_cols, diag_cols>>
<1>1. UNCHANGED <<n_iterations, warmup_rows, all_cols>>
  BY DEF n_iterations, NRows, warmup_rows, Saved, all_cols, NCols
<1>2. UNCHANGED <<n_warmup, n_post>>
  BY <1>1 DEF n_warmup, n_post
<1> QED BY <1>1, <1>2 DEF param_cols, diag_cols, IsDiagnostic

\* Nothing is released while the chains run.
LEMMA ChainsReleaseNothing ==
  ASSUME SampleInv, NEW c \in Chains, Chain(c)
  PROVE  \A d \in Chains : writer'[d].released = writer[d].released
<1>1. writer \in [Chains -> Writers] /\ writer[c] \in Writers
  BY DEF SampleInv, Types
<1>2. PICK named, appended : named = Named(writer[c]) /\ appended = AppendRow(writer[c], Row(c))
  OBVIOUS
<1>3. named.released = writer[c].released /\ appended.released = writer[c].released
  BY <1>1, <1>2 DEF Named, AppendRow, Writers
<1>4. \/ writer' = writer
      \/ writer' = [writer EXCEPT ![c] = named]
      \/ writer' = [writer EXCEPT ![c] = appended]
  BY <1>2 DEF Chain, StartChain, StepsizeFails, SkipChain, WarmupIteration, SampleIteration, Iterate,
     EndWarmup, EndChain, Throw
<1> QED BY <1>1, <1>3, <1>4

LEMMA CopyInitially == Init => CopyInv
<1> SUFFICES ASSUME Init PROVE CopyInv
  OBVIOUS
<1>1. \A c \in Chains : ~writer[c].released
  BY DEF Init, Named, NewWriter
<1> QED BY <1>1 DEF Init, CopyInv

\* One array in one round.
LEMMA CopyOne ==
  ASSUME copied \in Chains, ~writer[copied].released,
         NEW array, NEW n \in Nat, NEW cols, Len(cols) \in Nat, NEW first,
         Stacked(array, n, cols, first)
  PROVE  /\ Whole(Filled(array, cols, copied, first), n, cols)
         /\ HoldsRows(Filled(array, cols, copied, first), n, cols, first, 0..copied)
<1>1. PICK filled : filled = Filled(array, cols, copied, first)
  OBVIOUS
<1>2. /\ Whole(filled, n, cols)
      /\ \A i \in 0..n - 1, v \in 0..Len(cols) - 1, d \in Chains :
           RElement(filled, i, d, v) =
             IF d = copied THEN ValueAt(writer[copied], cols[v + 1], first + i) ELSE RElement(array, i, d, v)
  BY <1>1, FilledAt DEF Stacked
<1>3. ASSUME NEW i \in 0..n - 1, NEW v \in 0..Len(cols) - 1, NEW d \in 0..copied
      PROVE  RElement(filled, i, d, v) = <<writer[d].rows[first + i + 1], ColNames[cols[v + 1] + 1]>>
  <2>1. d \in Chains /\ (d # copied => d \in 0..copied - 1)
    BY SampleAssumption DEF Chains
  <2>2. CASE d = copied
    BY <1>2, <2>1, <2>2 DEF ValueAt
  <2>3. CASE d # copied
    BY <1>2, <2>1, <2>3 DEF Stacked, HoldsRows
  <2> QED BY <2>2, <2>3
<1> QED BY <1>1, <1>2, <1>3 DEF HoldsRows

LEMMA CopyRound ==
  ASSUME SampleInv, CopyInv, CopyChain
  PROVE  CopyInv'
<1>1. copied \in Chains /\ copied' = copied + 1 /\ ~writer[copied].released /\ pc = "copy"
  <2>1. copied \in 0..NumChains /\ copied < NumChains
    BY DEF SampleInv, Types, TypeOK, CopyChain
  <2>2. copied \in Chains
    BY <2>1, SampleAssumption DEF Chains
  <2> QED BY <2>2 DEF CopyChain, CopyInv, Chains
<1>2. /\ config' = config /\ \A c \in Chains : writer'[c].rows = writer[c].rows
      /\ \A c \in Chains : writer'[c].named = writer[c].named
      /\ \A c \in Chains : c # copied => writer'[c] = writer[c]
  <2>1. config' = config /\ \A c \in Chains : writer'[c].rows = writer[c].rows
    BY OtherRows DEF RThread
  <2>2. PICK w : w = Release(writer[copied])
    OBVIOUS
  <2>3. writer' = [writer EXCEPT ![copied] = w] /\ writer \in [Chains -> Writers]
    BY <2>2 DEF CopyChain, SampleInv, Types
  <2>4. w.named = writer[copied].named
    BY <1>1, <2>2, <2>3 DEF Release, Writers
  <2> QED BY <1>1, <2>1, <2>3, <2>4
<1>3. UNCHANGED <<n_iterations, n_warmup, n_post, param_cols, diag_cols>>
  BY <1>2, FirstChain, SameShape
<1>4. UNCHANGED <<pc, outcome>> /\ outcome # "draws"
  BY <1>1 DEF CopyChain, CopyInv
<1>5. 0..copied' - 1 = 0..copied /\ 0..copied \subseteq Chains
  BY <1>1, SampleAssumption DEF Chains
<1> DEFINE After(array, n, cols, first) ==
             /\ Whole(array, n, cols)
             /\ \A i \in 0..n - 1, v \in 0..Len(cols) - 1, c \in 0..copied' - 1 :
                  RElement(array, i, c, v) =
                    <<writer'[c].rows[first + i + 1], ColNames[cols[v + 1] + 1]>>
<1>6. ASSUME NEW array, NEW n \in Nat, NEW cols, Len(cols) \in Nat, NEW first, Stacked(array, n, cols, first)
      PROVE  After(Filled(array, cols, copied, first), n, cols, first)
  <2>1. /\ Whole(Filled(array, cols, copied, first), n, cols)
        /\ HoldsRows(Filled(array, cols, copied, first), n, cols, first, 0..copied)
    BY <1>1, <1>6, CopyOne
  <2> QED BY <1>2, <1>5, <2>1 DEF HoldsRows
<1>7. /\ Stacked(arrays.samples, n_post, param_cols, n_warmup)'
      /\ Stacked(arrays.diagnostics, n_post, diag_cols, n_warmup)'
      /\ Stacked(arrays.warmup_samples, n_warmup, param_cols, 0)'
      /\ Stacked(arrays.warmup_diagnostics, n_warmup, diag_cols, 0)'
  <2>1. /\ arrays'.samples = Filled(arrays.samples, param_cols, copied, n_warmup)
        /\ arrays'.diagnostics = Filled(arrays.diagnostics, diag_cols, copied, n_warmup)
        /\ arrays'.warmup_samples = Filled(arrays.warmup_samples, param_cols, copied, 0)
        /\ arrays'.warmup_diagnostics = Filled(arrays.warmup_diagnostics, diag_cols, copied, 0)
    BY DEF CopyChain
  <2>2. /\ n_post \in Nat /\ n_warmup \in Nat /\ Len(param_cols) \in Nat /\ Len(diag_cols) \in Nat
    BY Shape
  <2> HIDE DEF After
  <2>3. /\ After(arrays'.samples, n_post, param_cols, n_warmup)
        /\ After(arrays'.diagnostics, n_post, diag_cols, n_warmup)
        /\ After(arrays'.warmup_samples, n_warmup, param_cols, 0)
        /\ After(arrays'.warmup_diagnostics, n_warmup, diag_cols, 0)
    BY <1>1, <1>6, <2>1, <2>2 DEF CopyInv
  <2> QED BY <1>3, <2>3 DEF After, Stacked, HoldsRows, Whole
<1>8. \A c \in Chains : c >= copied' => ~writer'[c].released
  BY <1>1, <1>2 DEF CopyInv, Chains
<1> QED BY <1>1, <1>4, <1>7, <1>8 DEF CopyInv

LEMMA ThreadCopies ==
  ASSUME SampleInv, CopyInv,
         WorkerFails \/ WorkerReturns \/ CheckDimensions \/ ReturnArrays \/ Finished \/ UNCHANGED vars
  PROVE  CopyInv'
<1>1. UNCHANGED <<config, writer, copied>>
  BY DEF WorkerFails, WorkerReturns, CheckDimensions, ReturnArrays, Finished, vars, chainVars, callVars
<1>2. UNCHANGED <<n_iterations, n_warmup, n_post, param_cols, diag_cols>>
  BY <1>1, SameShape
<1>3. \A c \in Chains : c >= copied' => ~writer'[c].released
  BY <1>1 DEF CopyInv
<1>4. ASSUME UNCHANGED arrays, pc' = "copy" \/ outcome' = "draws" => pc = "copy" \/ outcome = "draws",
             pc' \in {"wait", "check"} => pc \in {"wait", "check"},
             outcome' = "draws" => pc' = "finished" /\ (outcome = "draws" \/ copied = NumChains \/ n_iterations = 0)
      PROVE  CopyInv'
  BY <1>1, <1>2, <1>3, <1>4 DEF CopyInv, Stacked, HoldsRows, Whole
<1>5. CASE WorkerFails \/ WorkerReturns
  <2>1. pc = "wait" /\ pc' \in {"check", "finished"} /\ arrays' = arrays /\ outcome' # "draws"
    BY <1>5 DEF WorkerFails, WorkerReturns, CopyInv
  <2> QED BY <1>4, <2>1
<1>6. CASE ReturnArrays
  BY <1>4, <1>6 DEF ReturnArrays
<1>7. CASE Finished \/ UNCHANGED vars
  BY <1>4, <1>7 DEF Finished, vars, callVars, CopyInv
<1>8. CASE CheckDimensions /\ ~SameDimensions
  BY <1>4, <1>8 DEF CheckDimensions, CopyInv
<1>9. CASE CheckDimensions /\ SameDimensions
  <2>1. /\ pc' = "copy" /\ outcome' = outcome /\ copied = 0
        /\ arrays' = [samples     |-> Blank(n_post, Len(param_cols)),
                      diagnostics |-> Blank(n_post, Len(diag_cols)),
                      warmup_samples     |-> Blank(n_warmup, Len(param_cols)),
                      warmup_diagnostics |-> Blank(n_warmup, Len(diag_cols))]
    BY <1>9 DEF CheckDimensions, CopyInv
  <2>2. ASSUME NEW n, NEW cols PROVE Whole(Blank(n, Len(cols)), n, cols)
    BY DEF Whole, Blank, RArray
  <2>3. 0..copied' - 1 = {}
    BY <1>1, <2>1
  <2>4. /\ Stacked(arrays.samples, n_post, param_cols, n_warmup)'
        /\ Stacked(arrays.diagnostics, n_post, diag_cols, n_warmup)'
        /\ Stacked(arrays.warmup_samples, n_warmup, param_cols, 0)'
        /\ Stacked(arrays.warmup_diagnostics, n_warmup, diag_cols, 0)'
    <3>1. /\ Whole(arrays'.samples, n_post, param_cols) /\ Whole(arrays'.diagnostics, n_post, diag_cols)
          /\ Whole(arrays'.warmup_samples, n_warmup, param_cols)
          /\ Whole(arrays'.warmup_diagnostics, n_warmup, diag_cols)
      BY <2>1, <2>2
    <3>2. /\ HoldsRows(arrays.samples, n_post, param_cols, n_warmup, 0..copied - 1)'
          /\ HoldsRows(arrays.diagnostics, n_post, diag_cols, n_warmup, 0..copied - 1)'
          /\ HoldsRows(arrays.warmup_samples, n_warmup, param_cols, 0, 0..copied - 1)'
          /\ HoldsRows(arrays.warmup_diagnostics, n_warmup, diag_cols, 0, 0..copied - 1)'
      BY <2>3 DEF HoldsRows
    <3> QED BY <1>2, <3>1, <3>2 DEF Stacked, Whole
  <2>5. outcome # "draws"
    BY <1>9 DEF CheckDimensions, CopyInv
  <2> QED BY <1>3, <2>1, <2>4, <2>5 DEF CopyInv
<1> QED BY <1>5, <1>6, <1>7, <1>8, <1>9

LEMMA CopyStepPreserves == SampleInv /\ CopyInv /\ [Next]_vars => CopyInv'
<1> SUFFICES ASSUME SampleInv, CopyInv, [Next]_vars PROVE CopyInv'
  OBVIOUS
<1>1. ASSUME NEW c \in Chains, Chain(c) PROVE CopyInv'
  <2>1. pc = "wait" /\ outcome # "draws"
    BY <1>1, OnlyWhileWaiting
  <2>2. UNCHANGED <<pc, copied, outcome>>
    BY <1>1 DEF Chain, StartChain, StepsizeFails, SkipChain, WarmupIteration, SampleIteration, Iterate,
       EndWarmup, EndChain, Throw, callVars
  <2>3. \A d \in Chains : d >= copied' => ~writer'[d].released
    BY <1>1, <2>2, ChainsReleaseNothing DEF CopyInv
  <2> QED BY <2>1, <2>2, <2>3 DEF CopyInv
<1>2. CASE RThread
  BY <1>2, CopyRound, ThreadCopies DEF RThread
<1>3. CASE Finished \/ UNCHANGED vars
  BY <1>3, ThreadCopies
<1> QED BY <1>1, <1>2, <1>3 DEF Next
-----------------------------------------------------------------------------
LEMMA SampleInvariant == Spec => []SampleInv
BY InitEstablishes, StepPreserves, PTL DEF Spec

LEMMA RowsInvariant == Spec => []RowsInv
BY RowsInitially, RowsStepPreserves, SampleInvariant, PTL DEF Spec

LEMMA CopyInvariant == Spec => []CopyInv
BY CopyInitially, CopyStepPreserves, SampleInvariant, PTL DEF Spec

\* The types of the writers and of the call, for any number of chains and
\* iterations (run_sampling.hpp).
THEOREM TypeCorrect == Spec => []TypeOK
<1>1. SampleInv => TypeOK
  BY DEF SampleInv, Types
<1> QED BY <1>1, SampleInvariant, PTL

\* For every number of iterations and every thinning, what saved_rows() makes
\* room for is what the two phases write: no buffer grows, no row stays unused.
THEOREM PreallocationTheorem == Spec => []PreallocationExact
<1>1. SampleInv => PreallocationExact
  BY DEF SampleInv, Room, RowsSoFar, PreallocationExact
<1> QED BY <1>1, SampleInvariant, PTL

\* Whichever chains find no step size or throw, writer_chains_to_arrays() takes
\* no chain without draws for one with, nor hands on the metric of only some.
THEOREM LostChainTheorem == Spec => []LostChainIsAnError
<1>1. SampleInv => LostChainIsAnError
  <2> SUFFICES ASSUME SampleInv, pc = "finished"
               PROVE  /\ (\A c \in Chains : phase[c] = "done")
                         /\ (\E c, d \in Chains : writer[c].named /\ ~writer[d].named) => outcome = "error"
                      /\ outcome = "draws" /\ (\E c \in Chains : has_metric[c]) =>
                           \A c \in Chains : has_metric[c]
    BY DEF LostChainIsAnError
  <2>1. ASSUME \A c \in Chains : phase[c] = "done", outcome # "error" PROVE outcome = "draws"
    BY <2>1 DEF SampleInv, Settled
  <2>2. outcome = "draws" => \A c, d \in Chains : writer[c].named = writer[d].named
    BY DEF SampleInv, Settled
  <2>3. ASSUME outcome = "draws", NEW c \in Chains, has_metric[c], NEW d \in Chains PROVE has_metric[d]
    BY <2>2, <2>3 DEF SampleInv, Settled, Begun
  <2> QED BY <2>1, <2>2, <2>3
<1> QED BY <1>1, SampleInvariant, PTL

\* For any chains, columns, iterations and thinning, element [i, c, v] of each array
\* is variable v of the i-th iteration of its phase of chain c that thinning keeps
\* (run_sampling.hpp, stack_writer_chains.hpp: writer_chains_to_arrays()).
THEOREM ArraysTheorem == Spec => []ArraysHoldTheDraws
<1>1. SampleInv /\ RowsInv /\ CopyInv => ArraysHoldTheDraws
  <2> SUFFICES ASSUME SampleInv, RowsInv, CopyInv, outcome = "draws", NEW b \in Chains, writer[b].named
               PROVE  LET warmups == IF config.save_warmup THEN config.num_warmup ELSE 0
                      IN  /\ Holds(arrays.samples, "sampling", config.num_samples, param_cols)
                          /\ Holds(arrays.diagnostics, "sampling", config.num_samples, diag_cols)
                          /\ Holds(arrays.warmup_samples, "warmup", warmups, param_cols)
                          /\ Holds(arrays.warmup_diagnostics, "warmup", warmups, diag_cols)
    BY DEF ArraysHoldTheDraws
  <2>1. ASSUME NEW c \in Chains PROVE phase[c] = "done" /\ writer[c].named
    BY DEF SampleInv, Settled
  <2>2. ASSUME NEW c \in Chains PROVE NRows(writer[c]) = expected_rows
    BY <2>1 DEF SampleInv, RowsSoFar
  <2>3. PICK t, w, k : /\ t = config.num_thin /\ k = config.num_samples
                       /\ w = IF config.save_warmup THEN config.num_warmup ELSE 0
    OBVIOUS
  <2>4. /\ t \in Nat \ {0} /\ w \in Nat /\ k \in Nat
        /\ config.save_warmup \in BOOLEAN /\ warmup_rows \in Nat /\ Saved(config.num_samples) \in Nat
        /\ expected_rows = warmup_rows + Saved(config.num_samples)
    BY <2>3, Counts DEF SampleInv, Types, TypeOK
  <2>5. warmup_rows = SavedRows(t, w) /\ Saved(config.num_samples) = SavedRows(t, k)
    BY <2>3, <2>4, SavedNext DEF warmup_rows, Saved
  <2>6. /\ n_iterations = expected_rows
        /\ n_warmup = SavedRows(t, w) /\ n_post = SavedRows(t, k)
        /\ n_warmup \in Nat /\ n_post \in Nat
    BY <2>2, <2>4, <2>5, FirstChain DEF n_iterations, n_warmup, n_post
  <2>7. Len(param_cols) \in Nat /\ Len(diag_cols) \in Nat
    BY Shape
  \* All chains have been copied, or there is nothing to copy.
  <2>8. ASSUME NEW c \in Chains, n_iterations # 0 PROVE c \in 0..copied - 1
    BY <2>8 DEF CopyInv, Chains
  <2>9. ASSUME NEW c \in Chains, NEW r \in 1..n_warmup + n_post PROVE writer[c].rows[r] = Draw(c, r)
    BY <2>2, <2>4, <2>5, <2>6, <2>9 DEF RowsInv
  <2>10. ASSUME NEW array, NEW iterations \in Nat, NEW cols, Len(cols) \in Nat,
                NEW first \in Nat, NEW ph,
                Stacked(array, SavedRows(t, iterations), cols, first),
                first + SavedRows(t, iterations) <= n_warmup + n_post,
                \A c \in Chains, i \in 0..SavedRows(t, iterations) - 1 :
                  Draw(c, first + i + 1) = [chain |-> c, phase |-> ph, iter |-> i * t]
         PROVE  Holds(array, ph, iterations, cols)
    <3>1. PICK n : n = SavedRows(t, iterations)
      OBVIOUS
    <3>2. n \in Nat
      BY <2>4, <3>1, SavedNext
    <3>3. PICK kept : kept = KeptIterations(t, iterations)
      OBVIOUS
    <3>4. kept = [j \in 1..n |-> (j - 1) * t]
      BY <2>4, <3>1, <3>3, KeptAt
    <3>5. Len(kept) = n
      BY <3>2, <3>4
    <3>6. ASSUME NEW i \in 0..n - 1 PROVE kept[i + 1] = i * t
      <4>1. i + 1 \in 1..n /\ (i + 1) - 1 = i
        BY <3>2
      <4> QED BY <3>4, <4>1
    <3>7. array.dim = <<n, NumChains, Len(cols)>>
      BY <2>10, <3>1 DEF Stacked, Whole, RArray
    <3>8. ASSUME NEW i \in 0..n - 1, NEW c \in Chains, NEW v \in 0..Len(cols) - 1
          PROVE  RElement(array, i, c, v) =
                   <<[chain |-> c, phase |-> ph, iter |-> kept[i + 1]], ColNames[cols[v + 1] + 1]>>
      <4>1. first + i + 1 \in 1..n_warmup + n_post /\ n_warmup + n_post # 0
        BY <2>6, <2>10, <3>1, <3>2
      <4>2. n_iterations # 0
        BY <2>4, <2>5, <2>6, <4>1
      <4>3. c \in 0..copied - 1
        BY <2>8, <4>2
      <4>4. RElement(array, i, c, v) = <<writer[c].rows[first + i + 1], ColNames[cols[v + 1] + 1]>>
        BY <2>10, <3>1, <4>3 DEF Stacked, HoldsRows
      <4>5. writer[c].rows[first + i + 1] = [chain |-> c, phase |-> ph, iter |-> i * t]
        BY <2>9, <2>10, <3>1, <4>1
      <4> QED BY <3>6, <4>4, <4>5
    <3> QED BY <2>3, <3>3, <3>5, <3>7, <3>8 DEF Holds
  <2>11. ASSUME NEW c \in Chains, NEW i \in 0..n_post - 1
         PROVE  Draw(c, n_warmup + i + 1) = [chain |-> c, phase |-> "sampling", iter |-> i * t]
    <3>1. ~(n_warmup + i + 1 <= warmup_rows) /\ (n_warmup + i + 1) - warmup_rows - 1 = i
      BY <2>4, <2>5, <2>6
    <3> QED BY <2>3, <3>1 DEF Draw
  <2>12. ASSUME NEW c \in Chains, NEW i \in 0..n_warmup - 1
         PROVE  Draw(c, 0 + i + 1) = [chain |-> c, phase |-> "warmup", iter |-> i * t]
    <3>1. 0 + i + 1 <= warmup_rows /\ (0 + i + 1) - 1 = i
      BY <2>4, <2>5, <2>6
    <3> QED BY <2>3, <3>1 DEF Draw
  <2>13. /\ Stacked(arrays.samples, SavedRows(t, k), param_cols, n_warmup)
         /\ Stacked(arrays.diagnostics, SavedRows(t, k), diag_cols, n_warmup)
         /\ Stacked(arrays.warmup_samples, SavedRows(t, w), param_cols, 0)
         /\ Stacked(arrays.warmup_diagnostics, SavedRows(t, w), diag_cols, 0)
    BY <2>6 DEF CopyInv
  <2>14. /\ Holds(arrays.samples, "sampling", k, param_cols)
         /\ Holds(arrays.diagnostics, "sampling", k, diag_cols)
    <3>1. n_warmup \in Nat /\ n_warmup + SavedRows(t, k) <= n_warmup + n_post
      BY <2>6
    <3>2. \A c \in Chains, i \in 0..SavedRows(t, k) - 1 :
            Draw(c, n_warmup + i + 1) = [chain |-> c, phase |-> "sampling", iter |-> i * t]
      BY <2>6, <2>11
    <3> QED BY <2>4, <2>7, <2>10, <2>13, <3>1, <3>2, Zenon
  <2>15. /\ Holds(arrays.warmup_samples, "warmup", w, param_cols)
         /\ Holds(arrays.warmup_diagnostics, "warmup", w, diag_cols)
    <3>1. 0 \in Nat /\ 0 + SavedRows(t, w) <= n_warmup + n_post
      BY <2>6
    <3>2. \A c \in Chains, i \in 0..SavedRows(t, w) - 1 :
            Draw(c, 0 + i + 1) = [chain |-> c, phase |-> "warmup", iter |-> i * t]
      BY <2>6, <2>12
    <3> QED BY <2>4, <2>7, <2>10, <2>13, <3>1, <3>2, Zenon
  <2> QED BY <2>3, <2>14, <2>15
<1> QED BY <1>1, SampleInvariant, RowsInvariant, CopyInvariant, PTL
=============================================================================
