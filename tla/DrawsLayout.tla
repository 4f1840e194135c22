----------------------------- MODULE DrawsLayout -----------------------------
(***************************************************************************)
(* What the two places that build an iterations x chains x variables array *)
(* of draws share: the array of R, the matrix of a writer and thinning.    *)
(*                                                                         *)
(* An R array is its dim attribute and a vector of data in column-major    *)
(* order, here numbered from 0.  A cell that was allocated and not written *)
(* holds Junk.                                                             *)
(***************************************************************************)
EXTENDS Integers, Sequences, FiniteSets

CONSTANT Junk

RArray(iterations, chains, variables, data) ==
  [dim |-> <<iterations, chains, variables>>, data |-> data]

RSize(iterations, chains, variables) == iterations * chains * variables

\* a[i, c, v] of R with every index counted from 0.
RElement(a, i, c, v) == a.data[i + a.dim[1] * (c + a.dim[2] * v)]

\* Fault: rounds down.
FaultySavedRows(num_thin, iterations) == iterations \div num_thin

\* saved_rows(): how many of that many iterations are kept.
SavedRows(num_thin, iterations) ==
  (iterations \div num_thin) + (IF iterations % num_thin # 0 THEN 1 ELSE 0)

\* The numbers of S in the order in which a loop that counts up appends them: the
\* i-th is the one that i - 1 others are below.
Ascending(S) ==
  [i \in 1..Cardinality(S) |-> CHOOSE x \in S : Cardinality({y \in S : y < x}) = i - 1]

\* What it has to be: the iterations that thinning keeps, in order.
KeptIterations(num_thin, iterations) ==
  Ascending({m \in 0..iterations - 1 : m % num_thin = 0})
=============================================================================
