-------------------------- MODULE DataContextProofs --------------------------
(***************************************************************************)
(* Proofs about DataContext, for values nested to any depth: no NA reaches *)
(* Stan, an entry has as many values as its dimensions say, no number a    *)
(* user supplies is lost, those of tuples are where Stan looks, and a list *)
(* for a tuple is accepted where it is a value of the declared type.       *)
(*                                                                         *)
(* The recursive functions of the model are functions by Recursion, whose  *)
(* induction is over a set of natural numbers: each nonempty one has a     *)
(* least element.                                                          *)
(***************************************************************************)
EXTENDS TupleValues, WellFoundedInduction, SequenceTheorems, TLAPS
-----------------------------------------------------------------------------
(* Induction and recursion.                                                *)

\* A nonempty set of natural numbers has a least element.
LEMMA LeastElement == \A T \in SUBSET Nat : T # {} => \E x \in T : \A y \in T : ~(y < x)
<1> SUFFICES ASSUME NEW T \in SUBSET Nat, T # {} PROVE \E x \in T : \A y \in T : ~(y < x)
  OBVIOUS
<1> DEFINE R == {ss \in Nat \X Nat : ss[1] < ss[2]}
<1>1. IsWellFoundedOn(R, Nat)
  BY NatLessThanWellFounded DEF OpToRel
<1>2. \A a, b \in Nat : a < b => <<a, b>> \in R
  OBVIOUS
<1> HIDE DEF R
<1>3. PICK x \in T : \A y \in T : ~(<<y, x>> \in R)
  BY <1>1, WFMin
<1> QED BY <1>2, <1>3

\* A set with 0 and the successors of its numbers has all of them.
LEMMA NatSet ==
  ASSUME NEW S, 0 \in S, \A n \in Nat : n \in S => n + 1 \in S
  PROVE  Nat \subseteq S
<1> DEFINE T == Nat \ S
<1> SUFFICES ASSUME T # {} PROVE FALSE
  OBVIOUS
<1>1. PICK x \in T : \A y \in T : ~(y < x)
  BY LeastElement
<1>2. x \in Nat /\ x # 0
  OBVIOUS
<1>3. x - 1 \in Nat /\ (x - 1) + 1 = x /\ x - 1 < x
  BY <1>2
<1> QED BY <1>1, <1>2, <1>3

\* f has this first value and takes these steps, ...
Iterates(f, A, f0, step, n) ==
  f \in [0..n -> A] /\ f[0] = f0 /\ \A k \in 1..n : f[k] = step[<<k, f[k - 1]>>]

\* ... which some function does, for every value and all steps.
LEMMA Recursion ==
  ASSUME NEW A, NEW f0 \in A, NEW step \in [Nat \X A -> A], NEW n \in Nat
  PROVE  \E f : Iterates(f, A, f0, step, n)
<1> DEFINE Good(m, g) == g[0] = f0 /\ \A k \in 1..m : g[k] = step[<<k, g[k - 1]>>]
           S == {m \in Nat : \E g \in [0..m -> A] : Good(m, g)}
<1>1. 0 \in S
  <2>1. [k \in 0..0 |-> f0] \in [0..0 -> A] /\ Good(0, [k \in 0..0 |-> f0])
    OBVIOUS
  <2> QED BY <2>1
<1>2. ASSUME NEW m \in Nat, m \in S PROVE m + 1 \in S
  <2>1. PICK g \in [0..m -> A] : Good(m, g)
    BY <1>2
  <2>2. PICK x : x = step[<<m + 1, g[m]>>]
    OBVIOUS
  <2>3. g[m] \in A /\ x \in A
    BY <2>2
  <2> DEFINE h == [k \in 0..m + 1 |-> IF k = m + 1 THEN x ELSE g[k]]
  <2>4. h \in [0..m + 1 -> A]
    BY <2>3
  <2>5. h[m + 1] = x /\ \A k \in 0..m : h[k] = g[k]
    OBVIOUS
  <2>6. Good(m + 1, h)
    <3> HIDE DEF h
    <3>1. h[0] = f0
      BY <2>1, <2>5
    <3>2. ASSUME NEW k \in 1..m + 1 PROVE h[k] = step[<<k, h[k - 1]>>]
      <4>1. CASE k = m + 1
        BY <4>1, <2>2, <2>5
      <4>2. CASE k \in 1..m
        BY <4>2, <2>1, <2>5
      <4> QED BY <4>1, <4>2
    <3> QED BY <3>1, <3>2
  <2> HIDE DEF h, Good
  <2> QED BY <2>4, <2>6
<1>3. n \in S
  <2> HIDE DEF S
  <2> QED BY <1>1, <1>2, NatSet
<1> QED BY <1>3 DEF Iterates

\* A set with the empty sequence and the extensions of its sequences has all.
LEMMA SeqSet ==
  ASSUME NEW D, NEW P, P \subseteq Seq(D), <<>> \in P,
         \A s \in P, e \in D : Append(s, e) \in P
  PROVE  Seq(D) \subseteq P
<1> DEFINE S == {n \in Nat : \A s \in Seq(D) : Len(s) = n => s \in P}
<1>1. 0 \in S
  BY EmptySeq
<1>2. ASSUME NEW n \in Nat, n \in S PROVE n + 1 \in S
  <2> SUFFICES ASSUME NEW s \in Seq(D), Len(s) = n + 1 PROVE s \in P
    OBVIOUS
  <2>1. s # <<>>
    BY EmptySeq
  <2>2. PICK t \in Seq(D), e \in D : s = Append(t, e)
    BY <2>1, SequenceEmptyOrAppend
  <2>3. Len(t) = n
    <3>1. Len(t) \in Nat /\ Len(s) = Len(t) + 1
      BY <2>2
    <3> QED BY <3>1
  <2>4. t \in P
    BY <1>2, <2>3
  <2> QED BY <2>2, <2>4
<1> HIDE DEF S
<1>3. Nat \subseteq S
  BY <1>1, <1>2, NatSet
<1>4. \A s \in Seq(D) : Len(s) \in Nat
  OBVIOUS
<1> QED BY <1>3, <1>4 DEF S

IsFunctionTo(g, n) == g = [k \in 0..n |-> g[k]]

\* A function that takes these steps as long as it stays in A never leaves A.
LEMMA Iterate ==
  ASSUME NEW A, NEW f0 \in A, NEW step \in [Nat \X A -> A], NEW n \in Nat,
         NEW g, IsFunctionTo(g, n), g[0] = f0,
         \A k \in 1..n : g[k - 1] \in A => g[k] = step[<<k, g[k - 1]>>]
  PROVE  Iterates(g, A, f0, step, n)
<1> DEFINE S == {k \in Nat : k \in 0..n => g[k] \in A}
<1>1. 0 \in S
  OBVIOUS
<1>2. ASSUME NEW k \in Nat, k \in S PROVE k + 1 \in S
  <2> SUFFICES ASSUME k + 1 \in 0..n PROVE g[k + 1] \in A
    OBVIOUS
  <2>1. g[k] \in A /\ k + 1 \in 1..n /\ (k + 1) - 1 = k
    BY <1>2
  <2>2. g[k + 1] = step[<<k + 1, g[k]>>]
    BY <2>1
  <2> QED BY <2>1, <2>2
<1>3. Nat \subseteq S
  <2> HIDE DEF S
  <2> QED BY <1>1, <1>2, NatSet
<1>4. \A k \in 0..n : g[k] \in A
  BY <1>3
<1>5. g \in [0..n -> A]
  BY <1>4 DEF IsFunctionTo
<1>6. \A k \in 1..n : g[k] = step[<<k, g[k - 1]>>]
  BY <1>4
<1> QED BY <1>5, <1>6 DEF Iterates
-----------------------------------------------------------------------------
(* Sizes.                                                                  *)

\* shape_product() takes one size after another.
SizeTo(shape, f) ==
  /\ f \in [0..Len(shape) -> Nat]
  /\ f[0] = 1
  /\ \A k \in 1..Len(shape) : f[k] = f[k - 1] * shape[k]
  /\ Size(shape) = f[Len(shape)]

\* The product of a shape satisfies its recursive equation.
LEMMA SizeFunction ==
  ASSUME NEW shape \in Seq(Nat)
  PROVE  \E f : SizeTo(shape, f)
<1> DEFINE size[k \in 0..Len(shape)] == IF k = 0 THEN 1 ELSE size[k - 1] * shape[k]
           n == Len(shape)
           step == [p \in Nat \X Nat |-> IF p[1] \in 1..n THEN p[2] * shape[p[1]] ELSE 0]
<1>1. n \in Nat /\ \A k \in 1..n : shape[k] \in Nat
  OBVIOUS
<1>2. step \in [Nat \X Nat -> Nat]
  BY <1>1
<1>3. ASSUME NEW k \in 1..n, NEW x \in Nat PROVE step[<<k, x>>] = x * shape[k]
  <2>1. <<k, x>> \in Nat \X Nat
    BY <1>1
  <2> QED BY <2>1
<1> HIDE DEF step
<1>4. PICK f : Iterates(f, Nat, 1, step, n)
  <2> HIDE DEF n
  <2> QED BY <1>1, <1>2, Recursion
<1>5. f = [k \in 0..Len(shape) |-> IF k = 0 THEN 1 ELSE f[k - 1] * shape[k]]
  <2>1. f \in [0..n -> Nat] /\ f[0] = 1 /\ \A k \in 1..n : f[k] = step[<<k, f[k - 1]>>]
    BY <1>4 DEF Iterates
  <2>2. ASSUME NEW k \in 1..n PROVE f[k] = f[k - 1] * shape[k]
    <3>1. PICK x : x = f[k - 1]
      OBVIOUS
    <3>2. x \in Nat
      BY <1>1, <2>1, <3>1
    <3>3. step[<<k, x>>] = x * shape[k]
      BY <1>3, <3>2
    <3> QED BY <2>1, <3>1, <3>3
  <2>3. \A k \in 0..n : f[k] = IF k = 0 THEN 1 ELSE f[k - 1] * shape[k]
    BY <1>1, <2>1, <2>2
  <2> QED BY <2>1, <2>3
<1>6. size = [k \in 0..Len(shape) |-> IF k = 0 THEN 1 ELSE size[k - 1] * shape[k]]
  BY <1>5
<1>7. Size(shape) = size[n]
  BY DEF Size
<1> HIDE DEF size
<1>8. /\ IsFunctionTo(size, n) /\ size[0] = 1
      /\ \A k \in 1..n : size[k] = size[k - 1] * shape[k]
  BY <1>1, <1>6 DEF IsFunctionTo
<1>9. Iterates(size, Nat, 1, step, n)
  <2>1. \A k \in 1..n : size[k - 1] \in Nat => size[k] = step[<<k, size[k - 1]>>]
    BY <1>3, <1>8
  <2> HIDE DEF n
  <2> QED BY <1>1, <1>2, <1>8, <2>1, Iterate
<1> QED BY <1>7, <1>8, <1>9 DEF Iterates, SizeTo

\* It is a natural number, ...
LEMMA SizeNat ==
  ASSUME NEW shape \in Seq(Nat)
  PROVE  Size(shape) \in Nat
<1>1. PICK f : SizeTo(shape, f)
  BY SizeFunction
<1> QED BY <1>1 DEF SizeTo

\* ... 1 without dimensions, ...
LEMMA SizeEmpty == Size(<<>>) = 1
<1>1. <<>> \in Seq(Nat) /\ Len(<<>>) = 0
  OBVIOUS
<1>2. PICK f : SizeTo(<<>>, f)
  BY <1>1, SizeFunction
<1> QED BY <1>1, <1>2 DEF SizeTo

\* ... and grows with each dimension by a factor.
LEMMA SizeAppend ==
  ASSUME NEW s \in Seq(Nat), NEW x \in Nat
  PROVE  Size(Append(s, x)) = Size(s) * x
<1> DEFINE n == Len(s)
           t == Append(s, x)
<1>1. t \in Seq(Nat) /\ n \in Nat /\ Len(t) = n + 1 /\ t[n + 1] = x /\ \A k \in 1..n : t[k] = s[k] /\ s[k] \in Nat
  OBVIOUS
<1> HIDE DEF t
<1>2. PICK f : SizeTo(s, f)
  BY SizeFunction
<1>3. PICK g : SizeTo(t, g)
  BY <1>1, SizeFunction
<1> DEFINE S == {k \in Nat : k \in 0..n => g[k] = f[k]}
<1>4. 0 \in S
  BY <1>2, <1>3 DEF SizeTo
<1>5. ASSUME NEW k \in Nat, k \in S PROVE k + 1 \in S
  <2> SUFFICES ASSUME k + 1 \in 0..n PROVE g[k + 1] = f[k + 1]
    OBVIOUS
  <2>1. g[k] = f[k] /\ k + 1 \in 1..n /\ k + 1 \in 1..n + 1 /\ (k + 1) - 1 = k
    BY <1>1, <1>5
  <2>2. f[k + 1] = f[k] * s[k + 1]
    BY <1>2, <2>1 DEF SizeTo
  <2>3. g[k + 1] = g[k] * t[k + 1]
    BY <1>1, <1>3, <2>1 DEF SizeTo
  <2> QED BY <1>1, <2>1, <2>2, <2>3
<1> HIDE DEF S
<1>6. n \in S
  BY <1>1, <1>4, <1>5, NatSet
<1>7. g[n] = f[n]
  <2>1. n \in 0..n
    BY <1>1
  <2> QED BY <1>6, <2>1 DEF S
<1>8. g[n + 1] = g[n] * x
  <2>1. n + 1 \in 1..n + 1 /\ (n + 1) - 1 = n
    BY <1>1
  <2>2. \A k \in 1..n + 1 : g[k] = g[k - 1] * t[k]
    BY <1>1, <1>3 DEF SizeTo
  <2>3. g[n + 1] = g[(n + 1) - 1] * t[n + 1]
    BY <2>1, <2>2
  <2>4. g[(n + 1) - 1] = g[n]
    BY <2>1
  <2>5. t[n + 1] = x
    BY <1>1
  <2> QED BY <2>3, <2>4, <2>5
<1>9. Size(t) = g[n + 1] /\ Size(s) = f[n]
  BY <1>1, <1>2, <1>3 DEF SizeTo
<1>10. Size(t) = Size(s) * x
  BY <1>7, <1>8, <1>9
<1> QED BY <1>10 DEF t

\* As many values as the sizes of one shape and those of another make together.
LEMMA SizeConcat ==
  ASSUME NEW s \in Seq(Nat), NEW t \in Seq(Nat)
  PROVE  Size(s \o t) = Size(s) * Size(t)
<1> DEFINE P == {u \in Seq(Nat) : Size(s \o u) = Size(s) * Size(u)}
<1>1. <<>> \in P
  <2>1. <<>> \in Seq(Nat) /\ s \o <<>> = s
    OBVIOUS
  <2>2. Size(s) * 1 = Size(s)
    BY SizeNat
  <2> QED BY <2>1, <2>2, SizeEmpty
<1>2. ASSUME NEW u \in P, NEW x \in Nat PROVE Append(u, x) \in P
  <2>1. u \in Seq(Nat) /\ Size(s \o u) = Size(s) * Size(u)
    OBVIOUS
  <2>2. s \o u \in Seq(Nat) /\ Append(u, x) \in Seq(Nat) /\ s \o Append(u, x) = Append(s \o u, x)
    BY <2>1
  <2>3. Size(Append(u, x)) = Size(u) * x /\ Size(s \o Append(u, x)) = Size(s \o u) * x
    BY <2>1, <2>2, SizeAppend
  <2>4. \A a, b, c \in Nat : (a * b) * c = a * (b * c)
    BY SMT
  <2>5. (Size(s) * Size(u)) * x = Size(s) * (Size(u) * x)
    BY <2>1, <2>4, SizeNat
  <2> QED BY <2>1, <2>2, <2>3, <2>5
<1> HIDE DEF P
<1>3. P \subseteq Seq(Nat)
  BY DEF P
<1>4. Seq(Nat) \subseteq P
  BY <1>1, <1>2, <1>3, SeqSet
<1> QED BY <1>4 DEF P

\* The product of one dimension.
LEMMA SizeOne ==
  ASSUME NEW n \in Nat
  PROVE  Size(<<n>>) = n
<1>1. <<n>> = Append(<<>>, n) /\ <<>> \in Seq(Nat)
  OBVIOUS
<1>2. Size(<<n>>) = Size(<<>>) * n
  BY <1>1, SizeAppend
<1> QED BY <1>2, SizeEmpty
-----------------------------------------------------------------------------
(* Sequences.                                                              *)

\* The elements of two sequences, one after the other.
LEMMA ToSetConcat ==
  ASSUME NEW D, NEW s \in Seq(D), NEW t \in Seq(D)
  PROVE  ToSet(s \o t) = ToSet(s) \cup ToSet(t)
<1>1. \A q : ToSet(q) = Range(q)
  BY Zenon DEF Range, ToSet
<1> QED BY <1>1, RangeConcatenation

\* The elements of a sequence are of its type.
LEMMA ToSetType ==
  ASSUME NEW D, NEW s \in Seq(D)
  PROVE  ToSet(s) \subseteq D
BY LenProperties DEF ToSet

\* FlattenSeq() takes one sequence after another.
FlattenTo(ss, D, f) ==
  /\ f \in [1..Len(ss) -> Seq(D)]
  /\ f[1] = ss[1]
  /\ \A k \in 2..Len(ss) : f[k] = f[k - 1] \o ss[k]
  /\ FlattenSeq(ss) = f[Len(ss)]

\* FlattenSeq goes through its sequences one by one.
LEMMA FlattenFunction ==
  ASSUME NEW D, NEW ss \in Seq(Seq(D)), ss # <<>>
  PROVE  \E f : FlattenTo(ss, D, f)
<1> DEFINE flatten[i \in 1..Len(ss)] == IF i = 1 THEN ss[i] ELSE flatten[i - 1] \o ss[i]
           n == Len(ss)
           step == [p \in Nat \X Seq(D) |-> IF p[1] \in 1..n - 1 THEN p[2] \o ss[p[1] + 1] ELSE <<>>]
<1>1. n \in Nat /\ n # 0 /\ n - 1 \in Nat /\ \A k \in 1..n : ss[k] \in Seq(D)
  BY EmptySeq
<1>0. 1 \in 1..n /\ \A k \in 1..n : k # 1 => k \in 2..n
  BY <1>1
<1>0a. \A i \in 2..n : i \in 1..n /\ i # 1
  BY <1>1
<1>2. step \in [Nat \X Seq(D) -> Seq(D)]
  BY <1>1
<1>3. ASSUME NEW k \in 1..n - 1, NEW x \in Seq(D) PROVE step[<<k, x>>] = x \o ss[k + 1]
  <2>1. <<k, x>> \in Nat \X Seq(D)
    BY <1>1
  <2> QED BY <2>1
<1> HIDE DEF step
<1>4. PICK h : Iterates(h, Seq(D), ss[1], step, n - 1)
  <2>1. ss[1] \in Seq(D)
    BY <1>1
  <2> HIDE DEF n
  <2> QED BY <1>1, <1>2, <2>1, Recursion
<1>5. PICK f : f = [i \in 1..n |-> h[i - 1]]
  OBVIOUS
<1>6. f = [i \in 1..Len(ss) |-> IF i = 1 THEN ss[i] ELSE f[i - 1] \o ss[i]]
  <2>1. h \in [0..n - 1 -> Seq(D)] /\ h[0] = ss[1] /\ \A k \in 1..n - 1 : h[k] = step[<<k, h[k - 1]>>]
    BY <1>4 DEF Iterates
  <2>2. f[1] = ss[1]
    BY <1>1, <1>5, <2>1
  <2>3. ASSUME NEW i \in 2..n PROVE f[i] = f[i - 1] \o ss[i]
    <3>1. PICK x : x = h[i - 2]
      OBVIOUS
    <3>0. i - 2 \in 0..n - 1 /\ i - 1 \in 1..n - 1 /\ (i - 1) - 1 = i - 2 /\ (i - 1) + 1 = i
      BY <1>1
    <3>2. x \in Seq(D) /\ i - 1 \in 1..n - 1 /\ (i - 1) - 1 = i - 2 /\ (i - 1) + 1 = i
      BY <2>1, <3>0, <3>1
    <3>3. step[<<i - 1, x>>] = x \o ss[i]
      BY <1>3, <3>2
    <3>4. f[i] = h[i - 1] /\ f[i - 1] = x
      BY <1>1, <1>5, <3>1, <3>2
    <3>5. h[i - 1] = step[<<i - 1, h[(i - 1) - 1]>>]
      BY <2>1, <3>2
    <3>6. h[(i - 1) - 1] = x
      BY <3>1, <3>2
    <3> QED BY <3>3, <3>4, <3>5, <3>6
  <2>4. \A i \in 1..n : f[i] = IF i = 1 THEN ss[i] ELSE f[i - 1] \o ss[i]
    BY <1>0, <2>2, <2>3, Zenon
  <2>5. f = [i \in 1..n |-> IF i = 1 THEN ss[i] ELSE f[i - 1] \o ss[i]]
    <3>1. \A i \in 1..n : h[i - 1] = IF i = 1 THEN ss[i] ELSE f[i - 1] \o ss[i]
      BY <1>5, <2>4
    <3> QED BY <1>5, <3>1, Zenon
  <2> QED BY <2>5
<1>7. flatten = [i \in 1..Len(ss) |-> IF i = 1 THEN ss[i] ELSE flatten[i - 1] \o ss[i]]
  BY <1>6
<1>8. FlattenSeq(ss) = flatten[n]
  BY <1>1 DEF FlattenSeq
<1> HIDE DEF flatten
<1>9. flatten[1] = ss[1] /\ \A i \in 2..n : flatten[i] = flatten[i - 1] \o ss[i]
  <2>1. \A i \in 1..n : flatten[i] = IF i = 1 THEN ss[i] ELSE flatten[i - 1] \o ss[i]
    BY <1>7, Zenon
  <2> QED BY <1>0, <1>0a, <2>1, Zenon
<1>10. PICK g : g = [k \in 0..n - 1 |-> flatten[k + 1]]
  OBVIOUS
<1>11. Iterates(g, Seq(D), ss[1], step, n - 1)
  <2>1. IsFunctionTo(g, n - 1)
    BY <1>10 DEF IsFunctionTo
  <2>2. ss[1] \in Seq(D) /\ g[0] = ss[1]
    BY <1>1, <1>9, <1>10
  <2>3. ASSUME NEW k \in 1..n - 1, g[k - 1] \in Seq(D) PROVE g[k] = step[<<k, g[k - 1]>>]
    <3>1. g[k] = flatten[k + 1] /\ g[k - 1] = flatten[k]
      BY <1>1, <1>10
    <3>2. flatten[k + 1] = flatten[k] \o ss[k + 1]
      <4>1. k + 1 \in 2..n /\ (k + 1) - 1 = k
        BY <1>1
      <4> QED BY <1>9, <4>1
    <3> QED BY <1>3, <2>3, <3>1, <3>2
  <2> HIDE DEF n
  <2> QED BY <1>1, <1>2, <2>1, <2>2, <2>3, Iterate
<1>12. flatten \in [1..n -> Seq(D)]
  <2>1. g \in [0..n - 1 -> Seq(D)]
    BY <1>11 DEF Iterates
  <2>2. ASSUME NEW i \in 1..n PROVE flatten[i] \in Seq(D)
    <3>1. i - 1 \in 0..n - 1 /\ g[i - 1] = flatten[i]
      BY <1>1, <1>10
    <3> QED BY <2>1, <3>1
  <2>3. flatten = [i \in 1..n |-> flatten[i]]
    BY <1>7
  <2> QED BY <2>2, <2>3
<1> QED BY <1>8, <1>9, <1>12 DEF FlattenTo

\* Of sequences over D it makes one over D, with all their elements.
LEMMA FlattenRange ==
  ASSUME NEW D, NEW ss \in Seq(Seq(D))
  PROVE  /\ FlattenSeq(ss) \in Seq(D)
         /\ ToSet(FlattenSeq(ss)) = UNION {ToSet(ss[i]) : i \in DOMAIN ss}
<1>1. CASE ss = <<>>
  <2>1. FlattenSeq(ss) = <<>> /\ <<>> \in Seq(D) /\ DOMAIN ss = {} /\ DOMAIN <<>> = {}
    BY <1>1 DEF FlattenSeq
  <2>2. ToSet(<<>>) = {}
    BY <2>1 DEF ToSet
  <2> QED BY <2>1, <2>2
<1>2. CASE ss # <<>>
  <2> DEFINE n == Len(ss)
  <2>1. n \in Nat /\ n # 0 /\ DOMAIN ss = 1..n /\ \A k \in 1..n : ss[k] \in Seq(D)
    BY <1>2, EmptySeq
  <2>2. PICK f : FlattenTo(ss, D, f)
    BY <1>2, FlattenFunction
  <2>3. f \in [1..n -> Seq(D)] /\ f[1] = ss[1] /\ FlattenSeq(ss) = f[n]
    BY <2>2 DEF FlattenTo
  <2>4. \A k \in 2..n : f[k] = f[k - 1] \o ss[k]
    BY <2>2 DEF FlattenTo
  <2> DEFINE All(k) == UNION {ToSet(ss[i]) : i \in 1..k}
             S == {k \in Nat : k + 1 \in 1..n => ToSet(f[k + 1]) = All(k + 1)}
  <2> HIDE DEF n
  <2>5. 0 \in S
    <3>1. 1..1 = {1}
      OBVIOUS
    <3>2. All(1) = ToSet(ss[1])
      BY <3>1
    <3> QED BY <2>3, <3>2
  <2>6. ASSUME NEW k \in Nat, k \in S PROVE k + 1 \in S
    <3> SUFFICES ASSUME (k + 1) + 1 \in 1..n PROVE ToSet(f[(k + 1) + 1]) = All((k + 1) + 1)
      OBVIOUS
    <3> DEFINE j == k + 1
    <3>1. j \in 1..n /\ j + 1 \in 1..n /\ j + 1 \in 2..n /\ (j + 1) - 1 = j
      BY <2>1
    <3>2. ToSet(f[j]) = All(j)
      BY <2>6, <3>1
    <3>3. f[j + 1] = f[j] \o ss[j + 1]
      BY <2>4, <3>1
    <3>4. f[j] \in Seq(D) /\ ss[j + 1] \in Seq(D)
      BY <2>1, <2>3, <3>1
    <3>5. ToSet(f[j + 1]) = All(j) \cup ToSet(ss[j + 1])
      BY <3>2, <3>3, <3>4, ToSetConcat
    <3>6. 1..j + 1 = (1..j) \cup {j + 1}
      BY <3>1
    <3>7. All(j + 1) = All(j) \cup ToSet(ss[j + 1])
      <4> HIDE DEF j
      <4> QED BY <3>6, Zenon
    <3> QED BY <3>5, <3>7
  <2> HIDE DEF S, All
  <2>7. n - 1 \in Nat /\ n - 1 \in S /\ (n - 1) + 1 = n /\ n \in 1..n
    <3>1. Nat \subseteq S
      BY <2>5, <2>6, NatSet
    <3> QED BY <2>1, <3>1
  <2>8. ToSet(f[n]) = All(n)
    BY <2>7 DEF S
  <2> QED BY <2>1, <2>3, <2>7, <2>8 DEF All
<1> QED BY <1>1, <1>2

\* Of sequences of one length.
LEMMA FlattenLen ==
  ASSUME NEW D, NEW ss \in Seq(Seq(D)), NEW m \in Nat, \A i \in DOMAIN ss : Len(ss[i]) = m
  PROVE  Len(FlattenSeq(ss)) = Len(ss) * m
<1>1. CASE ss = <<>>
  <2>1. FlattenSeq(ss) = <<>> /\ Len(ss) = 0 /\ Len(<<>>) = 0 /\ 0 * m = 0
    BY <1>1 DEF FlattenSeq
  <2> QED BY <2>1
<1>2. CASE ss # <<>>
  <2> DEFINE n == Len(ss)
  <2>1. n \in Nat /\ n # 0 /\ \A k \in 1..n : ss[k] \in Seq(D) /\ Len(ss[k]) = m
    BY <1>2, EmptySeq
  <2>2. PICK f : FlattenTo(ss, D, f)
    BY <1>2, FlattenFunction
  <2>3. f \in [1..n -> Seq(D)] /\ f[1] = ss[1] /\ FlattenSeq(ss) = f[n]
    BY <2>2 DEF FlattenTo
  <2>4. \A k \in 2..n : f[k] = f[k - 1] \o ss[k]
    BY <2>2 DEF FlattenTo
  <2> DEFINE S == {k \in Nat : k + 1 \in 1..n => Len(f[k + 1]) = (k + 1) * m}
  <2> HIDE DEF n
  <2>5. 0 \in S
    <3>1. 1 * m = m /\ 1 \in 1..n
      BY <2>1
    <3> QED BY <2>1, <2>3, <3>1
  <2>6. ASSUME NEW k \in Nat, k \in S PROVE k + 1 \in S
    <3> SUFFICES ASSUME (k + 1) + 1 \in 1..n PROVE Len(f[(k + 1) + 1]) = ((k + 1) + 1) * m
      OBVIOUS
    <3>0. PICK j : j = k + 1
      OBVIOUS
    <3>1. j \in 1..n /\ j + 1 \in 1..n /\ j + 1 \in 2..n /\ (j + 1) - 1 = j /\ j \in Nat
      BY <2>1, <3>0
    <3>2. Len(f[j]) = j * m
      BY <2>6, <3>0, <3>1
    <3>3. f[j + 1] = f[j] \o ss[j + 1]
      BY <2>4, <3>1
    <3>4. f[j] \in Seq(D) /\ ss[j + 1] \in Seq(D) /\ Len(ss[j + 1]) = m
      BY <2>1, <2>3, <3>1
    <3>5. Len(f[j + 1]) = Len(f[j]) + m
      <4>1. \A s, t \in Seq(D) : Len(s \o t) = Len(s) + Len(t)
        BY ConcatProperties
      <4>2. Len(f[j] \o ss[j + 1]) = Len(f[j]) + Len(ss[j + 1])
        BY <3>4, <4>1
      <4> QED BY <3>3, <3>4, <4>2
    <3>6. (j + 1) * m = j * m + m
      <4>1. \A a, b \in Nat : (a + 1) * b = a * b + b
        BY SMT
      <4> QED BY <3>1, <4>1
    <3> QED BY <3>0, <3>2, <3>5, <3>6
  <2> HIDE DEF S
  <2>7. n - 1 \in Nat /\ n - 1 \in S /\ (n - 1) + 1 = n /\ n \in 1..n
    <3>1. Nat \subseteq S
      BY <2>5, <2>6, NatSet
    <3> QED BY <2>1, <3>1
  <2>8. Len(f[n]) = n * m
    BY <2>7 DEF S
  <2> QED BY <2>3, <2>8 DEF n
<1> QED BY <1>1, <1>2
-----------------------------------------------------------------------------
(* Values.                                                                 *)

Below(set) == UNION {Items(w) : w \in set}

\* The levels of a value satisfy their recursive equation.
LEMMA LevelsFunction ==
  ASSUME NEW v
  PROVE  /\ Levels(v)[0] = {v}
         /\ \A k \in 1..Nesting : Levels(v)[k] = Below(Levels(v)[k - 1])
<1> DEFINE level[k \in 0..Nesting] == IF k = 0 THEN {v} ELSE UNION {Items(w) : w \in level[k - 1]}
           Good(m, g) == g = [k \in 0..m |-> IF k = 0 THEN {v} ELSE UNION {Items(w) : w \in g[k - 1]}]
           S == {m \in Nat : \E g : Good(m, g)}
<1>1. Nesting \in Nat
  BY DataAssumption
<1>2. 0 \in S
  <2>1. Good(0, [k \in 0..0 |-> {v}])
    OBVIOUS
  <2> QED BY <2>1
<1>3. ASSUME NEW m \in Nat, m \in S PROVE m + 1 \in S
  <2>1. PICK g : Good(m, g)
    BY <1>3
  <2>2. PICK x : x = UNION {Items(w) : w \in g[m]}
    OBVIOUS
  <2> DEFINE h == [k \in 0..m + 1 |-> IF k = m + 1 THEN x ELSE g[k]]
  <2>3. h[m + 1] = x /\ \A k \in 0..m : h[k] = g[k]
    OBVIOUS
  <2>4. \A k \in 0..m : g[k] = IF k = 0 THEN {v} ELSE UNION {Items(w) : w \in g[k - 1]}
    BY <2>1, Zenon
  <2>5. ASSUME NEW k \in 0..m + 1
        PROVE  (IF k = m + 1 THEN x ELSE g[k]) = IF k = 0 THEN {v} ELSE UNION {Items(w) : w \in h[k - 1]}
    <3> HIDE DEF h
    <3>1. CASE k = m + 1
      <4>1. k # 0 /\ h[k - 1] = g[m]
        BY <2>3, <3>1
      <4> QED BY <2>2, <3>1, <4>1, Zenon
    <3>2. CASE k = 0
      <4>1. k # m + 1 /\ k \in 0..m
        BY <3>2
      <4> QED BY <2>4, <3>2, <4>1, Zenon
    <3>3. CASE k \in 1..m
      <4>1. k # m + 1 /\ k # 0 /\ k \in 0..m /\ h[k - 1] = g[k - 1]
        BY <2>3, <3>3
      <4> QED BY <2>4, <4>1, Zenon
    <3> QED BY <3>1, <3>2, <3>3
  <2>6. Good(m + 1, h)
    BY <2>5, Zenon
  <2> HIDE DEF h, Good
  <2> QED BY <2>6
<1>4. PICK f : Good(Nesting, f)
  <2>1. Nesting \in S
    <3> HIDE DEF S
    <3> QED BY <1>1, <1>2, <1>3, NatSet
  <2> QED BY <2>1
<1>5. level = [k \in 0..Nesting |-> IF k = 0 THEN {v} ELSE UNION {Items(w) : w \in level[k - 1]}]
  BY <1>4, Zenon
<1>6. Levels(v) = level
  BY DEF Levels
<1> HIDE DEF level
<1>7. \A k \in 0..Nesting : level[k] = IF k = 0 THEN {v} ELSE Below(level[k - 1])
  BY <1>5, Zenon DEF Below
<1>8. 0 \in 0..Nesting /\ \A k \in 1..Nesting : k \in 0..Nesting /\ k # 0
  BY <1>1
<1> QED BY <1>6, <1>7, <1>8, Zenon

\* One list further in is one list further in for an item.
LEMMA LevelsOfItems ==
  ASSUME NEW v, NEW k \in Nat, k + 1 \in 1..Nesting
  PROVE  Levels(v)[k + 1] = UNION {Levels(u)[k] : u \in Items(v)}
<1> DEFINE S == {j \in Nat : j + 1 \in 1..Nesting =>
                   Levels(v)[j + 1] = UNION {Levels(u)[j] : u \in Items(v)}}
<1>1. Nesting \in Nat
  BY DataAssumption
<1>2. 0 \in S
  <2> SUFFICES ASSUME 1 \in 1..Nesting PROVE Levels(v)[1] = UNION {Levels(u)[0] : u \in Items(v)}
    OBVIOUS
  <2>1. Levels(v)[1] = Below(Levels(v)[0]) /\ Levels(v)[0] = {v}
    BY LevelsFunction
  <2>2. Below({v}) = Items(v)
    BY Zenon DEF Below
  <2>3. \A u \in Items(v) : Levels(u)[0] = {u}
    BY LevelsFunction
  <2>4. \A x : x \in UNION {Levels(u)[0] : u \in Items(v)} <=> x \in Items(v)
    <3> HIDE DEF S
    <3>1. \A x : x \in UNION {Levels(u)[0] : u \in Items(v)} <=> \E u \in Items(v) : x \in Levels(u)[0]
      OBVIOUS
    <3>2. \A x : (\E u \in Items(v) : x \in Levels(u)[0]) <=> x \in Items(v)
      BY <2>3
    <3> QED BY <3>1, <3>2, Zenon
  <2> QED BY <2>1, <2>2, <2>4
<1>3. ASSUME NEW j \in Nat, j \in S PROVE j + 1 \in S
  <2> SUFFICES ASSUME (j + 1) + 1 \in 1..Nesting
               PROVE  Levels(v)[(j + 1) + 1] = UNION {Levels(u)[j + 1] : u \in Items(v)}
    OBVIOUS
  <2>1. j + 1 \in 1..Nesting /\ ((j + 1) + 1) - 1 = j + 1 /\ (j + 1) - 1 = j
    BY <1>1
  <2>2. Levels(v)[(j + 1) + 1] = Below(Levels(v)[j + 1])
    BY <2>1, LevelsFunction
  <2>3. \A u : Levels(u)[j + 1] = Below(Levels(u)[j])
    BY <2>1, LevelsFunction
  <2>4. Levels(v)[j + 1] = UNION {Levels(u)[j] : u \in Items(v)}
    BY <1>3, <2>1
  <2>5. Below(UNION {Levels(u)[j] : u \in Items(v)}) = UNION {Below(Levels(u)[j]) : u \in Items(v)}
    <3>1. \A x : x \in Below(UNION {Levels(u)[j] : u \in Items(v)})
                   <=> \E u \in Items(v) : \E w \in Levels(u)[j] : x \in Items(w)
      BY Zenon DEF Below
    <3>2. \A x : x \in UNION {Below(Levels(u)[j]) : u \in Items(v)}
                   <=> \E u \in Items(v) : \E w \in Levels(u)[j] : x \in Items(w)
      <4>1. \A x : x \in UNION {Below(Levels(u)[j]) : u \in Items(v)}
                     <=> \E u \in Items(v) : x \in Below(Levels(u)[j])
        BY Zenon
      <4>2. \A x, u : x \in Below(Levels(u)[j]) <=> \E w \in Levels(u)[j] : x \in Items(w)
        BY Zenon DEF Below
      <4> QED BY <4>1, <4>2, Zenon
    <3> QED BY <3>1, <3>2
  <2> QED BY <2>2, <2>3, <2>4, <2>5, Zenon
<1> HIDE DEF S
<1>4. k \in S
  BY <1>2, <1>3, NatSet
<1> QED BY <1>4 DEF S

\* Within a bounded value are the value and what is within its items.
LEMMA InsideOf ==
  ASSUME NEW v, \A w \in Levels(v)[Nesting] : Items(w) = {}
  PROVE  /\ v \in Inside(v)
         /\ Inside(v) = {v} \cup UNION {Inside(u) : u \in Items(v)}
<1>1. Nesting \in Nat /\ 0 \in 0..Nesting
  BY DataAssumption
<1>2. Levels(v)[0] = {v}
  BY LevelsFunction
<1>3. v \in Inside(v)
  BY <1>1, <1>2, Zenon DEF Inside
<1>4. ASSUME NEW x \in Inside(v), x # v PROVE \E u \in Items(v) : x \in Inside(u)
  <2>1. PICK k \in 0..Nesting : x \in Levels(v)[k]
    BY Zenon DEF Inside
  <2>2. k # 0
    BY <1>2, <1>4, <2>1
  <2>3. k - 1 \in Nat /\ (k - 1) + 1 = k /\ k \in 1..Nesting /\ k - 1 \in 0..Nesting
    BY <1>1, <2>2
  <2>4. Levels(v)[k] = UNION {Levels(u)[k - 1] : u \in Items(v)}
    BY <2>3, LevelsOfItems
  <2>5. PICK u \in Items(v) : x \in Levels(u)[k - 1]
    BY <2>1, <2>4
  <2>6. x \in Inside(u)
    BY <2>3, <2>5, Zenon DEF Inside
  <2> QED BY <2>6
<1>5. ASSUME NEW u \in Items(v), NEW x \in Inside(u) PROVE x \in Inside(v)
  <2>1. PICK k \in 0..Nesting : x \in Levels(u)[k]
    BY Zenon DEF Inside
  <2>2. CASE k + 1 \in 1..Nesting
    <3>1. k \in Nat /\ k + 1 \in 0..Nesting
      BY <1>1, <2>2
    <3>2. Levels(v)[k + 1] = UNION {Levels(w)[k] : w \in Items(v)}
      BY <2>2, <3>1, LevelsOfItems
    <3>3. x \in Levels(v)[k + 1]
      BY <2>1, <3>2
    <3> QED BY <3>1, <3>3, Zenon DEF Inside
  <2>3. CASE k = Nesting /\ k = 0
    <3>1. v \in Levels(v)[Nesting]
      BY <1>2, <2>3
    <3> QED BY <3>1
  <2>4. CASE k = Nesting /\ k # 0
    <3>1. k \in 1..Nesting /\ k - 1 \in Nat /\ (k - 1) + 1 = k
      BY <1>1, <2>4
    <3>2. Levels(u)[k] = Below(Levels(u)[k - 1])
      BY <3>1, LevelsFunction
    <3>3. PICK w \in Levels(u)[k - 1] : x \in Items(w)
      BY <2>1, <3>2, Zenon DEF Below
    <3>4. Levels(v)[k] = UNION {Levels(i)[k - 1] : i \in Items(v)}
      BY <3>1, LevelsOfItems
    <3>5. w \in Levels(v)[Nesting]
      BY <2>4, <3>3, <3>4
    <3> QED BY <3>3, <3>5
  <2> QED BY <1>1, <2>2, <2>3, <2>4
<1> QED BY <1>3, <1>4, <1>5

\* A set of values with all that is within them.
Closed(V) ==
  \A v \in V :
    /\ v \in Atomic \cup Frame \cup List(V)
    /\ Consistent(v)
    /\ \A w \in Levels(v)[Nesting] : Items(w) = {}

\* The items of a list are inside what the list is inside.
LEMMA ItemsInside ==
  ASSUME NEW V, Closed(V), NEW v \in V
  PROVE  Items(v) \subseteq V
<1>1. v \in Atomic \cup Frame \cup List(V)
  BY DEF Closed
<1>2. CASE v.tag = "list"
  <2>1. v.items \in Seq(V)
    BY <1>1, <1>2 DEF Atomic, Frame, List
  <2> QED BY <1>2, <2>1, ToSetType DEF Items
<1>3. CASE v.tag # "list"
  BY <1>3 DEF Items
<1> QED BY <1>2, <1>3

\* The numbers of a list are those of its items, ...
LEMMA NumbersOfList ==
  ASSUME NEW V, Closed(V), NEW v \in V, v.tag = "list"
  PROVE  Numbers(v) = UNION {Numbers(u) : u \in ToSet(v.items)}
<1>1. Inside(v) = {v} \cup UNION {Inside(u) : u \in Items(v)}
  BY InsideOf DEF Closed
<1>2. Own(v) = {}
  BY DEF Own
<1>3. Items(v) = ToSet(v.items)
  BY DEF Items
<1>4. \A x : x \in Numbers(v) <=> \E u \in ToSet(v.items) : \E w \in Inside(u) : x \in Own(w)
  <2>1. \A x : x \in Numbers(v) <=> \E w \in Inside(v) : x \in Own(w)
    BY Zenon DEF Numbers
  <2>2. \A w : w \in Inside(v) <=> w = v \/ \E u \in ToSet(v.items) : w \in Inside(u)
    BY <1>1, <1>3
  <2> QED BY <1>2, <2>1, <2>2
<1>5. \A x : x \in UNION {Numbers(u) : u \in ToSet(v.items)}
               <=> \E u \in ToSet(v.items) : \E w \in Inside(u) : x \in Own(w)
  <2>1. \A x : x \in UNION {Numbers(u) : u \in ToSet(v.items)} <=> \E u \in ToSet(v.items) : x \in Numbers(u)
    BY Zenon
  <2>2. \A x, u : x \in Numbers(u) <=> \E w \in Inside(u) : x \in Own(w)
    BY Zenon DEF Numbers
  <2> QED BY <2>1, <2>2, Zenon
<1> QED BY <1>4, <1>5

\* ... and others have their own.
LEMMA NumbersOfOther ==
  ASSUME NEW V, Closed(V), NEW v \in V, v.tag # "list"
  PROVE  Numbers(v) = Own(v)
<1>1. Inside(v) = {v} \cup UNION {Inside(u) : u \in Items(v)}
  BY InsideOf DEF Closed
<1>2. Items(v) = {}
  BY DEF Items
<1>3. Inside(v) = {v}
  BY <1>1, <1>2
<1> QED BY <1>3, Zenon DEF Numbers
-----------------------------------------------------------------------------
(* Arrays of tuples.                                                       *)

\* A number below p * q has two digits, ...
LEMMA Digits ==
  ASSUME NEW p \in Nat \ {0}, NEW q \in Nat, NEW y \in 0..p * q - 1
  PROVE  /\ y % p \in 0..p - 1 /\ y \div p \in 0..q - 1
         /\ y = (y % p) + p * (y \div p)
<1>1. y \in Nat
  OBVIOUS
<1>2. y % p \in 0..p - 1 /\ y \div p \in Nat /\ y = (y % p) + p * (y \div p)
  BY <1>1, SMTT(30)
<1>3. y \div p < q
  BY <1>2, SMTT(30)
<1> QED BY <1>2, <1>3

\* ... and any two digits are those of one.
LEMMA Compose ==
  ASSUME NEW p \in Nat \ {0}, NEW q \in Nat, NEW a \in 0..p - 1, NEW b \in 0..q - 1
  PROVE  /\ a + p * b \in 0..p * q - 1
         /\ (a + p * b) % p = a
         /\ (a + p * b) \div p = b
<1>1. p * b \in Nat /\ p * b + p <= p * q
  <2>1. p * (b + 1) <= p * q
    BY SMT
  <2>2. p * (b + 1) = p * b + p
    BY SMT
  <2> QED BY <2>1, <2>2, SMT
<1>2. a + p * b \in 0..p * q - 1
  BY <1>1
<1>3. (a + p * b) \div p = b
  BY SMTT(30)
<1>4. (a + p * b) % p = a
  BY SMTT(30)
<1> QED BY <1>2, <1>3, <1>4

\* Lists of n items each.
ListsOf(lists, V, n) ==
  /\ lists \in Seq(V) /\ lists # <<>> /\ n \in Nat
  /\ \A i \in DOMAIN lists : lists[i].items \in Seq(V) /\ Len(lists[i].items) = n

\* All items of such lists, and nothing else.
LEMMA InterleavedItems ==
  ASSUME NEW V, NEW lists, NEW n, ListsOf(lists, V, n)
  PROVE  /\ Interleaved(lists, n) \in Seq(V)
         /\ Len(Interleaved(lists, n)) = Len(lists) * n
         /\ ToSet(Interleaved(lists, n)) = UNION {ToSet(lists[i].items) : i \in DOMAIN lists}
<1> DEFINE p == Len(lists)
<1>1. /\ lists \in Seq(V) /\ n \in Nat /\ p \in Nat \ {0} /\ DOMAIN lists = 1..p /\ p * n \in Nat
      /\ \A i \in 1..p : lists[i].items \in Seq(V) /\ DOMAIN lists[i].items = 1..n
  BY EmptySeq DEF ListsOf
<1>2. Interleaved(lists, n) = [k \in 1..p * n |-> lists[((k - 1) % p) + 1].items[((k - 1) \div p) + 1]]
  BY Zenon DEF Interleaved
<1> HIDE DEF p
<1>3. ASSUME NEW k \in 1..p * n
      PROVE  /\ ((k - 1) % p) + 1 \in 1..p
             /\ ((k - 1) \div p) + 1 \in 1..n
  <2>1. k - 1 \in 0..p * n - 1
    BY <1>1
  <2>2. (k - 1) % p \in 0..p - 1 /\ (k - 1) \div p \in 0..n - 1
    BY <1>1, <2>1, Digits
  <2> QED BY <1>1, <2>2
<1>4. ASSUME NEW i \in 1..p, NEW j \in 1..n
      PROVE  \E k \in 1..p * n : ((k - 1) % p) + 1 = i /\ ((k - 1) \div p) + 1 = j
  <2>1. i - 1 \in 0..p - 1 /\ j - 1 \in 0..n - 1
    BY <1>1
  <2>2. PICK y : y = (i - 1) + p * (j - 1)
    OBVIOUS
  <2>3. y \in 0..p * n - 1 /\ y % p = i - 1 /\ y \div p = j - 1
    <3>1. PICK a, b : a = i - 1 /\ b = j - 1
      OBVIOUS
    <3>2. a \in 0..p - 1 /\ b \in 0..n - 1
      BY <2>1, <3>1
    <3>3. a + p * b \in 0..p * n - 1 /\ (a + p * b) % p = a /\ (a + p * b) \div p = b
      <4>1. p \in Nat \ {0} /\ n \in Nat
        BY <1>1
      <4> QED BY <3>2, <4>1, Compose
    <3> QED BY <2>2, <3>1, <3>3
  <2>4. y + 1 \in 1..p * n /\ (y + 1) - 1 = y
    <3>1. PICK m \in Nat : m = p * n
      BY <1>1
    <3>2. y \in 0..m - 1
      BY <2>3, <3>1
    <3>3. y + 1 \in 1..m /\ (y + 1) - 1 = y
      BY <3>2
    <3> QED BY <3>1, <3>3
  <2>5. (i - 1) + 1 = i /\ (j - 1) + 1 = j
    BY <1>1
  <2>6. (((y + 1) - 1) % p) + 1 = i /\ (((y + 1) - 1) \div p) + 1 = j
    BY <2>3, <2>4, <2>5
  <2> QED BY <2>4, <2>6
<1>5. \A i \in 1..p, j \in 1..n : lists[i].items[j] \in V
  BY <1>1
<1>6. Interleaved(lists, n) \in [1..p * n -> V]
  BY <1>2, <1>3, <1>5
<1>7. Interleaved(lists, n) \in Seq(V) /\ Len(Interleaved(lists, n)) = p * n
  BY <1>1, <1>6
<1> DEFINE all == UNION {ToSet(lists[i].items) : i \in DOMAIN lists}
<1>8. \A x : x \in all <=> \E i \in 1..p : \E j \in 1..n : x = lists[i].items[j]
  BY <1>1 DEF ToSet
<1>9. \A x : x \in ToSet(Interleaved(lists, n))
               <=> \E k \in 1..p * n : x = lists[((k - 1) % p) + 1].items[((k - 1) \div p) + 1]
  BY <1>2 DEF ToSet
<1>10. ToSet(Interleaved(lists, n)) \subseteq all
  BY <1>3, <1>8, <1>9
<1>11. ASSUME NEW x \in all PROVE x \in ToSet(Interleaved(lists, n))
  <2>1. PICK i \in 1..p, j \in 1..n : x = lists[i].items[j]
    BY <1>8
  <2>2. PICK k \in 1..p * n : ((k - 1) % p) + 1 = i /\ ((k - 1) \div p) + 1 = j
    BY <1>4
  <2> QED BY <1>9, <2>1, <2>2
<1> QED BY <1>7, <1>10, <1>11 DEF p

\* The elements of an array are as many as its sizes say and have all the
\* numbers of v, unless the lists in v are ragged.
ArrayOf(a, V, v) ==
  /\ a \in [regular : BOOLEAN, sizes : Seq(Nat), elements : Seq(V)]
  /\ a.regular => /\ Len(a.elements) = Size(a.sizes)
                  /\ UNION {Numbers(u) : u \in ToSet(a.elements)} = Numbers(v)
  /\ ~a.regular => a.elements = <<>>

\* One dimension more.
Level(a) == IF a.elements = <<>> THEN a ELSE Deeper(a)

\* The items of a list are a sequence.
LEMMA ListItems ==
  ASSUME NEW V, Closed(V), NEW v \in V, IsUnnamedList(v)
  PROVE  v.tag = "list" /\ v.items \in Seq(V)
BY DEF Closed, IsUnnamedList, Atomic, Frame, List

\* One dimension more keeps an array an array, and all its numbers.
LEMMA LevelStep ==
  ASSUME NEW V, Closed(V), NEW v, NEW a, ArrayOf(a, V, v)
  PROVE  ArrayOf(Level(a), V, v)
<1>1. CASE a.elements = <<>>
  BY <1>1 DEF Level
<1>2. CASE a.elements # <<>>
  <2> DEFINE lists == a.elements
             n == Len(lists[1].items)
  <2>1. /\ lists \in Seq(V) /\ a.sizes \in Seq(Nat) /\ a.regular
        /\ Len(lists) = Size(a.sizes)
        /\ UNION {Numbers(u) : u \in ToSet(lists)} = Numbers(v)
    BY <1>2 DEF ArrayOf
  <2>2. Level(a) = Deeper(a)
    BY <1>2 DEF Level
  <2>3. CASE ~(/\ \A i \in DOMAIN lists : IsUnnamedList(lists[i])
               /\ \A i \in DOMAIN lists : Len(lists[i].items) = n)
    <3>1. Deeper(a) = Ragged
      BY <2>3, Zenon DEF Deeper
    <3> QED BY <2>2, <3>1 DEF ArrayOf, Ragged
  <2>4. CASE /\ \A i \in DOMAIN lists : IsUnnamedList(lists[i])
             /\ \A i \in DOMAIN lists : Len(lists[i].items) = n
    <3>1. Deeper(a) = [regular |-> TRUE, sizes |-> Append(a.sizes, n), elements |-> Interleaved(lists, n)]
      BY <2>4, Zenon DEF Deeper
    <3>2. \A i \in DOMAIN lists : lists[i] \in V /\ lists[i].tag = "list" /\ lists[i].items \in Seq(V)
      <4>1. \A i \in DOMAIN lists : lists[i] \in V
        BY <2>1
      <4> QED BY <2>4, <4>1, ListItems
    <3>3. n \in Nat
      <4>1. 1 \in DOMAIN lists
        BY <1>2, <2>1, EmptySeq
      <4> QED BY <3>2, <4>1
    <3>4. ListsOf(lists, V, n)
      BY <1>2, <2>1, <2>4, <3>2, <3>3 DEF ListsOf
    <3> HIDE DEF n
    <3> DEFINE all == Interleaved(lists, n)
    <3>5. /\ all \in Seq(V) /\ Len(all) = Len(lists) * n
          /\ ToSet(all) = UNION {ToSet(lists[i].items) : i \in DOMAIN lists}
      BY <3>4, InterleavedItems
    <3> HIDE DEF all
    <3>6. Append(a.sizes, n) \in Seq(Nat) /\ Len(all) = Size(Append(a.sizes, n))
      BY <2>1, <3>3, <3>5, SizeAppend
    <3>7. UNION {Numbers(u) : u \in ToSet(all)} = Numbers(v)
      <4>1. \A i \in DOMAIN lists : Numbers(lists[i]) = UNION {Numbers(u) : u \in ToSet(lists[i].items)}
        BY <3>2, NumbersOfList
      <4>2. \A x : x \in UNION {Numbers(u) : u \in ToSet(all)}
                     <=> \E i \in DOMAIN lists : \E u \in ToSet(lists[i].items) : x \in Numbers(u)
        BY <3>5
      <4>3. \A x : x \in UNION {Numbers(u) : u \in ToSet(lists)}
                     <=> \E i \in DOMAIN lists : x \in Numbers(lists[i])
        BY DEF ToSet
      <4>4. \A x, i : i \in DOMAIN lists =>
               (x \in Numbers(lists[i]) <=> \E u \in ToSet(lists[i].items) : x \in Numbers(u))
        BY <4>1
      <4>5. \A x : x \in UNION {Numbers(u) : u \in ToSet(all)} <=> x \in UNION {Numbers(u) : u \in ToSet(lists)}
        BY <4>2, <4>3, <4>4, Zenon
      <4> QED BY <2>1, <4>5
    <3> QED BY <2>2, <3>1, <3>5, <3>6, <3>7 DEF ArrayOf, all
  <2> QED BY <2>3, <2>4
<1> QED BY <1>1, <1>2

\* tuple_array_shape() and enumerate_elements() take one dimension after another,
\* ...
UnnestTo(v, dims, V, f) ==
  /\ f[0] = [regular |-> TRUE, sizes |-> <<>>, elements |-> <<v>>]
  /\ \A k \in 1..dims : f[k] = Level(f[k - 1])
  /\ \A k \in 0..dims : ArrayOf(f[k], V, v)
  /\ Unnest(v, dims) = f[dims]

\* ... as some function does.
LEMMA UnnestFunction ==
  ASSUME NEW V, Closed(V), NEW v \in V, NEW dims \in Nat
  PROVE  \E f : UnnestTo(v, dims, V, f)
<1> DEFINE first == [regular |-> TRUE, sizes |-> <<>>, elements |-> <<v>>]
           A == {a \in [regular : BOOLEAN, sizes : Seq(Nat), elements : Seq(V)] : ArrayOf(a, V, v)}
           step == [p \in Nat \X A |-> Level(p[2])]
           array[k \in 0..dims] ==
             IF k = 0 THEN [regular |-> TRUE, sizes |-> <<>>, elements |-> <<v>>]
             ELSE IF array[k - 1].elements = <<>> THEN array[k - 1] ELSE Deeper(array[k - 1])
<1>1. first \in A
  <2>1. <<>> \in Seq(Nat) /\ <<v>> \in Seq(V) /\ Len(<<v>>) = 1
    OBVIOUS
  <2>2. ToSet(<<v>>) = {v}
    BY DEF ToSet
  <2>3. UNION {Numbers(u) : u \in {v}} = Numbers(v)
    OBVIOUS
  <2> QED BY <2>1, <2>2, <2>3, SizeEmpty DEF ArrayOf
<1>2. \A a \in A : Level(a) \in A
  <2> SUFFICES ASSUME NEW a \in A PROVE Level(a) \in A
    OBVIOUS
  <2>1. ArrayOf(Level(a), V, v)
    BY LevelStep
  <2> QED BY <2>1 DEF ArrayOf
<1> HIDE DEF A
<1>3. step \in [Nat \X A -> A]
  BY <1>2
<1>4. ASSUME NEW k \in Nat, NEW a \in A PROVE step[<<k, a>>] = Level(a)
  <2>1. <<k, a>> \in Nat \X A
    OBVIOUS
  <2> QED BY <2>1
<1> HIDE DEF step, first
<1>5. PICK f : Iterates(f, A, first, step, dims)
  BY <1>1, <1>3, Recursion
<1>6. f \in [0..dims -> A] /\ f[0] = first /\ \A k \in 1..dims : f[k] = step[<<k, f[k - 1]>>]
  BY <1>5 DEF Iterates
<1>7. \A k \in 0..dims : f[k] = IF k = 0 THEN first ELSE Level(f[k - 1])
  <2>1. ASSUME NEW k \in 1..dims PROVE f[k] = Level(f[k - 1])
    <3>1. PICK a : a = f[k - 1]
      OBVIOUS
    <3>2. a \in A /\ k \in Nat
      BY <1>6, <3>1
    <3>3. step[<<k, a>>] = Level(a)
      BY <1>4, <3>2
    <3> QED BY <1>6, <3>1, <3>3
  <2>2. \A k \in 0..dims : k # 0 => k \in 1..dims
    OBVIOUS
  <2> QED BY <1>6, <2>1, <2>2, Zenon
<1>8. \E g : g = [k \in 0..dims |-> IF k = 0 THEN first ELSE Level(g[k - 1])]
  <2>1. f = [k \in 0..dims |-> f[k]]
    BY <1>6
  <2>2. f = [k \in 0..dims |-> IF k = 0 THEN first ELSE Level(f[k - 1])]
    BY <1>7, <2>1, Zenon
  <2> QED BY <2>2
<1>9. array = [k \in 0..dims |-> IF k = 0 THEN first ELSE Level(array[k - 1])]
  BY <1>8, Zenon DEF first, Level
<1>10. Unnest(v, dims) = array[dims]
  BY DEF Unnest
<1> HIDE DEF array
<1>11. \A k \in 0..dims : array[k] = IF k = 0 THEN first ELSE Level(array[k - 1])
  BY <1>9, Zenon
<1>12. Iterates(array, A, first, step, dims)
  <2>1. IsFunctionTo(array, dims)
    <3>1. array = [k \in 0..dims |-> array[k]]
      BY <1>9
    <3> QED BY <3>1 DEF IsFunctionTo
  <2>2. array[0] = first
    BY <1>11
  <2>3. ASSUME NEW k \in 1..dims, array[k - 1] \in A PROVE array[k] = step[<<k, array[k - 1]>>]
    <3>1. array[k] = Level(array[k - 1])
      BY <1>11
    <3>2. step[<<k, array[k - 1]>>] = Level(array[k - 1])
      BY <1>4, <2>3
    <3> QED BY <3>1, <3>2
  <2> QED BY <1>1, <1>3, <2>1, <2>2, <2>3, Iterate
<1>13. \A k \in 0..dims : array[k] \in A
  BY <1>12 DEF Iterates
<1>14. \A k \in 0..dims : ArrayOf(array[k], V, v)
  BY <1>13 DEF A
<1>15. \A k \in 1..dims : array[k] = Level(array[k - 1])
  <2>1. \A k \in 1..dims : k \in 0..dims /\ k # 0
    OBVIOUS
  <2> QED BY <1>11, <2>1, Zenon
<1>16. array[0] = first
  BY <1>11
<1> QED BY <1>10, <1>14, <1>15, <1>16, Zenon DEF UnnestTo, first

\* ... and lose nothing of a value, however deep its array.
LEMMA UnnestKeeps ==
  ASSUME NEW V, Closed(V), NEW v \in V, NEW dims \in Nat
  PROVE  ArrayOf(Unnest(v, dims), V, v)
<1>1. PICK f : UnnestTo(v, dims, V, f)
  BY UnnestFunction
<1>2. dims \in 0..dims
  OBVIOUS
<1> QED BY <1>1, <1>2 DEF UnnestTo
-----------------------------------------------------------------------------
(* Storing.                                                                *)

\* Place i of windows of 2 * m holds value Window(i, m), if any.
Filled(i, m) == (i - 1) % (2 * m) < m
Window(i, m) == ((i - 1) \div (2 * m)) * m + ((i - 1) % (2 * m)) + 1

\* A place that is filled holds one of m * q values, ...
LEMMA WindowIn ==
  ASSUME NEW m \in Nat, NEW q \in Nat, NEW n, n = m * q, NEW i \in 1..2 * n, Filled(i, m)
  PROVE  Window(i, m) \in 1..n
<1>0. n \in Nat /\ m \in Nat \ {0}
  <2>1. \A a, b \in Nat : a * b \in Nat /\ 0 * b = 0
    BY SMT
  <2>2. n \in Nat /\ (m = 0 => n = 0)
    BY <2>1
  <2> QED BY <2>2
<1> PICK p, y : p = 2 * m /\ y = i - 1
  OBVIOUS
<1>1. p \in Nat \ {0} /\ p * q = 2 * n
  <2>1. \A a, b \in Nat : (2 * a) * b = 2 * (a * b)
    BY SMT
  <2> QED BY <1>0, <2>1
<1>2. y \in 0..p * q - 1
  BY <1>0, <1>1
<1>3. PICK a, b : a = y % p /\ b = y \div p
  OBVIOUS
<1>4. a \in 0..p - 1 /\ b \in 0..q - 1
  BY <1>1, <1>2, <1>3, Digits
<1>5. a \in 0..m - 1
  BY <1>3, <1>4 DEF Filled
<1>6. a + m * b \in 0..m * q - 1
  BY <1>0, <1>4, <1>5, Compose
<1>7. Window(i, m) = b * m + a + 1
  BY <1>3 DEF Window
<1>8. b * m = m * b /\ m * b \in Nat
  BY <1>4, SMT
<1> QED BY <1>0, <1>5, <1>6, <1>7, <1>8

\* ... and every value has a place.
LEMMA WindowOnto ==
  ASSUME NEW m \in Nat, NEW q \in Nat, NEW n, n = m * q, NEW j \in 1..n
  PROVE  \E i \in 1..2 * n : Filled(i, m) /\ Window(i, m) = j
<1>0. n \in Nat /\ m \in Nat \ {0}
  <2>1. \A a, b \in Nat : a * b \in Nat /\ 0 * b = 0
    BY SMT
  <2>2. n \in Nat /\ (m = 0 => n = 0)
    BY <2>1
  <2> QED BY <2>2
<1> PICK p : p = 2 * m
  OBVIOUS
<1>1. p \in Nat \ {0} /\ p * q = 2 * n
  <2>1. \A a, b \in Nat : (2 * a) * b = 2 * (a * b)
    BY SMT
  <2> QED BY <1>0, <2>1
<1>2. j - 1 \in 0..m * q - 1
  BY <1>0
<1>3. PICK a, b : a = (j - 1) % m /\ b = (j - 1) \div m
  OBVIOUS
<1>4. a \in 0..m - 1 /\ b \in 0..q - 1 /\ j - 1 = a + m * b
  BY <1>0, <1>2, <1>3, Digits
<1>5. a \in 0..p - 1
  BY <1>0, <1>4
<1>6. PICK y : y = a + p * b
  OBVIOUS
<1>7. y \in 0..p * q - 1 /\ y % p = a /\ y \div p = b
  BY <1>1, <1>4, <1>5, <1>6, Compose
<1>8. y + 1 \in 1..2 * n /\ (y + 1) - 1 = y
  BY <1>0, <1>1, <1>7
<1>9. Filled(y + 1, m)
  BY <1>0, <1>4, <1>7, <1>8 DEF Filled
<1>10. Window(y + 1, m) = b * m + a + 1
  BY <1>7, <1>8 DEF Window
<1>11. b * m = m * b /\ m * b \in Nat
  BY <1>4, SMT
<1> QED BY <1>0, <1>4, <1>8, <1>9, <1>10, <1>11

\* An entry without NA, of integers where all are whole.
Clean(entry) ==
  /\ ~Has(entry.vals, "na")
  /\ entry.kind \in {"ints", "reals"} => (entry.kind = "ints" <=> ~Has(entry.vals, "part"))

Kept(entry) == ToSet(entry.vals) \ {Padding}

\* A number is not padding, and its sort is one of three.
LEMMA NumberSort ==
  ASSUME NEW vals \in Seq(Number)
  PROVE  /\ Kept([vals |-> vals]) = ToSet(vals)
         /\ \A i \in DOMAIN vals : vals[i].sort \in {"whole", "part", "na"}
<1>1. \A i \in DOMAIN vals : vals[i] \in Number
  BY LenProperties
<1>2. Padding \notin ToSet(vals)
  BY <1>1 DEF ToSet, Number
<1> QED BY <1>1, <1>2 DEF Kept, Number

\* store_numeric() keeps the values, as what they are.
LEMMA StoreNumericKeeps ==
  ASSUME NEW vals \in Seq(Number), NEW dims, StoreNumeric(vals, dims) # Stop
  PROVE  LET e == StoreNumeric(vals, dims) IN
         /\ Clean(e) /\ Kept(e) = ToSet(vals)
         /\ e.kind # "complexes" /\ e.vals = vals /\ e.dims = dims
<1>1. \A i \in DOMAIN vals : vals[i].sort \in {"whole", "part", "na"}
  BY NumberSort
<1>2. \A e : e.vals = vals => Kept(e) = ToSet(vals)
  BY NumberSort DEF Kept
<1>3. CASE \A i \in DOMAIN vals : vals[i].sort = "whole"
  <2>1. StoreNumeric(vals, dims) = [kind |-> "ints", vals |-> vals, dims |-> dims]
    BY <1>3 DEF StoreNumeric, EntryOf
  <2> QED BY <1>2, <1>3, <2>1 DEF Clean, Has
<1>4. CASE ~\A i \in DOMAIN vals : vals[i].sort = "whole"
  <2>1. /\ StoreNumeric(vals, dims) = [kind |-> "reals", vals |-> vals, dims |-> dims]
        /\ ~Has(vals, "na")
    BY <1>4 DEF StoreNumeric, EntryOf
  <2>2. Has(vals, "part")
    BY <1>1, <1>4, <2>1 DEF Has
  <2> QED BY <1>2, <2>1, <2>2 DEF Clean
<1> QED BY <1>3, <1>4

\* store_complex() keeps the values, dense or in windows.
LEMMA StoreComplexKeeps ==
  ASSUME NEW vals \in Seq(Number), NEW dims \in Seq(Nat), NEW enclosing \in Nat,
         StoreComplex(vals, dims, enclosing) # Stop
  PROVE  LET e == StoreComplex(vals, dims, enclosing) IN
         /\ Clean(e) /\ Kept(e) = ToSet(vals)
         /\ e.kind = "complexes" /\ e.dims = dims \o <<2>>
         /\ Len(e.vals) = IF enclosing > Len(dims) THEN Len(vals) ELSE 2 * Len(vals)
<1> DEFINE elements == Size(SubSeq(dims, 1, enclosing))
           m == Len(vals) \div elements
           windows == [i \in 1..2 * Len(vals) |-> IF Filled(i, m) THEN vals[Window(i, m)] ELSE Padding]
<1>1. \A i \in DOMAIN vals : vals[i].sort \in {"whole", "part", "na"}
  BY NumberSort
<1>2. Kept([vals |-> vals]) = ToSet(vals)
  BY NumberSort
<1>3. ~Has(vals, "na")
  BY DEF StoreComplex
<1>4. CASE enclosing > Len(dims)
  <2>1. StoreComplex(vals, dims, enclosing) = [kind |-> "complexes", vals |-> vals, dims |-> dims \o <<2>>]
    BY <1>3, <1>4 DEF StoreComplex, EntryOf
  <2> QED BY <1>2, <1>3, <1>4, <2>1 DEF Clean, Kept
<1>5. CASE ~(enclosing > Len(dims))
  <2>1. /\ elements # 0 /\ Len(vals) % elements = 0
        /\ StoreComplex(vals, dims, enclosing) = [kind |-> "complexes", vals |-> windows, dims |-> dims \o <<2>>]
    BY <1>3, <1>5 DEF StoreComplex, EntryOf, Filled, Window
  <2>2. elements \in Nat
    <3>1. SubSeq(dims, 1, enclosing) \in Seq(Nat)
      BY <1>5
    <3> QED BY <3>1, SizeNat
  <2>3. DOMAIN vals = 1..Len(vals) /\ Len(vals) \in Nat
    OBVIOUS
  <2> HIDE DEF elements
  <2>4. m \in Nat /\ m * elements = Len(vals)
    <3>1. PICK a, b : a = Len(vals) /\ b = elements
      OBVIOUS
    <3>2. a \in Nat /\ b \in Nat \ {0} /\ a % b = 0
      BY <2>1, <2>2, <2>3, <3>1
    <3>3. a \div b \in Nat /\ (a \div b) * b = a
      BY <3>2, SMTT(30)
    <3> QED BY <3>1, <3>3
  <2> HIDE DEF m
  <2>5. ASSUME NEW i \in 1..2 * Len(vals), Filled(i, m) PROVE Window(i, m) \in 1..Len(vals)
    BY <2>2, <2>4, <2>5, WindowIn
  <2>6. ASSUME NEW j \in 1..Len(vals)
        PROVE  \E i \in 1..2 * Len(vals) : Filled(i, m) /\ Window(i, m) = j
    BY <2>2, <2>4, WindowOnto
  <2>7. \A i \in 1..2 * Len(vals) : windows[i] = IF Filled(i, m) THEN vals[Window(i, m)] ELSE Padding
    OBVIOUS
  <2>8. DOMAIN windows = 1..2 * Len(vals) /\ Len(windows) = 2 * Len(vals)
    BY <2>3
  <2> HIDE DEF windows
  <2>9. \A j \in 1..Len(vals) : vals[j] # Padding /\ vals[j].sort # "na"
    <3>1. \A j \in 1..Len(vals) : vals[j] \in Number
      BY <2>3
    <3>2. \A j \in 1..Len(vals) : vals[j].sort # "na"
      BY <1>3, <2>3 DEF Has
    <3> QED BY <3>1, <3>2 DEF Number
  <2>10. ~Has(windows, "na")
    <3>1. Padding.sort # "na"
      BY DEF Padding
    <3>2. \A i \in 1..2 * Len(vals) : windows[i].sort # "na"
      BY <2>5, <2>7, <2>9, <3>1
    <3> QED BY <2>8, <3>2 DEF Has
  <2>11. ToSet(windows) \ {Padding} = ToSet(vals)
    <3>1. \A x : x \in ToSet(windows) <=> \E i \in 1..2 * Len(vals) : x = windows[i]
      BY <2>8 DEF ToSet
    <3>2. \A x : x \in ToSet(vals) <=> \E j \in 1..Len(vals) : x = vals[j]
      BY <2>3 DEF ToSet
    <3>3. ASSUME NEW x \in ToSet(windows), x # Padding PROVE x \in ToSet(vals)
      <4>1. PICK i \in 1..2 * Len(vals) : x = windows[i]
        BY <3>1
      <4>2. Filled(i, m) /\ x = vals[Window(i, m)]
        BY <2>7, <3>3, <4>1
      <4> QED BY <2>5, <3>2, <4>2
    <3>4. ASSUME NEW x \in ToSet(vals) PROVE x \in ToSet(windows) /\ x # Padding
      <4>1. PICK j \in 1..Len(vals) : x = vals[j]
        BY <3>2
      <4>2. PICK i \in 1..2 * Len(vals) : Filled(i, m) /\ Window(i, m) = j
        BY <2>6
      <4>3. windows[i] = x
        BY <2>7, <4>1, <4>2
      <4> QED BY <2>9, <3>1, <4>1, <4>3
    <3> QED BY <3>3, <3>4
  <2> QED BY <1>5, <2>1, <2>8, <2>10, <2>11 DEF Clean, Kept
<1> QED BY <1>4, <1>5

\* As many values as the dimensions say, two per complex number of a tuple.
Fits(entry, dotted) ==
  Size(entry.dims) = IF entry.kind = "complexes" /\ ~dotted THEN 2 * Len(entry.vals) ELSE Len(entry.vals)

\* A complex number is two values.
LEMMA SizeTwo ==
  ASSUME NEW s \in Seq(Nat)
  PROVE  Size(s \o <<2>>) = 2 * Size(s)
<1>1. <<2>> \in Seq(Nat) /\ Size(<<2>>) = 2
  BY SizeOne
<1>2. Size(s \o <<2>>) = Size(s) * 2
  BY <1>1, SizeConcat
<1> QED BY <1>2, SizeNat

\* What a sequence has depends on its elements alone.
LEMMA HasOfSet ==
  ASSUME NEW vals, NEW sort
  PROVE  Has(vals, sort) <=> \E x \in ToSet(vals) : x.sort = sort
BY DEF Has, ToSet

\* add_value() keeps a vector, with its dimensions.
LEMMA AtomicEntryKeeps ==
  ASSUME NEW v \in Atomic, Consistent(v), NEW name, AtomicEntry(name, v) # Stop
  PROVE  LET e == AtomicEntry(name, v) IN
         Clean(e) /\ Kept(e) = ToSet(v.vals) /\ Fits(e, Dotted(name))
<1> DEFINE n == Len(v.vals)
           dims == IF v.dim # <<>> THEN v.dim ELSE IF n # 1 THEN <<n>> ELSE <<>>
           e == AtomicEntry(name, v)
<1>1. v.tag = "atomic" /\ v.vals \in Seq(Number) /\ v.dim \in Seq(Nat) /\ n \in Nat
  BY DEF Atomic
<1>2. dims \in Seq(Nat) /\ Size(dims) = n
  <2>1. CASE v.dim # <<>>
    BY <1>1, <2>1 DEF Consistent
  <2>2. CASE v.dim = <<>> /\ n # 1
    <3>1. <<n>> \in Seq(Nat) /\ Size(<<n>>) = n
      BY <1>1, SizeOne
    <3> QED BY <2>2, <3>1
  <2>3. CASE v.dim = <<>> /\ n = 1
    BY <2>3, SizeEmpty
  <2> QED BY <2>1, <2>2, <2>3
<1>3. CASE v.kind \in {"int", "lgl"}
  <2>1. ~Has(v.vals, "na") /\ e = [kind |-> "ints", vals |-> v.vals, dims |-> dims]
    BY <1>3 DEF AtomicEntry, EntryOf
  <2>2. ~Has(v.vals, "part")
    BY <1>1, <1>3 DEF Consistent
  <2>3. Kept(e) = ToSet(v.vals)
    BY <1>1, <2>1, NumberSort DEF Kept
  <2> HIDE DEF e, dims
  <2> QED BY <1>2, <2>1, <2>2, <2>3 DEF Clean, Fits, e
<1>4. CASE v.kind = "real"
  <2>1. e = StoreNumeric(v.vals, dims)
    BY <1>4 DEF AtomicEntry
  <2> HIDE DEF dims
  <2>2. Clean(e) /\ Kept(e) = ToSet(v.vals) /\ e.kind # "complexes" /\ e.vals = v.vals /\ e.dims = dims
    BY <1>1, <2>1, StoreNumericKeeps
  <2> QED BY <1>2, <2>2 DEF Fits
<1>5. CASE v.kind = "complex"
  <2> DEFINE enclosing == IF Dotted(name) THEN Len(dims) ELSE Len(dims) + 1
  <2>1. e = StoreComplex(v.vals, dims, enclosing)
    BY <1>5 DEF AtomicEntry
  <2>2. Len(dims) \in Nat /\ enclosing \in Nat /\ (enclosing > Len(dims) <=> ~Dotted(name))
    BY <1>2
  <2> HIDE DEF dims, enclosing
  <2>3. /\ Clean(e) /\ Kept(e) = ToSet(v.vals)
        /\ e.kind = "complexes" /\ e.dims = dims \o <<2>>
        /\ Len(e.vals) = IF enclosing > Len(dims) THEN n ELSE 2 * n
    <3>1. StoreComplex(v.vals, dims, enclosing) # Stop
      BY <2>1
    <3> HIDE DEF e
    <3> QED BY <1>1, <1>2, <2>1, <2>2, <3>1, StoreComplexKeeps
  <2>4. Size(e.dims) = 2 * n
    BY <1>2, <2>3, SizeTwo
  <2> HIDE DEF e, n
  <2>5. Fits(e, Dotted(name))
    BY <1>1, <2>2, <2>3, <2>4 DEF Fits
  <2> QED BY <2>3, <2>5 DEF e
<1>6. CASE v.kind = "chr"
  BY <1>6 DEF AtomicEntry
<1> QED BY <1>3, <1>4, <1>5, <1>6 DEF Atomic

\* A data frame is kept as the matrix of its columns.
LEMMA FrameEntryKeeps ==
  ASSUME NEW v \in Frame, Consistent(v), NEW name, FrameEntry(name, v) # Stop
  PROVE  LET e == FrameEntry(name, v) IN
         Clean(e) /\ Kept(e) = Own(v) /\ Fits(e, Dotted(name))
<1> DEFINE kinds  == {v.cols[c].kind : c \in DOMAIN v.cols}
           rows   == IF v.cols = <<>> THEN 0 ELSE Len(v.cols[1].vals)
           pieces == [c \in DOMAIN v.cols |-> v.cols[c].vals]
           matrix == [tag |-> "atomic", dim |-> <<rows, Len(v.cols)>>,
                      kind |-> IF "complex" \in kinds THEN "complex"
                               ELSE IF "real" \in kinds THEN "real" ELSE "int",
                      vals |-> FlattenSeq(pieces)]
<1>1. v.tag = "frame" /\ v.cols \in Seq(Atomic) /\ DOMAIN v.cols = 1..Len(v.cols) /\ Len(v.cols) \in Nat
  BY DEF Frame
<1>2. \A c \in DOMAIN v.cols : v.cols[c] \in Atomic /\ v.cols[c].vals \in Seq(Number)
  <2>1. \A c \in DOMAIN v.cols : v.cols[c] \in Atomic
    BY <1>1
  <2> QED BY <2>1 DEF Atomic
<1>3. rows \in Nat /\ \A c \in DOMAIN v.cols : Len(v.cols[c].vals) = rows
  <2>1. CASE v.cols = <<>>
    BY <1>1, <2>1
  <2>2. CASE v.cols # <<>>
    <3>1. 1 \in DOMAIN v.cols
      BY <1>1, <2>2, EmptySeq
    <3> QED BY <1>1, <1>2, <2>2, <3>1 DEF Consistent
  <2> QED BY <2>1, <2>2
<1>4. kinds \subseteq {"int", "real", "complex"} /\ FrameEntry(name, v) = AtomicEntry(name, matrix)
  BY DEF FrameEntry
<1> HIDE DEF rows
<1>5. pieces \in Seq(Seq(Number)) /\ DOMAIN pieces = DOMAIN v.cols /\ Len(pieces) = Len(v.cols)
      /\ \A c \in DOMAIN pieces : pieces[c] = v.cols[c].vals
  BY <1>1, <1>2
<1> HIDE DEF pieces
<1>6. FlattenSeq(pieces) \in Seq(Number) /\ ToSet(FlattenSeq(pieces)) = Own(v)
  <2>1. /\ FlattenSeq(pieces) \in Seq(Number)
        /\ ToSet(FlattenSeq(pieces)) = UNION {ToSet(pieces[c]) : c \in DOMAIN pieces}
    BY <1>5, FlattenRange
  <2>2. Own(v) = UNION {ToSet(v.cols[c].vals) : c \in DOMAIN v.cols}
    BY <1>1 DEF Own
  <2>3. \A x : x \in UNION {ToSet(pieces[c]) : c \in DOMAIN pieces}
                 <=> x \in UNION {ToSet(v.cols[c].vals) : c \in DOMAIN v.cols}
    BY <1>5
  <2> QED BY <2>1, <2>2, <2>3
<1>7. Len(FlattenSeq(pieces)) = Len(v.cols) * rows
  BY <1>3, <1>5, FlattenLen
<1>8. matrix \in Atomic
  <2>1. <<rows, Len(v.cols)>> \in Seq(Nat)
    BY <1>1, <1>3
  <2> QED BY <1>6, <2>1 DEF Atomic
<1>9. Consistent(matrix)
  <2>1. Size(<<rows, Len(v.cols)>>) = rows * Len(v.cols)
    <3>1. <<rows, Len(v.cols)>> = Append(<<rows>>, Len(v.cols)) /\ <<rows>> \in Seq(Nat)
      BY <1>3
    <3> QED BY <1>1, <1>3, <3>1, SizeAppend, SizeOne
  <2>2. rows * Len(v.cols) = Len(v.cols) * rows
    BY <1>1, <1>3
  <2>3. matrix.kind # "lgl" /\ (matrix.kind = "int" => ~Has(FlattenSeq(pieces), "part"))
    <3> SUFFICES ASSUME matrix.kind = "int", NEW x \in ToSet(FlattenSeq(pieces)), x.sort = "part"
                 PROVE  FALSE
      BY HasOfSet
    <3>1. PICK c \in DOMAIN v.cols : x \in ToSet(v.cols[c].vals)
      BY <1>1, <1>6 DEF Own
    <3>2. v.cols[c].kind = "int"
      BY <1>4
    <3>3. ~Has(v.cols[c].vals, "part")
      BY <1>1, <3>2 DEF Consistent
    <3> QED BY <3>1, <3>3, HasOfSet
  <2> QED BY <1>7, <2>1, <2>2, <2>3 DEF Consistent
<1> HIDE DEF matrix
<1>10. AtomicEntry(name, matrix) # Stop /\ matrix.vals = FlattenSeq(pieces)
  BY <1>4 DEF matrix
<1> QED BY <1>4, <1>6, <1>8, <1>9, <1>10, AtomicEntryKeeps

\* What is left to flatten of the values V: slots of these, ...
SlotType(V) == [name : Names, there : Seq(V), sizes : Seq(Nat), decl : Types]

\* ... where they have one value for each element of the enclosing arrays.
Filling(slot) == Len(slot.there) = Size(slot.sizes)

NumbersThere(slot) == UNION {Numbers(u) : u \in ToSet(slot.there)}

\* What flatten_leaf() stores: the payloads of all enclosing elements, one after
\* another, with the dimensions of the arrays and those of a payload.
IsLeaf(leaf, V, pieces, shape) ==
  /\ leaf.there \in Seq(V) /\ leaf.sizes \in Seq(Nat) /\ shape \in Seq(Nat) /\ leaf.there # <<>>
  /\ pieces \in Seq(Seq(Number)) /\ DOMAIN pieces = DOMAIN leaf.there /\ Len(pieces) = Len(leaf.there)
  /\ \A i \in DOMAIN leaf.there :
       leaf.there[i] \in V /\ leaf.there[i].tag = "atomic" /\ pieces[i] = leaf.there[i].vals
  /\ LeafEntry(leaf) = IF leaf.decl.kind = "complex"
                       THEN StoreComplex(FlattenSeq(pieces), leaf.sizes \o shape, Len(leaf.sizes))
                       ELSE StoreNumeric(FlattenSeq(pieces), leaf.sizes \o shape)
  /\ (\A w \in V : w.tag = "atomic" => w.vals # <<>>) =>
       \A i \in DOMAIN pieces : Len(pieces[i]) = Size(shape)

\* Its payloads have one shape and, where none is empty, as many values as that.
LEMMA LeafParts ==
  ASSUME NEW V, Closed(V), NEW leaf \in SlotType(V), LeafEntry(leaf) # Stop
  PROVE  \E pieces, shape : IsLeaf(leaf, V, pieces, shape)
<1> DEFINE there  == leaf.there
           shapes == [i \in DOMAIN there |-> PayloadShape(there[i])]
           pieces == [i \in DOMAIN there |-> there[i].vals]
           vals   == FlattenSeq(pieces)
           dims   == leaf.sizes \o shapes[1]
<1>1. /\ there # <<>> /\ AllEqual(shapes) /\ \A i \in DOMAIN there : there[i].tag = "atomic"
      /\ LeafEntry(leaf) = IF leaf.decl.kind = "complex" THEN StoreComplex(vals, dims, Len(leaf.sizes))
                           ELSE StoreNumeric(vals, dims)
  BY DEF LeafEntry
<1>2. /\ there \in Seq(V) /\ DOMAIN there = 1..Len(there) /\ Len(there) \in Nat /\ 1 \in DOMAIN there
      /\ leaf.sizes \in Seq(Nat)
  BY <1>1, EmptySeq DEF SlotType
<1>3. \A i \in DOMAIN there : there[i] \in V /\ there[i] \in Atomic /\ Consistent(there[i])
  <2>1. \A i \in DOMAIN there : there[i] \in V
    BY <1>2
  <2> QED BY <1>1, <2>1 DEF Closed, Frame, List
<1>4. /\ \A i \in DOMAIN there : /\ there[i].vals \in Seq(Number) /\ there[i].dim \in Seq(Nat)
                                 /\ shapes[i] = PayloadShape(there[i]) /\ shapes[i] \in Seq(Nat)
                                 /\ shapes[i] = shapes[1]
  <2>1. \A i \in DOMAIN there : there[i].vals \in Seq(Number) /\ there[i].dim \in Seq(Nat)
    BY <1>3 DEF Atomic
  <2>2. \A i \in DOMAIN there : PayloadShape(there[i]) \in Seq(Nat)
    <3> SUFFICES ASSUME NEW i \in DOMAIN there PROVE PayloadShape(there[i]) \in Seq(Nat)
      OBVIOUS
    <3>1. Len(there[i].vals) \in Nat /\ <<>> \in Seq(Nat)
      BY <2>1
    <3>2. <<Len(there[i].vals)>> \in Seq(Nat)
      BY <3>1
    <3> QED BY <2>1, <3>1, <3>2 DEF PayloadShape
  <2>3. DOMAIN shapes = DOMAIN there /\ \A i \in DOMAIN there : shapes[i] = PayloadShape(there[i])
    OBVIOUS
  <2>4. \A i \in DOMAIN there : shapes[i] = shapes[1]
    BY <1>1, <2>3 DEF AllEqual
  <2> HIDE DEF shapes
  <2> QED BY <2>1, <2>2, <2>3, <2>4
<1> HIDE DEF shapes
<1>5. pieces \in Seq(Seq(Number)) /\ DOMAIN pieces = DOMAIN there /\ Len(pieces) = Len(there)
      /\ \A i \in DOMAIN pieces : pieces[i] = there[i].vals
  BY <1>2, <1>4
<1> HIDE DEF pieces
<1>6. ASSUME \A w \in V : w.tag = "atomic" => w.vals # <<>>, NEW i \in DOMAIN there
      PROVE  Len(there[i].vals) = Size(shapes[1])
  <2>1. there[i].vals \in Seq(Number) /\ there[i].vals # <<>>
    BY <1>1, <1>3, <1>4, <1>6
  <2>2. Len(there[i].vals) \in Nat \ {0}
    BY <2>1, EmptySeq
  <2>3. CASE there[i].dim # <<>>
    BY <1>1, <1>3, <1>4, <2>3 DEF Consistent, PayloadShape
  <2>4. CASE there[i].dim = <<>> /\ Len(there[i].vals) > 1
    BY <1>4, <2>2, <2>4, SizeOne DEF PayloadShape
  <2>5. CASE there[i].dim = <<>> /\ ~(Len(there[i].vals) > 1)
    <3>1. PayloadShape(there[i]) = <<>>
      BY <2>5 DEF PayloadShape
    <3>2. Len(there[i].vals) = 1
      <4>1. \A l \in Nat \ {0} : ~(l > 1) => l = 1
        OBVIOUS
      <4> QED BY <2>2, <2>5, <4>1
    <3>3. shapes[1] = <<>>
      BY <1>4, <3>1
    <3> QED BY <3>2, <3>3, SizeEmpty
  <2> QED BY <2>3, <2>4, <2>5
<1>7. IsLeaf(leaf, V, pieces, shapes[1])
  BY <1>1, <1>2, <1>3, <1>4, <1>5, <1>6 DEF IsLeaf
<1> QED BY <1>7

\* flatten_leaf() keeps the values of all enclosing elements.
LEMMA LeafEntryKeeps ==
  ASSUME NEW V, Closed(V), NEW leaf \in SlotType(V), LeafEntry(leaf) # Stop
  PROVE  LET e == LeafEntry(leaf) IN
         /\ Clean(e) /\ Kept(e) = NumbersThere(leaf)
         /\ Filling(leaf) /\ (\A w \in V : w.tag = "atomic" => w.vals # <<>>) => Fits(e, TRUE)
<1>1. PICK pieces, shape : IsLeaf(leaf, V, pieces, shape)
  BY LeafParts
<1> DEFINE there == leaf.there
           vals  == FlattenSeq(pieces)
           dims  == leaf.sizes \o shape
           e     == LeafEntry(leaf)
<1>2. /\ there \in Seq(V) /\ leaf.sizes \in Seq(Nat) /\ shape \in Seq(Nat)
      /\ \A i \in DOMAIN there : there[i] \in V /\ there[i].tag = "atomic" /\ pieces[i] = there[i].vals
  BY <1>1 DEF IsLeaf
<1>3. /\ e = IF leaf.decl.kind = "complex" THEN StoreComplex(vals, dims, Len(leaf.sizes))
             ELSE StoreNumeric(vals, dims)
      /\ e # Stop
  BY <1>1 DEF IsLeaf
<1> HIDE DEF e
<1>5. pieces \in Seq(Seq(Number)) /\ DOMAIN pieces = DOMAIN there /\ Len(pieces) = Len(there)
  BY <1>1 DEF IsLeaf
<1>6. vals \in Seq(Number) /\ ToSet(vals) = NumbersThere(leaf)
  <2>1. vals \in Seq(Number) /\ ToSet(vals) = UNION {ToSet(pieces[i]) : i \in DOMAIN pieces}
    BY <1>5, FlattenRange
  <2>2. \A i \in DOMAIN there : Numbers(there[i]) = ToSet(there[i].vals)
    <3> SUFFICES ASSUME NEW i \in DOMAIN there PROVE Numbers(there[i]) = ToSet(there[i].vals)
      OBVIOUS
    <3>1. Numbers(there[i]) = Own(there[i])
      BY <1>2, NumbersOfOther
    <3> QED BY <1>2, <3>1 DEF Own
  <2>3. \A x : x \in NumbersThere(leaf) <=> \E i \in DOMAIN there : x \in Numbers(there[i])
    BY DEF NumbersThere, ToSet
  <2>4. \A x : x \in UNION {ToSet(pieces[i]) : i \in DOMAIN pieces}
                 <=> \E i \in DOMAIN there : x \in ToSet(there[i].vals)
    BY <1>2, <1>5
  <2>5. \A x : x \in ToSet(vals) <=> x \in NumbersThere(leaf)
    <3>1. \A x : x \in ToSet(vals) <=> \E i \in DOMAIN there : x \in ToSet(there[i].vals)
      BY <2>1, <2>4, Zenon
    <3>2. \A x : x \in NumbersThere(leaf) <=> \E i \in DOMAIN there : x \in ToSet(there[i].vals)
      BY <2>2, <2>3, Zenon
    <3> QED BY <3>1, <3>2, Zenon
  <2> HIDE DEF vals
  <2> QED BY <2>1, <2>5
<1>7. dims \in Seq(Nat) /\ Len(dims) \in Nat /\ Len(leaf.sizes) \in Nat /\ ~(Len(leaf.sizes) > Len(dims))
      /\ Size(dims) = Size(leaf.sizes) * Size(shape)
  <2>1. /\ dims \in Seq(Nat) /\ Len(dims) = Len(leaf.sizes) + Len(shape)
        /\ Len(leaf.sizes) \in Nat /\ Len(shape) \in Nat
    BY <1>2
  <2>2. Size(dims) = Size(leaf.sizes) * Size(shape)
    BY <1>2, SizeConcat
  <2> HIDE DEF dims
  <2> QED BY <2>1, <2>2
<1>8. ASSUME Filling(leaf), \A w \in V : w.tag = "atomic" => w.vals # <<>>
      PROVE  Size(dims) = Len(vals)
  <2>1. \A i \in DOMAIN pieces : Len(pieces[i]) = Size(shape)
    BY <1>1, <1>8 DEF IsLeaf
  <2>2. Size(shape) \in Nat
    BY <1>2, SizeNat
  <2>3. Len(vals) = Len(there) * Size(shape)
    BY <1>5, <2>1, <2>2, FlattenLen
  <2> QED BY <1>7, <1>8, <2>3 DEF Filling
<1> HIDE DEF vals, dims
<1>9. CASE leaf.decl.kind = "complex"
  <2>1. e = StoreComplex(vals, dims, Len(leaf.sizes)) /\ e # Stop
    BY <1>3, <1>9
  <2>2. /\ Clean(e) /\ Kept(e) = ToSet(vals)
        /\ e.kind = "complexes" /\ e.dims = dims \o <<2>> /\ Len(e.vals) = 2 * Len(vals)
    BY <1>6, <1>7, <2>1, StoreComplexKeeps
  <2>3. Size(e.dims) = 2 * Size(dims)
    BY <1>7, <2>2, SizeTwo
  <2> QED BY <1>6, <1>8, <2>2, <2>3 DEF Fits, e
<1>10. CASE leaf.decl.kind # "complex"
  <2>1. e = StoreNumeric(vals, dims) /\ e # Stop
    BY <1>3, <1>10
  <2>2. Clean(e) /\ Kept(e) = ToSet(vals) /\ e.kind # "complexes" /\ e.vals = vals /\ e.dims = dims
    BY <1>6, <2>1, StoreNumericKeeps
  <2> QED BY <1>6, <1>8, <2>2 DEF Fits, e
<1> QED BY <1>9, <1>10
-----------------------------------------------------------------------------
(* The invariants.                                                         *)

Values(i) == Inside(input[i].value)

TypeInv ==
  /\ input \in Inputs
  /\ at \in 0..Len(input)
  /\ pending # <<>> => at # 0 /\ pending \in Seq(SlotType(Values(at)))
  /\ status \in {"names", "adding", "built", "stopped"}
  /\ status = "built" => pending = <<>> /\ at = Len(input)
  /\ status = "names" => pending = <<>> /\ at = 0 /\ values_ = <<>>

\* The names by which the entries of an element of the list are known.
Owns(element, n) ==
  IF element.value.tag = "list"
  THEN n.base = element.name.base /\ Dotted(n) /\ n \notin reserved_names_
  ELSE n = element.name

\* Names and elements go together: what is stored, and what is yet to be
\* flattened, belongs to an element that has been taken up, and to no other.
NamesInv ==
  status \in {"adding", "built"} =>
    /\ reserved_names_ = {input[i].name : i \in DOMAIN input}
    /\ \A i, j \in DOMAIN input : input[i].name = input[j].name => i = j
    /\ \A i \in 1..at : input[i].value.tag = "list" => input[i].name \in DOMAIN Decls
    /\ \A n \in DOMAIN values_ : \E i \in 1..at : Owns(input[i], n)
    /\ \A slot \in ToSet(pending) :
         /\ input[at].value.tag = "list" /\ slot.name.base = input[at].name.base
         /\ slot.decl.kind # "tuple" => Dotted(slot.name)

\* The numbers yet to be stored.
NumbersPending == UNION {NumbersThere(slot) : slot \in ToSet(pending)}

\* The numbers of an element are in its entries or yet to be stored.
NumbersInv ==
  status \in {"adding", "built"} => \A i \in 1..at :
    Numbers(input[i].value) = Stored(input[i]) \cup (IF i = at THEN NumbersPending ELSE {})

LengthsInv ==
  /\ \A slot \in ToSet(pending) : Filling(slot)
  /\ NoEmptyPayload => \A n \in DOMAIN values_ : Fits(values_[n], Dotted(n))

CleanInv == \A n \in DOMAIN values_ : Clean(values_[n])
-----------------------------------------------------------------------------
(* Steps.                                                                  *)

\* What the list supplies.
LEMMA ValuesClosed ==
  ASSUME TypeInv, NEW i \in DOMAIN input
  PROVE  /\ Closed(Values(i)) /\ input[i].value \in Values(i)
         /\ input[i].name \in Names
<1>1. input \in Inputs
  BY DEF TypeInv
<1>2. Closed(Values(i))
  BY <1>1, DataAssumption, Zenon DEF Closed, Values
<1>3. input \in Seq([name : Names, value : {input[j].value : j \in DOMAIN input}])
  BY <1>1, DataAssumption, Zenon
<1>4. input[i].name \in Names
  <2>1. PICK S : input \in Seq([name : Names, value : S])
    BY <1>3
  <2>2. i \in 1..Len(input)
    BY <2>1, LenProperties
  <2>3. input[i] \in [name : Names, value : S]
    BY <2>1, <2>2, ElementOfSeq
  <2> QED BY <2>3
<1>5. 0 \in 0..Nesting
  BY DataAssumption
<1>6. input[i].value \in Values(i)
  <2>1. input[i].value \in Levels(input[i].value)[0]
    BY LevelsFunction
  <2> QED BY <1>5, <2>1, Zenon DEF Values, Inside
<1> QED BY <1>2, <1>4, <1>6

\* How many elements the list has, and have been taken up.
LEMMA InputLen ==
  ASSUME TypeInv
  PROVE  Len(input) \in Nat /\ DOMAIN input = 1..Len(input) /\ at \in Nat
<1>1. input \in Seq([name : Names, value : {input[j].value : j \in DOMAIN input}])
  BY DataAssumption, Zenon DEF TypeInv
<1>2. Len(input) \in Nat /\ DOMAIN input = 1..Len(input)
  BY <1>1, LenProperties
<1>3. at \in 0..Len(input)
  BY DEF TypeInv
<1> QED BY <1>2, <1>3

\* What flatten_recurse() makes of a slot that is a tuple or an array of tuples.
Unpacks(slot, arrays, inner, elements, slots) ==
  /\ arrays = [i \in DOMAIN slot.there |-> Unnest(slot.there[i], slot.decl.dims)]
  /\ inner = IF arrays = <<>> THEN <<>> ELSE arrays[1].sizes
  /\ elements = FlattenSeq([i \in DOMAIN arrays |-> arrays[i].elements])
  /\ \A i \in DOMAIN arrays : arrays[i].regular /\ arrays[i].sizes = inner
  /\ \A i \in DOMAIN elements : IsUnnamedList(elements[i]) /\ Len(elements[i].items) = Len(slot.decl.slots)
  /\ slots = [s \in 1..Len(slot.decl.slots) |->
                Slot(Dot(slot.name, s), [i \in DOMAIN elements |-> elements[i].items[s]],
                     slot.sizes \o inner, slot.decl.slots[s])]

\* The slot t of the elements of a slot: one of their items each.
IsSlot(t, s, slot, inner, elements, V) ==
  /\ t \in SlotType(V) /\ t.there \in Seq(V)
  /\ DOMAIN t.there = DOMAIN elements /\ Len(t.there) = Len(elements)
  /\ \A i \in DOMAIN elements : t.there[i] = elements[i].items[s]
  /\ t.name = Dot(slot.name, s) /\ Dotted(t.name) /\ t.name.base = slot.name.base
  /\ t.sizes = slot.sizes \o inner /\ t.decl = slot.decl.slots[s]

\* Every list among the elements has an item for each slot.
LEMMA Unpacked ==
  ASSUME NEW V, Closed(V), NEW slot \in SlotType(V), NEW arrays, NEW inner, NEW elements, NEW slots,
         Unpacks(slot, arrays, inner, elements, slots)
  PROVE  LET pieces == [i \in DOMAIN arrays |-> arrays[i].elements] IN
         /\ inner \in Seq(Nat) /\ DOMAIN arrays = DOMAIN slot.there
         /\ \A i \in DOMAIN slot.there :
              /\ arrays[i].elements \in Seq(V) /\ Len(arrays[i].elements) = Size(inner)
              /\ UNION {Numbers(u) : u \in ToSet(arrays[i].elements)} = Numbers(slot.there[i])
         /\ pieces \in Seq(Seq(V)) /\ DOMAIN pieces = DOMAIN slot.there
         /\ \A i \in DOMAIN slot.there : pieces[i] = arrays[i].elements
         /\ elements = FlattenSeq(pieces) /\ elements \in Seq(V)
         /\ ToSet(elements) = UNION {ToSet(pieces[i]) : i \in DOMAIN pieces}
         /\ Len(elements) = Len(slot.there) * Size(inner)
         /\ \A i \in DOMAIN elements :
              /\ elements[i] \in V /\ elements[i].tag = "list" /\ elements[i].items \in Seq(V)
              /\ DOMAIN elements[i].items = 1..Len(slot.decl.slots)
         /\ \A s \in 1..Len(slot.decl.slots) : IsSlot(slots[s], s, slot, inner, elements, V)
         /\ slots \in Seq(SlotType(V)) /\ DOMAIN slots = 1..Len(slot.decl.slots)
<1> DEFINE there == slot.there
           pieces == [i \in DOMAIN arrays |-> arrays[i].elements]
           n_slots == Len(slot.decl.slots)
<1>1. /\ there \in Seq(V) /\ Len(there) \in Nat /\ DOMAIN there = 1..Len(there)
      /\ slot.sizes \in Seq(Nat) /\ slot.name \in Names /\ slot.decl \in Types
      /\ \A i \in DOMAIN there : there[i] \in V
  BY DEF SlotType
<1>2. slot.decl.dims \in Nat /\ slot.decl.slots \in Seq(Types) /\ n_slots \in Nat
  <2>1. slot.decl.dims \in Nat /\ slot.decl.slots \in Seq(Types)
    BY <1>1, DataAssumption
  <2> QED BY <2>1
<1>3. DOMAIN arrays = DOMAIN there /\ \A i \in DOMAIN there : ArrayOf(arrays[i], V, there[i])
  BY <1>1, <1>2, UnnestKeeps DEF Unpacks
<1>4. \A i \in DOMAIN there :
        /\ arrays[i].sizes \in Seq(Nat) /\ arrays[i].elements \in Seq(V)
        /\ Len(arrays[i].elements) = Size(inner)
        /\ UNION {Numbers(u) : u \in ToSet(arrays[i].elements)} = Numbers(there[i])
  BY <1>3 DEF ArrayOf, Unpacks
<1>5. inner \in Seq(Nat)
  <2>1. CASE arrays = <<>>
    <3>1. inner = <<>>
      BY <2>1, Zenon DEF Unpacks
    <3> QED BY <3>1
  <2>2. CASE arrays # <<>>
    <3>1. there # <<>>
      BY <1>1, <1>3, <2>2
    <3>2. 1 \in DOMAIN there
      BY <1>1, <3>1, EmptySeq
    <3> QED BY <1>4, <2>2, <3>2 DEF Unpacks
  <2> QED BY <2>1, <2>2
<1>6. pieces \in Seq(Seq(V)) /\ DOMAIN pieces = DOMAIN there /\ Len(pieces) = Len(there)
      /\ \A i \in DOMAIN there : pieces[i] = arrays[i].elements
  BY <1>1, <1>3, <1>4
<1> HIDE DEF pieces
<1>7. /\ elements \in Seq(V) /\ ToSet(elements) = UNION {ToSet(pieces[i]) : i \in DOMAIN pieces}
      /\ Len(elements) = Len(there) * Size(inner)
  <2>1. Size(inner) \in Nat
    BY <1>5, SizeNat
  <2>2. elements = FlattenSeq(pieces)
    BY DEF pieces, Unpacks
  <2>3. \A i \in DOMAIN pieces : Len(pieces[i]) = Size(inner)
    BY <1>4, <1>6
  <2>4. Len(FlattenSeq(pieces)) = Len(pieces) * Size(inner)
    BY <1>6, <2>1, <2>3, FlattenLen
  <2> QED BY <1>6, <2>2, <2>4, FlattenRange
<1>8. \A i \in DOMAIN elements :
        elements[i] \in V /\ elements[i].tag = "list" /\ elements[i].items \in Seq(V)
          /\ DOMAIN elements[i].items = 1..n_slots
  <2> SUFFICES ASSUME NEW i \in DOMAIN elements
               PROVE  elements[i] \in V /\ elements[i].tag = "list" /\ elements[i].items \in Seq(V)
                        /\ DOMAIN elements[i].items = 1..n_slots
    OBVIOUS
  <2>1. elements[i] \in V
    BY <1>7
  <2>2. IsUnnamedList(elements[i]) /\ Len(elements[i].items) = n_slots
    BY DEF Unpacks
  <2>3. elements[i].tag = "list" /\ elements[i].items \in Seq(V)
    BY <2>1, <2>2, ListItems
  <2> QED BY <2>1, <2>2, <2>3
<1> HIDE DEF n_slots
<1>9. ASSUME NEW s \in 1..n_slots PROVE IsSlot(slots[s], s, slot, inner, elements, V)
  <2> DEFINE t == [i \in DOMAIN elements |-> elements[i].items[s]]
  <2>1. t \in Seq(V) /\ DOMAIN t = DOMAIN elements /\ Len(t) = Len(elements)
        /\ \A i \in DOMAIN elements : t[i] = elements[i].items[s]
    <3>1. DOMAIN elements = 1..Len(elements) /\ Len(elements) \in Nat
      BY <1>7
    <3>2. ASSUME NEW i \in DOMAIN elements PROVE elements[i].items[s] \in V
      <4>1. PICK q : q = elements[i].items
        OBVIOUS
      <4>2. q \in Seq(V) /\ DOMAIN q = 1..n_slots
        BY <1>8, <4>1
      <4>3. q[s] \in V
        BY <4>2, LenProperties
      <4> QED BY <4>1, <4>3
    <3> QED BY <3>1, <3>2
  <2> HIDE DEF t
  <2>2. slots[s] = [name |-> Dot(slot.name, s), there |-> t, sizes |-> slot.sizes \o inner, decl |-> slot.decl.slots[s]]
    BY DEF Slot, t, Unpacks, n_slots
  <2>3. slot.decl.slots[s] \in Types /\ slot.sizes \o inner \in Seq(Nat)
    <3>1. slot.decl.slots[s] \in Types
      BY <1>2 DEF n_slots
    <3> QED BY <1>1, <1>5, <3>1
  <2>4. Dot(slot.name, s) \in Names /\ Dotted(Dot(slot.name, s)) /\ Dot(slot.name, s).base = slot.name.base
    <3>1. slot.name \in [base : STRING, slots : Seq(Nat)] /\ s \in Nat
      BY <1>1, <1>2 DEF Names
    <3>2. Append(slot.name.slots, s) \in Seq(Nat) /\ Append(slot.name.slots, s) # <<>>
      BY <3>1, AppendProperties
    <3> QED BY <3>1, <3>2 DEF Dot, Dotted, Names
  <2>5. slots[s] \in SlotType(V)
    BY <2>1, <2>2, <2>3, <2>4 DEF SlotType
  <2> QED BY <2>1, <2>2, <2>4, <2>5 DEF IsSlot
<1>10. DOMAIN slots = 1..n_slots /\ slots \in Seq(SlotType(V))
  <2>1. DOMAIN slots = 1..n_slots /\ slots = [s \in 1..n_slots |-> slots[s]]
    <3> DEFINE Made(s) == Slot(Dot(slot.name, s), [i \in DOMAIN elements |-> elements[i].items[s]],
                               slot.sizes \o inner, slot.decl.slots[s])
    <3>1. slots = [s \in 1..n_slots |-> Made(s)]
      BY Zenon DEF Unpacks, n_slots
    <3> HIDE DEF Made
    <3> QED BY <3>1
  <2>2. \A s \in 1..n_slots : slots[s] \in SlotType(V)
    BY <1>9 DEF IsSlot
  <2>3. slots \in [1..n_slots -> SlotType(V)]
    BY <2>1, <2>2
  <2> QED BY <1>2, <2>1, <2>3
<1>11. elements = FlattenSeq(pieces)
  BY DEF pieces, Unpacks
<1> QED BY <1>3, <1>4, <1>5, <1>6, <1>7, <1>8, <1>9, <1>10, <1>11 DEF pieces, n_slots

\* The slots have all the numbers of the elements and a value for each of them.
LEMMA SlotsOfTuple ==
  ASSUME NEW V, Closed(V), NEW slot \in SlotType(V), NEW arrays, NEW inner, NEW elements, NEW slots,
         Unpacks(slot, arrays, inner, elements, slots)
  PROVE  /\ slots \in Seq(SlotType(V))
         /\ UNION {NumbersThere(slots[s]) : s \in DOMAIN slots} = NumbersThere(slot)
         /\ Filling(slot) => \A s \in DOMAIN slots : Filling(slots[s])
         /\ \A s \in DOMAIN slots : Dotted(slots[s].name) /\ slots[s].name.base = slot.name.base
<1> DEFINE there == slot.there
           n_slots == Len(slot.decl.slots)
<1> PICK pieces : pieces = [i \in DOMAIN arrays |-> arrays[i].elements]
  OBVIOUS
<1>1. there \in Seq(V) /\ slot.sizes \in Seq(Nat)
  BY DEF SlotType
<1>2. /\ inner \in Seq(Nat) /\ DOMAIN pieces = DOMAIN there
      /\ \A i \in DOMAIN there : UNION {Numbers(u) : u \in ToSet(arrays[i].elements)} = Numbers(there[i])
      /\ \A i \in DOMAIN there : pieces[i] = arrays[i].elements
      /\ ToSet(elements) = UNION {ToSet(pieces[i]) : i \in DOMAIN pieces}
      /\ Len(elements) = Len(there) * Size(inner)
  BY Unpacked
<1>8. \A i \in DOMAIN elements :
        elements[i] \in V /\ elements[i].tag = "list" /\ DOMAIN elements[i].items = 1..n_slots
  BY Unpacked
<1>9. \A s \in 1..n_slots :
        /\ DOMAIN slots[s].there = DOMAIN elements /\ Len(slots[s].there) = Len(elements)
        /\ \A i \in DOMAIN elements : slots[s].there[i] = elements[i].items[s]
        /\ slots[s].sizes = slot.sizes \o inner
        /\ Dotted(slots[s].name) /\ slots[s].name.base = slot.name.base
  <2>1. \A s \in 1..n_slots : IsSlot(slots[s], s, slot, inner, elements, V)
    BY Unpacked
  <2> QED BY <2>1 DEF IsSlot
<1>10. DOMAIN slots = 1..n_slots /\ slots \in Seq(SlotType(V))
  BY Unpacked
<1> HIDE DEF n_slots
<1>11. ASSUME Filling(slot), NEW s \in 1..n_slots PROVE Filling(slots[s])
  <2>1. Size(slot.sizes \o inner) = Size(slot.sizes) * Size(inner)
    BY <1>1, <1>2, SizeConcat
  <2>2. Len(slots[s].there) = Len(elements) /\ slots[s].sizes = slot.sizes \o inner
    BY <1>9
  <2>3. Len(there) = Size(slot.sizes)
    BY <1>11 DEF Filling
  <2> QED BY <1>2, <2>1, <2>2, <2>3 DEF Filling
<1>12. UNION {NumbersThere(slots[s]) : s \in DOMAIN slots} = NumbersThere(slot)
  <2>1. \A x : x \in UNION {NumbersThere(slots[s]) : s \in DOMAIN slots}
                 <=> \E s \in 1..n_slots : \E i \in DOMAIN elements : x \in Numbers(elements[i].items[s])
    <3>1. \A s \in 1..n_slots : \A x : x \in NumbersThere(slots[s])
                                         <=> \E i \in DOMAIN elements : x \in Numbers(elements[i].items[s])
      <4> SUFFICES ASSUME NEW s \in 1..n_slots, NEW x
                   PROVE  x \in NumbersThere(slots[s])
                            <=> \E i \in DOMAIN elements : x \in Numbers(elements[i].items[s])
        OBVIOUS
      <4>1. x \in NumbersThere(slots[s]) <=> \E i \in DOMAIN slots[s].there : x \in Numbers(slots[s].there[i])
        BY DEF NumbersThere, ToSet
      <4> QED BY <1>9, <4>1
    <3> QED BY <1>10, <3>1
  <2>2. \A i \in DOMAIN elements : \A x : x \in Numbers(elements[i])
                                            <=> \E s \in 1..n_slots : x \in Numbers(elements[i].items[s])
    <3> SUFFICES ASSUME NEW i \in DOMAIN elements, NEW x
                 PROVE  x \in Numbers(elements[i]) <=> \E s \in 1..n_slots : x \in Numbers(elements[i].items[s])
      OBVIOUS
    <3>1. Numbers(elements[i]) = UNION {Numbers(u) : u \in ToSet(elements[i].items)}
      BY <1>8, NumbersOfList
    <3>2. x \in UNION {Numbers(u) : u \in ToSet(elements[i].items)}
            <=> \E s \in DOMAIN elements[i].items : x \in Numbers(elements[i].items[s])
      BY DEF ToSet
    <3> QED BY <1>8, <3>1, <3>2
  <2>3. \A x : (\E i \in DOMAIN elements : x \in Numbers(elements[i]))
                 <=> \E i \in DOMAIN there : \E u \in ToSet(arrays[i].elements) : x \in Numbers(u)
    <3>1. \A u : u \in ToSet(elements) <=> \E i \in DOMAIN there : u \in ToSet(arrays[i].elements)
      BY <1>2
    <3>2. \A u : u \in ToSet(elements) <=> \E i \in DOMAIN elements : u = elements[i]
      BY DEF ToSet
    <3> QED BY <3>1, <3>2, Zenon
  <2>4. \A i \in DOMAIN there : \A x :
          (\E u \in ToSet(arrays[i].elements) : x \in Numbers(u)) <=> x \in Numbers(there[i])
    <3>1. \A i \in DOMAIN there : \A x :
            (\E u \in ToSet(arrays[i].elements) : x \in Numbers(u))
              <=> x \in UNION {Numbers(u) : u \in ToSet(arrays[i].elements)}
      BY Zenon
    <3> QED BY <1>2, <3>1, Zenon
  <2>5. \A x : x \in NumbersThere(slot) <=> \E i \in DOMAIN there : x \in Numbers(there[i])
    BY DEF NumbersThere, ToSet
  <2>6. \A x : x \in UNION {NumbersThere(slots[s]) : s \in DOMAIN slots} <=> x \in NumbersThere(slot)
    BY <2>1, <2>2, <2>3, <2>4, <2>5, Zenon
  <2> QED BY <2>6
<1> QED BY <1>9, <1>10, <1>11, <1>12

\* The first slot and the others.
LEMMA HeadAndTail ==
  ASSUME NEW D, NEW p \in Seq(D), p # <<>>
  PROVE  /\ Head(p) \in D /\ Tail(p) \in Seq(D)
         /\ ToSet(p) = {Head(p)} \cup ToSet(Tail(p))
<1>1. /\ Head(p) \in D /\ Tail(p) \in Seq(D) /\ Head(p) = p[1] /\ Len(p) \in Nat \ {0}
      /\ DOMAIN p = 1..Len(p) /\ DOMAIN Tail(p) = 1..Len(p) - 1
      /\ \A i \in 1..Len(p) - 1 : Tail(p)[i] = p[i + 1]
  BY EmptySeq
<1>2. ToSet(Tail(p)) \subseteq ToSet(p) /\ Head(p) \in ToSet(p)
  BY <1>1 DEF ToSet
<1>3. ASSUME NEW x \in ToSet(p), x # Head(p) PROVE x \in ToSet(Tail(p))
  <2>1. PICK i \in 1..Len(p) : x = p[i]
    BY <1>1 DEF ToSet
  <2>2. i - 1 \in 1..Len(p) - 1 /\ (i - 1) + 1 = i
    BY <1>1, <1>3, <2>1
  <2>3. x = Tail(p)[i - 1] /\ i - 1 \in DOMAIN Tail(p)
    BY <1>1, <2>1, <2>2
  <2> QED BY <2>3 DEF ToSet
<1> QED BY <1>1, <1>2, <1>3

\* What is pending are slots of the value taken up last.
LEMMA PendingSlots ==
  ASSUME TypeInv, pending # <<>>
  PROVE  /\ at \in DOMAIN input /\ Closed(Values(at))
         /\ Head(pending) \in SlotType(Values(at)) /\ Tail(pending) \in Seq(SlotType(Values(at)))
         /\ ToSet(pending) = {Head(pending)} \cup ToSet(Tail(pending))
<1>1. at \in 0..Len(input) /\ at # 0 /\ pending \in Seq(SlotType(Values(at)))
  BY DEF TypeInv
<1>2. at \in DOMAIN input
  BY <1>1, InputLen
<1> QED BY <1>1, <1>2, ValuesClosed, HeadAndTail

\* The slots of a tuple go before those that were pending.
LEMMA NewSlots ==
  ASSUME TypeInv, pending # <<>>, NEW slots \in Seq(SlotType(Values(at)))
  PROVE  ToSet(slots \o Tail(pending)) = ToSet(slots) \cup ToSet(Tail(pending))
<1>1. PICK V : V = SlotType(Values(at))
  OBVIOUS
<1>2. slots \in Seq(V) /\ Tail(pending) \in Seq(V)
  BY <1>1, PendingSlots
<1> QED BY <1>2, ToSetConcat

\* flatten_recurse() on a tuple throws or replaces the slot by those of the tuple, ...
LEMMA UnpackStep ==
  ASSUME FlattenTuple
  PROVE  \/ Throw
         \/ \E arrays, inner, elements, slots :
              /\ Unpacks(Head(pending), arrays, inner, elements, slots)
              /\ pending' = slots \o Tail(pending)
              /\ UNCHANGED <<input, at, reserved_names_, values_, status>>
<1> DEFINE slot     == Head(pending)
           arrays   == [i \in DOMAIN slot.there |-> Unnest(slot.there[i], slot.decl.dims)]
           inner    == IF arrays = <<>> THEN <<>> ELSE arrays[1].sizes
           elements == FlattenSeq([i \in DOMAIN arrays |-> arrays[i].elements])
           n_slots  == Len(slot.decl.slots)
           slots    == [s \in 1..n_slots |->
                          Slot(Dot(slot.name, s), [i \in DOMAIN elements |-> elements[i].items[s]],
                               slot.sizes \o inner, slot.decl.slots[s])]
           Square   == /\ \A i \in DOMAIN arrays : arrays[i].regular /\ arrays[i].sizes = inner
                       /\ \A i \in DOMAIN elements :
                            IsUnnamedList(elements[i]) /\ Len(elements[i].items) = n_slots
<1>1. IF Square THEN /\ pending' = slots \o Tail(pending)
                     /\ UNCHANGED <<input, at, reserved_names_, values_, status>>
      ELSE Throw
  BY Zenon DEF FlattenTuple
<1>2. Square => Unpacks(slot, arrays, inner, elements, slots)
  BY Zenon DEF Unpacks
<1> HIDE DEF slots, Square, elements, inner, arrays, slot
<1>3. CASE Square
  <2>1. Unpacks(slot, arrays, inner, elements, slots)
    BY <1>2, <1>3
  <2> QED BY <1>1, <1>3, <2>1, Zenon DEF slot
<1> QED BY <1>1, <1>3

\* ... and the numbers are those that were pending.
LEMMA TupleStep ==
  ASSUME TypeInv, FlattenTuple
  PROVE  \/ Throw
         \/ \E slots \in Seq(SlotType(Values(at))) :
              /\ pending' = slots \o Tail(pending)
              /\ UNCHANGED <<input, at, reserved_names_, values_, status>>
              /\ UNION {NumbersThere(slot) : slot \in ToSet(slots)} = NumbersThere(Head(pending))
              /\ Filling(Head(pending)) => \A slot \in ToSet(slots) : Filling(slot)
              /\ \A slot \in ToSet(slots) : Dotted(slot.name) /\ slot.name.base = Head(pending).name.base
<1>1. pending # <<>>
  BY DEF FlattenTuple, Flattening
<1>2. Closed(Values(at)) /\ Head(pending) \in SlotType(Values(at))
  BY <1>1, PendingSlots
<1>3. ASSUME NEW arrays, NEW inner, NEW elements, NEW slots,
             Unpacks(Head(pending), arrays, inner, elements, slots)
      PROVE  /\ slots \in Seq(SlotType(Values(at)))
             /\ UNION {NumbersThere(slot) : slot \in ToSet(slots)} = NumbersThere(Head(pending))
             /\ Filling(Head(pending)) => \A slot \in ToSet(slots) : Filling(slot)
             /\ \A slot \in ToSet(slots) : Dotted(slot.name) /\ slot.name.base = Head(pending).name.base
  <2>1. PICK slot : slot = Head(pending)
    OBVIOUS
  <2>2. /\ slots \in Seq(SlotType(Values(at)))
        /\ UNION {NumbersThere(slots[s]) : s \in DOMAIN slots} = NumbersThere(slot)
        /\ Filling(slot) => \A s \in DOMAIN slots : Filling(slots[s])
        /\ \A s \in DOMAIN slots : Dotted(slots[s].name) /\ slots[s].name.base = slot.name.base
    BY <1>2, <1>3, <2>1, SlotsOfTuple
  <2>3. UNION {NumbersThere(x) : x \in ToSet(slots)} = NumbersThere(slot)
    <3>1. \A y : y \in UNION {NumbersThere(x) : x \in ToSet(slots)}
                   <=> y \in UNION {NumbersThere(slots[s]) : s \in DOMAIN slots}
      BY DEF ToSet
    <3> QED BY <2>2, <3>1
  <2>4. Filling(slot) => \A x \in ToSet(slots) : Filling(x)
    BY <2>2 DEF ToSet
  <2>5. \A x \in ToSet(slots) : Dotted(x.name) /\ x.name.base = slot.name.base
    BY <2>2 DEF ToSet
  <2> QED BY <2>1, <2>2, <2>3, <2>4, <2>5
<1> QED BY <1>3, UnpackStep, Zenon

\* The element to be taken up next.
LEMMA ElementFacts ==
  ASSUME TypeInv, More
  PROVE  /\ at + 1 \in DOMAIN input /\ at \in Nat /\ at + 1 \in 1..Len(input)
         /\ Closed(Values(at + 1)) /\ Element.value \in Values(at + 1)
         /\ Element.name \in Names
<1>1. at + 1 \in DOMAIN input /\ at \in Nat
  BY InputLen DEF More
<1>2. PICK i : i = at + 1
  OBVIOUS
<1>3. Closed(Values(i)) /\ input[i].value \in Values(i) /\ input[i].name \in Names
  BY <1>1, <1>2, ValuesClosed
<1> QED BY <1>1, <1>2, <1>3, InputLen DEF Element

\* An element that is no list throws or becomes an entry with all its numbers.
LEMMA PlainStep ==
  ASSUME TypeInv, AddPlain
  PROVE  \/ Throw
         \/ \E entry :
              /\ Clean(entry) /\ Kept(entry) = Numbers(Element.value) /\ Fits(entry, Dotted(Element.name))
              /\ Emplace(Element.name, entry) /\ at' = at + 1 /\ UNCHANGED pending
<1> DEFINE v == Element.value
           entry == IF v.tag = "frame" THEN FrameEntry(Element.name, v) ELSE AtomicEntry(Element.name, v)
<1>1. More /\ v.tag # "list"
  BY DEF AddPlain
<1>2. Closed(Values(at + 1)) /\ v \in Values(at + 1)
  BY <1>1, ElementFacts
<1>3. v \in Atomic \cup Frame \cup List(Values(at + 1)) /\ Consistent(v)
  BY <1>2, Zenon DEF Closed
<1>4. v \in Atomic \/ v \in Frame
  BY <1>1, <1>3 DEF List
<1>5. Numbers(v) = Own(v)
  BY <1>1, <1>2, NumbersOfOther
<1>6. IF entry = Stop THEN Throw ELSE Emplace(Element.name, entry) /\ at' = at + 1 /\ UNCHANGED pending
  BY Zenon DEF AddPlain
<1>7. ASSUME entry # Stop
      PROVE  Clean(entry) /\ Kept(entry) = Own(v) /\ Fits(entry, Dotted(Element.name))
  <2>1. CASE v \in Atomic
    <3>1. v.tag = "atomic" /\ Own(v) = ToSet(v.vals)
      BY <2>1 DEF Atomic, Own
    <3>2. entry = AtomicEntry(Element.name, v)
      BY <3>1
    <3> QED BY <1>3, <1>7, <2>1, <3>1, <3>2, AtomicEntryKeeps
  <2>2. CASE v \in Frame
    <3>1. v.tag = "frame"
      BY <2>2 DEF Frame
    <3>2. entry = FrameEntry(Element.name, v)
      BY <3>1
    <3> QED BY <1>3, <1>7, <2>2, <3>2, FrameEntryKeeps
  <2> QED BY <1>4, <2>1, <2>2
<1> HIDE DEF entry, v
<1> QED BY <1>5, <1>6, <1>7 DEF v

\* flatten_leaf() throws or makes an entry, under a name not taken, with all the
\* numbers of the slot.
LEMMA LeafStep ==
  ASSUME TypeInv, FlattenLeaf
  PROVE  \/ Throw
         \/ \E entry :
              /\ Clean(entry) /\ Kept(entry) = NumbersThere(Head(pending))
              /\ Filling(Head(pending)) /\ (\A w \in Values(at) : w.tag = "atomic" => w.vals # <<>>)
                   => Fits(entry, TRUE)
              /\ ~Taken(Head(pending).name)
              /\ Emplace(Head(pending).name, entry) /\ pending' = Tail(pending) /\ UNCHANGED at
<1> DEFINE leaf == Head(pending)
           entry == LeafEntry(leaf)
<1>1. Closed(Values(at)) /\ leaf \in SlotType(Values(at))
  BY PendingSlots DEF FlattenLeaf, Flattening
<1>2. IF entry = Stop THEN Throw
      ELSE Emplace(leaf.name, entry) /\ pending' = Tail(pending) /\ UNCHANGED at
  BY Zenon DEF FlattenLeaf
<1>3. entry # Stop => ~Taken(leaf.name)
  BY DEF LeafEntry
<1>4. entry # Stop =>
        /\ Clean(entry) /\ Kept(entry) = NumbersThere(leaf)
        /\ Filling(leaf) /\ (\A w \in Values(at) : w.tag = "atomic" => w.vals # <<>>) => Fits(entry, TRUE)
  <2> HIDE DEF leaf
  <2> QED BY <1>1, LeafEntryKeeps
<1> HIDE DEF entry
<1> QED BY <1>2, <1>3, <1>4
-----------------------------------------------------------------------------
(* Types.                                                                  *)

\* The type invariant holds at the start, ...
LEMMA TypeInit == ASSUME Init PROVE TypeInv
<1>1. Len(input) \in Nat /\ (input = <<>> => Len(input) = 0)
  <2>1. input \in Seq([name : Names, value : {input[j].value : j \in DOMAIN input}])
    BY DataAssumption, Zenon DEF Init
  <2> QED BY <2>1
<1> QED BY <1>1 DEF Init, TypeInv

\* ... and every step keeps it.
LEMMA TypeNext == ASSUME TypeInv, [Next]_vars PROVE TypeInv'
<1>0. /\ input \in Inputs /\ at \in 0..Len(input) /\ Len(input) \in Nat
      /\ pending # <<>> => at # 0 /\ pending \in Seq(SlotType(Values(at)))
      /\ status \in {"names", "adding", "built", "stopped"}
  BY InputLen DEF TypeInv
<1>1. ASSUME input' = input, at' = at PROVE Values(at)' = Values(at)
  BY <1>1 DEF Values
<1>2. CASE UNCHANGED vars
  BY <1>2, <1>1 DEF vars, TypeInv
<1>3. CASE Throw
  BY <1>3, <1>1, <1>0 DEF Throw, TypeInv
<1>4. CASE CheckNames
  BY <1>4, <1>0 DEF CheckNames, TypeInv
<1>5. CASE NamesThrow
  BY <1>3, <1>5 DEF NamesThrow
<1>6. CASE AddPlain
  <2>1. More /\ at + 1 \in 0..Len(input)
    BY <1>6, ElementFacts DEF AddPlain
  <2>2. CASE input' = input /\ status' = status /\ at' = at + 1 /\ pending' = pending
    BY <2>1, <2>2, <1>0 DEF TypeInv, More
  <2> QED BY <1>3, <1>6, <2>2, PlainStep DEF Emplace
<1>7. CASE AddTuple
  <2>1. /\ More /\ at + 1 \in 1..Len(input) /\ at \in Nat /\ Element.value \in Values(at + 1)
        /\ Element.name \in Names /\ Decls[Element.name] \in Types
    BY <1>7, ElementFacts, DataAssumption DEF AddTuple
  <2>2. Values(at)' = Values(at + 1)
    BY <1>7 DEF AddTuple, Values
  <2>3. PICK slot : slot = Slot(Element.name, <<Element.value>>, <<>>, Decls[Element.name])
    OBVIOUS
  <2>4. slot \in SlotType(Values(at + 1))
    BY <2>1, <2>3 DEF Slot, SlotType
  <2>5. <<slot>> \in Seq(SlotType(Values(at + 1)))
    BY <2>4
  <2>6. pending' = <<slot>> /\ at' = at + 1 /\ input' = input /\ status' = "adding"
    BY <1>7, <2>3 DEF AddTuple, More
  <2> QED BY <2>1, <2>2, <2>5, <2>6, <1>0 DEF TypeInv
<1>8. CASE ListThrows
  BY <1>3, <1>8 DEF ListThrows
<1>9. CASE FlattenLeaf
  <2>1. Tail(pending) \in Seq(SlotType(Values(at))) /\ at # 0 /\ status = "adding"
    BY <1>9, <1>0, PendingSlots DEF FlattenLeaf, Flattening
  <2>2. CASE input' = input /\ status' = status /\ at' = at /\ pending' = Tail(pending)
    BY <2>1, <2>2, <1>0, <1>1 DEF TypeInv
  <2> QED BY <1>3, <1>9, <2>2, LeafStep DEF Emplace
<1>10. CASE FlattenTuple
  <2>1. Tail(pending) \in Seq(SlotType(Values(at))) /\ at # 0 /\ status = "adding"
    BY <1>10, <1>0, PendingSlots DEF FlattenTuple, Flattening
  <2>2. ASSUME NEW slots \in Seq(SlotType(Values(at))), pending' = slots \o Tail(pending),
               input' = input, status' = status, at' = at
        PROVE  TypeInv'
    <3>1. slots \o Tail(pending) \in Seq(SlotType(Values(at)))
      BY <2>1, ConcatProperties
    <3> QED BY <2>1, <2>2, <3>1, <1>0, <1>1 DEF TypeInv
  <2> QED BY <1>3, <1>10, <2>2, TupleStep
<1>11. CASE Finish
  BY <1>11, <1>0, <1>1 DEF Finish, TypeInv
<1> QED BY <1>2, <1>4, <1>5, <1>6, <1>7, <1>8, <1>9, <1>10, <1>11 DEF Next

\* The steps keep the variables what they are said to be.
THEOREM TypeTheorem == Spec => []TypeInv
<1>1. Init => TypeInv
  BY TypeInit
<1>2. TypeInv /\ [Next]_vars => TypeInv'
  BY TypeNext
<1> QED BY <1>1, <1>2, PTL DEF Spec
-----------------------------------------------------------------------------
(* Clean numbers.                                                          *)

\* emplace() adds an entry and changes none.
LEMMA Emplaced ==
  ASSUME NEW name, NEW entry, Emplace(name, entry)
  PROVE  /\ DOMAIN values_' = DOMAIN values_ \cup {name}
         /\ \A n \in DOMAIN values_ : values_'[n] = values_[n]
         /\ name \notin DOMAIN values_ => values_'[name] = entry
         /\ \A n \in DOMAIN values_' :
              \/ n \in DOMAIN values_ /\ values_'[n] = values_[n]
              \/ n = name /\ values_'[n] = entry
         /\ UNCHANGED <<input, reserved_names_, status>>
<1> DEFINE stored == [n \in DOMAIN values_ \cup {name} |->
                        IF n \in DOMAIN values_ THEN values_[n] ELSE entry]
<1>1. DOMAIN stored = DOMAIN values_ \cup {name}
  OBVIOUS
<1>2. \A n \in DOMAIN values_ : stored[n] = values_[n]
  OBVIOUS
<1>3. name \notin DOMAIN values_ => stored[name] = entry
  OBVIOUS
<1>4. values_' = stored /\ UNCHANGED <<input, reserved_names_, status>>
  BY DEF Emplace
<1> HIDE DEF stored
<1>5. \A n \in DOMAIN stored :
        \/ n \in DOMAIN values_ /\ stored[n] = values_[n]
        \/ n = name /\ stored[n] = entry
  BY <1>1, <1>2, <1>3
<1> QED BY <1>1, <1>2, <1>3, <1>4, <1>5

\* No step stores what is not clean.
LEMMA CleanNext == ASSUME TypeInv, CleanInv, [Next]_vars PROVE CleanInv'
<1>1. CASE UNCHANGED values_
  BY <1>1 DEF CleanInv
<1>2. ASSUME NEW name, NEW entry, Emplace(name, entry), Clean(entry) PROVE CleanInv'
  BY <1>2, Emplaced DEF CleanInv
<1>3. CASE AddPlain
  BY <1>1, <1>2, <1>3, PlainStep DEF Throw
<1>4. CASE FlattenLeaf
  BY <1>1, <1>2, <1>4, LeafStep DEF Throw
<1>5. CASE FlattenTuple
  BY <1>1, <1>5, TupleStep DEF Throw
<1>6. CASE CheckNames \/ NamesThrow \/ AddTuple \/ ListThrows \/ Finish
  BY <1>1, <1>6 DEF CheckNames, NamesThrow, AddTuple, ListThrows, Finish, Throw
<1>7. CASE UNCHANGED vars
  BY <1>1, <1>7 DEF vars
<1> QED BY <1>3, <1>4, <1>5, <1>6, <1>7 DEF Next

\* In every reachable state the integers stored are all whole, there is a value
\* that is not among the reals, and NA is nowhere: store_numeric() and the checks
\* for NA, whatever the order of the values and however deep in a tuple.
THEOREM CleanTheorem == Spec => []OnlyCleanNumbers
<1>1. Init => TypeInv /\ CleanInv
  BY TypeInit DEF Init, CleanInv
<1>2. TypeInv /\ CleanInv /\ [Next]_vars => TypeInv' /\ CleanInv'
  BY TypeNext, CleanNext
<1>3. CleanInv => OnlyCleanNumbers
  BY DEF CleanInv, Clean, OnlyCleanNumbers
<1> QED BY <1>1, <1>2, <1>3, PTL DEF Spec
-----------------------------------------------------------------------------
(* Names.                                                                  *)

\* No name is owned twice: where lists are declared tuples, their names have no
\* dots, and the names of other elements are reserved.
LEMMA OneOwner ==
  ASSUME reserved_names_ = {input[i].name : i \in DOMAIN input},
         \A i, j \in DOMAIN input : input[i].name = input[j].name => i = j,
         \A i \in DOMAIN input : input[i].name \in Names,
         NEW i \in DOMAIN input, input[i].value.tag = "list" => input[i].name \in DOMAIN Decls,
         NEW j \in DOMAIN input, input[j].value.tag = "list" => input[j].name \in DOMAIN Decls,
         NEW n, Owns(input[i], n), Owns(input[j], n)
  PROVE  i = j
<1>1. ASSUME input[i].value.tag # "list" PROVE n \in reserved_names_ /\ n = input[i].name
  BY <1>1 DEF Owns
<1>2. ASSUME input[j].value.tag # "list" PROVE n \in reserved_names_ /\ n = input[j].name
  BY <1>2 DEF Owns
<1>3. ASSUME input[i].value.tag = "list" PROVE n \notin reserved_names_ /\ n.base = input[i].name.base
  BY <1>3 DEF Owns
<1>4. ASSUME input[j].value.tag = "list" PROVE n \notin reserved_names_ /\ n.base = input[j].name.base
  BY <1>4 DEF Owns
<1>5. CASE input[i].value.tag = "list" /\ input[j].value.tag = "list"
  <2>1. \A x \in DOMAIN Decls : x \in Names /\ x.slots = <<>>
    BY DataAssumption DEF Dotted
  <2>2. \A x, y \in DOMAIN Decls : x.base = y.base => x = y
    BY <2>1 DEF Names
  <2>3. input[i].name = input[j].name
    BY <1>3, <1>4, <1>5, <2>2
  <2> QED BY <2>3
<1>6. CASE input[i].value.tag # "list" /\ input[j].value.tag # "list"
  <2>1. input[i].name = input[j].name
    BY <1>1, <1>2, <1>6
  <2> QED BY <2>1
<1> QED BY <1>1, <1>2, <1>3, <1>4, <1>5, <1>6

\* The names in the list are names.
LEMMA InputNames ==
  ASSUME TypeInv
  PROVE  \A i \in DOMAIN input : input[i].name \in Names
BY ValuesClosed

\* Every step keeps names and elements together.
LEMMA NamesNext == ASSUME TypeInv, NamesInv, [Next]_vars PROVE NamesInv'
<1>0. at \in 0..Len(input) /\ Len(input) \in Nat /\ DOMAIN input = 1..Len(input) /\ at \in Nat
  BY InputLen DEF TypeInv
<1>1. ASSUME input' = input, reserved_names_' = reserved_names_, NEW i, NEW n
      PROVE  Owns(input[i], n)' <=> Owns(input[i], n)
  BY <1>1 DEF Owns
<1>2. CASE UNCHANGED vars
  BY <1>2, <1>1 DEF vars, NamesInv
<1>3. CASE Throw
  BY <1>3 DEF Throw, NamesInv
<1>4. CASE CheckNames
  <2>1. at = 0 /\ pending = <<>> /\ values_ = <<>>
    BY <1>4 DEF CheckNames, TypeInv
  <2>2. /\ pending' = <<>> /\ values_' = <<>> /\ at' = 0 /\ input' = input
        /\ reserved_names_' = {input[i].name : i \in DOMAIN input}
        /\ \A i, j \in DOMAIN input : input[i].name = input[j].name => i = j
    BY <1>4, <2>1 DEF CheckNames
  <2>3. ToSet(pending') = {}
    BY <2>2 DEF ToSet
  <2>4. \A n \in DOMAIN values_' : FALSE
    BY <2>2
  <2>5. \A i \in 1..at' : FALSE
    BY <2>2
  <2> QED BY <2>2, <2>3, <2>4, <2>5 DEF NamesInv
<1>5. CASE NamesThrow
  BY <1>3, <1>5 DEF NamesThrow
<1>6. CASE AddPlain
  <2>1. More /\ status = "adding" /\ pending = <<>> /\ Element.value.tag # "list" /\ Element = input[at + 1]
        /\ at + 1 \in 1..Len(input)
    BY <1>6, ElementFacts DEF AddPlain, More, Element
  <2>2. ASSUME NEW entry, Emplace(Element.name, entry), at' = at + 1, UNCHANGED pending
        PROVE  NamesInv'
    <3>1. /\ DOMAIN values_' = DOMAIN values_ \cup {Element.name}
          /\ input' = input /\ reserved_names_' = reserved_names_ /\ status' = status
      BY <2>2, Emplaced
    <3>2. ToSet(pending') = {}
      BY <2>1, <2>2 DEF ToSet
    <3>3. Owns(input[at + 1], Element.name)
      BY <2>1 DEF Owns
    <3>4. \A i \in 1..at + 1 : i \in 1..at \/ i = at + 1
      BY <1>0
    <3>5. \A n \in DOMAIN values_' : \E i \in 1..at + 1 : Owns(input[i], n)
      <4>1. \A n \in DOMAIN values_ : \E i \in 1..at : Owns(input[i], n)
        BY <2>1 DEF NamesInv
      <4>2. 1..at \subseteq 1..at + 1 /\ at + 1 \in 1..at + 1
        BY <1>0
      <4> QED BY <3>1, <3>3, <4>1, <4>2
    <3>6. \A n \in DOMAIN values_' : \E i \in 1..at' : Owns(input[i], n)'
      BY <1>1, <2>2, <3>1, <3>5
    <3>7. \A i \in 1..at' : input[i].value.tag = "list" => input[i].name \in DOMAIN Decls
      BY <2>1, <2>2, <3>4 DEF NamesInv
    <3> QED BY <2>1, <3>1, <3>2, <3>6, <3>7 DEF NamesInv
  <2> QED BY <1>3, <1>6, <2>2, PlainStep
<1>7. CASE AddTuple
  <2>1. /\ More /\ status = "adding" /\ Element = input[at + 1] /\ Element.value.tag = "list"
        /\ Element.name \in DOMAIN Decls /\ at + 1 \in 1..Len(input) /\ at' = at + 1
        /\ input' = input /\ reserved_names_' = reserved_names_ /\ values_' = values_ /\ status' = status
    BY <1>7, ElementFacts DEF AddTuple, More, Element
  <2>2. PICK slot : slot = Slot(Element.name, <<Element.value>>, <<>>, Decls[Element.name])
    OBVIOUS
  <2>3. ToSet(pending') = {slot} /\ slot.name = Element.name /\ slot.decl.kind = "tuple"
    <3>1. pending' = <<slot>> /\ slot.decl = Decls[Element.name] /\ slot.name = Element.name
      BY <1>7, <2>2 DEF AddTuple, Slot
    <3> QED BY <2>1, <3>1, DataAssumption DEF ToSet
  <2>4. \A n \in DOMAIN values_' : \E i \in 1..at' : Owns(input[i], n)'
    <3>1. \A n \in DOMAIN values_ : \E i \in 1..at : Owns(input[i], n)
      BY <2>1 DEF NamesInv
    <3>2. 1..at \subseteq 1..at + 1
      BY <1>0
    <3> QED BY <1>1, <2>1, <3>1, <3>2
  <2>5. \A i \in 1..at' : input[i].value.tag = "list" => input[i].name \in DOMAIN Decls
    <3>1. \A i \in 1..at + 1 : i \in 1..at \/ i = at + 1
      BY <1>0
    <3> QED BY <2>1, <3>1 DEF NamesInv
  <2> QED BY <2>1, <2>3, <2>4, <2>5 DEF NamesInv
<1>8. CASE ListThrows
  BY <1>3, <1>8 DEF ListThrows
<1>9. CASE FlattenLeaf
  <2>1. /\ status = "adding" /\ ToSet(pending) = {Head(pending)} \cup ToSet(Tail(pending))
        /\ at \in DOMAIN input /\ Head(pending).decl.kind # "tuple"
    BY <1>9, PendingSlots DEF FlattenLeaf, Flattening
  <2>2. /\ input[at].value.tag = "list" /\ Head(pending).name.base = input[at].name.base
        /\ Dotted(Head(pending).name)
    BY <2>1 DEF NamesInv
  <2>3. ASSUME NEW entry, Emplace(Head(pending).name, entry), at' = at, pending' = Tail(pending),
               ~Taken(Head(pending).name)
        PROVE  NamesInv'
    <3>1. /\ DOMAIN values_' = DOMAIN values_ \cup {Head(pending).name}
          /\ input' = input /\ reserved_names_' = reserved_names_ /\ status' = status
      BY <2>3, Emplaced
    <3>2. Owns(input[at], Head(pending).name) /\ at \in 1..at
      BY <1>0, <2>1, <2>2, <2>3 DEF Owns, Taken
    <3>3. \A n \in DOMAIN values_ : \E i \in 1..at : Owns(input[i], n)
      BY <2>1 DEF NamesInv
    <3>4. \A n \in DOMAIN values_' : \E i \in 1..at' : Owns(input[i], n)'
      BY <1>1, <2>3, <3>1, <3>2, <3>3
    <3> QED BY <2>1, <2>3, <3>1, <3>4 DEF NamesInv
  <2> QED BY <1>3, <1>9, <2>3, LeafStep
<1>10. CASE FlattenTuple
  <2>1. /\ status = "adding" /\ ToSet(pending) = {Head(pending)} \cup ToSet(Tail(pending))
        /\ at \in DOMAIN input /\ Tail(pending) \in Seq(SlotType(Values(at))) /\ pending # <<>>
    BY <1>10, PendingSlots DEF FlattenTuple, Flattening
  <2>2. input[at].value.tag = "list" /\ Head(pending).name.base = input[at].name.base
    BY <2>1 DEF NamesInv
  <2>3. ASSUME NEW slots \in Seq(SlotType(Values(at))), pending' = slots \o Tail(pending),
               UNCHANGED <<input, at, reserved_names_, values_, status>>,
               \A slot \in ToSet(slots) : Dotted(slot.name) /\ slot.name.base = Head(pending).name.base
        PROVE  NamesInv'
    <3>1. ToSet(pending') = ToSet(slots) \cup ToSet(Tail(pending))
      <4>1. ToSet(slots \o Tail(pending)) = ToSet(slots) \cup ToSet(Tail(pending))
        BY <2>1, NewSlots
      <4> QED BY <2>3, <4>1
    <3>2. \A n \in DOMAIN values_' : \E i \in 1..at' : Owns(input[i], n)'
      BY <1>1, <2>1, <2>3 DEF NamesInv
    <3>3. \A slot \in ToSet(pending') : 
            /\ slot.name.base = input[at].name.base
            /\ slot.decl.kind # "tuple" => Dotted(slot.name)
      BY <2>1, <2>2, <2>3, <3>1 DEF NamesInv
    <3> QED BY <2>1, <2>2, <2>3, <3>2, <3>3 DEF NamesInv
  <2> QED BY <1>3, <1>10, <2>3, TupleStep
<1>11. CASE Finish
  <2>1. /\ status = "adding"
        /\ UNCHANGED <<input, at, pending, reserved_names_, values_>>
    BY <1>11 DEF Finish
  <2>2. \A n \in DOMAIN values_' : \E i \in 1..at' : Owns(input[i], n)'
    BY <1>1, <2>1 DEF NamesInv
  <2> QED BY <2>1, <2>2 DEF NamesInv
<1> QED BY <1>2, <1>4, <1>5, <1>6, <1>7, <1>8, <1>9, <1>10, <1>11 DEF Next
-----------------------------------------------------------------------------
(* Lengths.                                                                *)

\* In a list without empty payloads no vector is empty.
LEMMA NotEmpty ==
  ASSUME NoEmptyPayload, NEW i \in DOMAIN input, input[i].value.tag = "list"
  PROVE  \A w \in Values(i) : w.tag = "atomic" => w.vals # <<>>
BY Zenon DEF NoEmptyPayload, HasEmpty, Values

\* Every step stores as many values as the dimensions it stores say.
LEMMA LengthsNext == ASSUME TypeInv, NamesInv, LengthsInv, [Next]_vars PROVE LengthsInv'
<1>1. ASSUME input' = input PROVE NoEmptyPayload' <=> NoEmptyPayload
  BY <1>1, Zenon DEF NoEmptyPayload
<1>2. CASE UNCHANGED <<input, pending, values_>>
  BY <1>2, <1>1 DEF LengthsInv
<1>3. ASSUME NEW name, NEW entry, Emplace(name, entry), NoEmptyPayload => Fits(entry, Dotted(name)),
             ToSet(pending') \subseteq ToSet(pending)
      PROVE  LengthsInv'
  <2>1. input' = input
    BY <1>3, Emplaced
  <2>2. ASSUME NoEmptyPayload PROVE \A n \in DOMAIN values_' : Fits(values_'[n], Dotted(n))
    BY <1>3, <2>2, Emplaced DEF LengthsInv
  <2> QED BY <1>1, <1>3, <2>1, <2>2 DEF LengthsInv
<1>4. CASE AddPlain
  <2>1. UNCHANGED pending => ToSet(pending') \subseteq ToSet(pending)
    OBVIOUS
  <2> QED BY <1>2, <1>3, <1>4, <2>1, PlainStep DEF Throw
<1>5. CASE AddTuple
  <2>1. PICK slot : slot = Slot(Element.name, <<Element.value>>, <<>>, Decls[Element.name])
    OBVIOUS
  <2>2. pending' = <<slot>> /\ input' = input /\ values_' = values_
    BY <1>5, <2>1 DEF AddTuple
  <2>3. Filling(slot)
    <3>1. slot.there = <<Element.value>> /\ slot.sizes = <<>>
      BY <2>1 DEF Slot
    <3> QED BY <3>1, SizeEmpty DEF Filling
  <2>4. ToSet(pending') = {slot}
    BY <2>2 DEF ToSet
  <2> QED BY <1>1, <2>2, <2>3, <2>4 DEF LengthsInv
<1>6. CASE FlattenLeaf
  <2>1. /\ status = "adding" /\ ToSet(pending) = {Head(pending)} \cup ToSet(Tail(pending))
        /\ at \in DOMAIN input /\ Head(pending).decl.kind # "tuple"
    BY <1>6, PendingSlots DEF FlattenLeaf, Flattening
  <2>2. input[at].value.tag = "list" /\ Dotted(Head(pending).name) /\ Filling(Head(pending))
    BY <2>1 DEF NamesInv, LengthsInv
  <2>3. NoEmptyPayload => \A w \in Values(at) : w.tag = "atomic" => w.vals # <<>>
    BY <2>1, <2>2, NotEmpty
  <2>4. ASSUME NEW entry,
               Filling(Head(pending)) /\ (\A w \in Values(at) : w.tag = "atomic" => w.vals # <<>>)
                 => Fits(entry, TRUE),
               Emplace(Head(pending).name, entry), pending' = Tail(pending)
        PROVE  LengthsInv'
    <3>1. Fits(entry, TRUE) => Fits(entry, Dotted(Head(pending).name))
      BY <2>2 DEF Fits
    <3>2. ToSet(pending') \subseteq ToSet(pending)
      BY <2>1, <2>4
    <3> QED BY <1>3, <2>2, <2>3, <2>4, <3>1, <3>2
  <2> QED BY <1>2, <1>6, <2>4, LeafStep DEF Throw
<1>7. CASE FlattenTuple
  <2>1. ToSet(pending) = {Head(pending)} \cup ToSet(Tail(pending)) /\ Tail(pending) \in Seq(SlotType(Values(at))) /\ pending # <<>>
    BY <1>7, PendingSlots DEF FlattenTuple, Flattening
  <2>2. ASSUME NEW slots \in Seq(SlotType(Values(at))), pending' = slots \o Tail(pending),
               UNCHANGED <<input, at, reserved_names_, values_, status>>,
               Filling(Head(pending)) => \A slot \in ToSet(slots) : Filling(slot)
        PROVE  LengthsInv'
    <3>1. ToSet(pending') = ToSet(slots) \cup ToSet(Tail(pending))
      <4>1. ToSet(slots \o Tail(pending)) = ToSet(slots) \cup ToSet(Tail(pending))
        BY <2>1, NewSlots
      <4> QED BY <2>2, <4>1
    <3>2. \A slot \in ToSet(pending') : Filling(slot)
      BY <2>1, <2>2, <3>1 DEF LengthsInv
    <3> QED BY <1>1, <2>2, <3>2 DEF LengthsInv
  <2> QED BY <1>2, <1>7, <2>2, TupleStep DEF Throw
<1>8. CASE CheckNames \/ NamesThrow \/ ListThrows \/ Finish
  BY <1>2, <1>8 DEF CheckNames, NamesThrow, ListThrows, Finish, Throw
<1>9. CASE UNCHANGED vars
  BY <1>2, <1>9 DEF vars
<1> QED BY <1>4, <1>5, <1>6, <1>7, <1>8, <1>9 DEF Next
-----------------------------------------------------------------------------
(* Numbers.                                                                *)

\* What an entry under a new name adds to what is stored of an element.
LEMMA StoredEmplaced ==
  ASSUME NEW name, NEW entry, Emplace(name, entry), name \notin DOMAIN values_, NEW element
  PROVE  Stored(element)' = Stored(element) \cup (IF Owns(element, name) THEN Kept(entry) ELSE {})
<1>1. /\ DOMAIN values_' = DOMAIN values_ \cup {name} /\ values_'[name] = entry
      /\ \A n \in DOMAIN values_ : values_'[n] = values_[n]
      /\ reserved_names_' = reserved_names_
  BY Emplaced
<1>2. \A x : x \in Stored(element) <=> \E n \in DOMAIN values_ : Owns(element, n) /\ x \in Kept(values_[n])
  <2>1. \A n : n \in Mine(element) <=> n \in DOMAIN values_ /\ Owns(element, n)
    BY DEF Mine, Owns
  <2>2. \A x : x \in Stored(element) <=> \E n \in Mine(element) : x \in Kept(values_[n])
    BY Zenon DEF Stored, Kept
  <2> QED BY <2>1, <2>2
<1>3. \A x : x \in Stored(element)' <=> \E n \in DOMAIN values_' : Owns(element, n)' /\ x \in Kept(values_'[n])
  <2>1. \A n : n \in Mine(element)' <=> n \in DOMAIN values_' /\ Owns(element, n)'
    BY DEF Mine, Owns
  <2>2. \A x : x \in Stored(element)' <=> \E n \in Mine(element)' : x \in Kept(values_'[n])
    BY Zenon DEF Stored, Kept
  <2> QED BY <2>1, <2>2
<1>4. \A n : Owns(element, n)' <=> Owns(element, n)
  BY <1>1 DEF Owns
<1>5. \A x : x \in Stored(element)' <=> x \in Stored(element) \/ (Owns(element, name) /\ x \in Kept(entry))
  BY <1>1, <1>2, <1>3, <1>4
<1> QED BY <1>5

\* The next element has no entry yet, and none of its names is another's.
LEMMA NewElement ==
  ASSUME TypeInv, NamesInv, More, Element.value.tag = "list" => Element.name \in DOMAIN Decls
  PROVE  /\ \A n : Owns(Element, n) => n \notin DOMAIN values_ /\ (\A i \in 1..at : ~Owns(input[i], n))
         /\ Stored(Element) = {}
<1>1. at + 1 \in DOMAIN input /\ at \in Nat /\ DOMAIN input = 1..Len(input) /\ Len(input) \in Nat
  BY ElementFacts, InputLen
<1>2. PICK j : j = at + 1
  OBVIOUS
<1>3. j \in DOMAIN input /\ Element = input[j] /\ \A i \in 1..at : i \in DOMAIN input /\ i # j
  BY <1>1, <1>2 DEF Element
<1>4. /\ reserved_names_ = {input[i].name : i \in DOMAIN input}
      /\ \A x, y \in DOMAIN input : input[x].name = input[y].name => x = y
      /\ \A i \in 1..at : input[i].value.tag = "list" => input[i].name \in DOMAIN Decls
      /\ \A n \in DOMAIN values_ : \E i \in 1..at : Owns(input[i], n)
  BY DEF NamesInv, More
<1>5. ASSUME NEW n, Owns(Element, n), NEW i \in 1..at PROVE ~Owns(input[i], n)
  <2> SUFFICES ASSUME Owns(input[i], n) PROVE FALSE
    OBVIOUS
  <2>1. \A x \in DOMAIN input : input[x].name \in Names
    BY InputNames
  <2>2. i = j
    BY <1>3, <1>4, <1>5, <2>1, OneOwner
  <2> QED BY <1>3, <2>2
<1>6. \A n \in DOMAIN values_ : ~Owns(Element, n)
  BY <1>4, <1>5
<1>7. Mine(Element) = {}
  BY <1>6 DEF Mine, Owns
<1>8. Stored(Element) = {}
  BY <1>7 DEF Stored
<1> QED BY <1>5, <1>6, <1>8

\* A name of the element taken up last belongs to no other.
LEMMA OnlyLast ==
  ASSUME TypeInv, NamesInv, status = "adding", at # 0, NEW n, Owns(input[at], n)
  PROVE  \A i \in 1..at : Owns(input[i], n) => i = at
<1>1. at \in 1..Len(input) /\ DOMAIN input = 1..Len(input) /\ Len(input) \in Nat
  BY InputLen DEF TypeInv
<1>2. /\ reserved_names_ = {input[i].name : i \in DOMAIN input}
      /\ \A x, y \in DOMAIN input : input[x].name = input[y].name => x = y
      /\ \A i \in 1..at : input[i].value.tag = "list" => input[i].name \in DOMAIN Decls
  BY DEF NamesInv
<1>3. \A x \in DOMAIN input : input[x].name \in Names
  BY InputNames
<1> SUFFICES ASSUME NEW i \in 1..at, Owns(input[i], n) PROVE i = at
  OBVIOUS
<1>4. i \in DOMAIN input /\ at \in DOMAIN input /\ at \in 1..at
  BY <1>1
<1>5. /\ input[i].value.tag = "list" => input[i].name \in DOMAIN Decls
      /\ input[at].value.tag = "list" => input[at].name \in DOMAIN Decls
  BY <1>2, <1>4
<1> QED BY <1>2, <1>3, <1>4, <1>5, OneOwner

\* Every step keeps each number stored or pending.
LEMMA NumbersNext == ASSUME TypeInv, NamesInv, NumbersInv, [Next]_vars PROVE NumbersInv'
<1>0. at \in 0..Len(input) /\ Len(input) \in Nat /\ at \in Nat
  BY InputLen DEF TypeInv
<1>1. ASSUME UNCHANGED <<reserved_names_, values_>>, NEW element PROVE Stored(element)' = Stored(element)
  BY <1>1 DEF Stored, Mine
<1>2. ASSUME UNCHANGED pending PROVE NumbersPending' = NumbersPending
  BY <1>2 DEF NumbersPending
<1>3. CASE UNCHANGED <<input, at, pending, reserved_names_, values_>> /\ status = "adding"
  BY <1>1, <1>2, <1>3 DEF NumbersInv
<1>4. CASE UNCHANGED vars
  BY <1>1, <1>2, <1>4 DEF vars, NumbersInv
<1>5. CASE Throw
  BY <1>5 DEF Throw, NumbersInv
<1>6. CASE CheckNames
  <2>1. at' = 0
    BY <1>6 DEF CheckNames, TypeInv
  <2>2. \A i \in 1..at' : FALSE
    BY <2>1
  <2> QED BY <2>2 DEF NumbersInv
<1>7. CASE AddPlain \/ AddTuple
  <2>1. /\ More /\ status = "adding" /\ pending = <<>> /\ Element = input[at + 1]
        /\ Element.value.tag = "list" => AddTuple /\ Element.name \in DOMAIN Decls
    BY <1>7 DEF AddPlain, AddTuple, More, Element
  <2>2. NumbersPending = {}
    BY <2>1 DEF NumbersPending, ToSet
  <2>3. \A i \in 1..at : Numbers(input[i].value) = Stored(input[i])
    BY <2>1, <2>2 DEF NumbersInv
  <2>4. Stored(Element) = {}
    BY <2>1, NewElement
  <2>5. PICK j : j = at + 1
    OBVIOUS
  <2>6. ASSUME input' = input, at' = j,
               \A i \in 1..at : Stored(input[i])' = Stored(input[i]),
               Numbers(Element.value) = Stored(input[j])' \cup NumbersPending'
        PROVE  NumbersInv'
    <3>1. \A i \in 1..j : (i \in 1..at /\ i # j) \/ i = j
      BY <1>0, <2>5
    <3>2. \A i \in 1..j : Numbers(input[i].value)
                            = Stored(input[i])' \cup (IF i = j THEN NumbersPending' ELSE {})
      BY <2>1, <2>3, <2>5, <2>6, <3>1
    <3> QED BY <2>6, <3>2 DEF NumbersInv
  <2>7. CASE AddPlain
    <3>1. Element.value.tag # "list"
      BY <2>7 DEF AddPlain
    <3>2. PICK name : name = Element.name
      OBVIOUS
    <3>3. Owns(input[j], name)
      BY <2>1, <2>5, <3>1, <3>2 DEF Owns
    <3>4. name \notin DOMAIN values_ /\ \A i \in 1..at : ~Owns(input[i], name)
      BY <2>1, <2>5, <3>3, NewElement
    <3>5. ASSUME NEW entry, Kept(entry) = Numbers(Element.value), Emplace(name, entry),
                 at' = at + 1, UNCHANGED pending
          PROVE  NumbersInv'
      <4>1. \A e : Stored(e)' = Stored(e) \cup (IF Owns(e, name) THEN Kept(entry) ELSE {})
        BY <3>4, <3>5, StoredEmplaced
      <4>2. input' = input
        BY <3>5 DEF Emplace
      <4>3. NumbersPending' = {}
        BY <1>2, <2>2, <3>5
      <4>4. \A i \in 1..at : Stored(input[i])' = Stored(input[i])
        BY <3>4, <4>1, <4>2
      <4>5. Stored(input[j])' = Kept(entry)
        BY <2>1, <2>4, <2>5, <3>3, <4>1, <4>2
      <4> QED BY <2>5, <2>6, <3>5, <4>2, <4>3, <4>4, <4>5
    <3> QED BY <1>5, <2>7, <3>2, <3>5, PlainStep
  <2>8. CASE AddTuple
    <3>1. PICK slot : slot = Slot(Element.name, <<Element.value>>, <<>>, Decls[Element.name])
      OBVIOUS
    <3>2. /\ pending' = <<slot>> /\ at' = j /\ UNCHANGED <<input, reserved_names_, values_>>
          /\ slot.there = <<Element.value>>
      BY <2>5, <2>8, <3>1 DEF AddTuple, Slot
    <3>3. NumbersPending' = Numbers(Element.value)
      <4>1. ToSet(pending') = {slot} /\ ToSet(slot.there) = {Element.value}
        BY <3>2 DEF ToSet
      <4> QED BY <4>1 DEF NumbersPending, NumbersThere
    <3>4. \A i \in 1..at : Stored(input[i])' = Stored(input[i])
      BY <1>1, <3>2
    <3>5. Stored(input[j])' = {}
      BY <1>1, <2>1, <2>4, <2>5, <3>2
    <3> QED BY <2>6, <3>2, <3>3, <3>4, <3>5
  <2> QED BY <1>7, <2>7, <2>8
<1>8. CASE FlattenLeaf
  <2>1. /\ status = "adding" /\ ToSet(pending) = {Head(pending)} \cup ToSet(Tail(pending))
        /\ at \in DOMAIN input /\ Head(pending).decl.kind # "tuple" /\ at # 0
    BY <1>0, <1>8, PendingSlots DEF FlattenLeaf, Flattening, TypeInv
  <2>2. PICK name : name = Head(pending).name
    OBVIOUS
  <2>3. input[at].value.tag = "list" /\ name.base = input[at].name.base /\ Dotted(name)
    BY <2>1, <2>2 DEF NamesInv
  <2>4. PICK j : j = at
    OBVIOUS
  <2>5. ASSUME NEW entry, Kept(entry) = NumbersThere(Head(pending)), ~Taken(name), Emplace(name, entry),
               pending' = Tail(pending), UNCHANGED at
        PROVE  NumbersInv'
    <3>1. name \notin DOMAIN values_ /\ Owns(input[j], name)
      BY <2>3, <2>4, <2>5 DEF Taken, Owns
    <3>2. \A i \in 1..at : Owns(input[i], name) => i = j
      BY <2>1, <2>4, <3>1, OnlyLast
    <3>3. \A e : Stored(e)' = Stored(e) \cup (IF Owns(e, name) THEN Kept(entry) ELSE {})
      BY <2>5, <3>1, StoredEmplaced
    <3>4. NumbersPending = Kept(entry) \cup NumbersPending'
      BY <2>1, <2>5 DEF NumbersPending
    <3>5. input' = input
      BY <2>5 DEF Emplace
    <3>6. \A i \in 1..at : Numbers(input[i].value)
                             = Stored(input[i]) \cup (IF i = j THEN NumbersPending ELSE {})
      BY <2>1, <2>4 DEF NumbersInv
    <3>7. \A i \in 1..at : Numbers(input[i].value)
                             = Stored(input[i])' \cup (IF i = j THEN NumbersPending' ELSE {})
      <4> SUFFICES ASSUME NEW i \in 1..at
                   PROVE  Numbers(input[i].value)
                            = Stored(input[i])' \cup (IF i = j THEN NumbersPending' ELSE {})
        OBVIOUS
      <4>1. CASE i = j
        BY <3>1, <3>3, <3>4, <3>5, <3>6, <4>1
      <4>2. CASE i # j
        BY <3>2, <3>3, <3>5, <3>6, <4>2
      <4> QED BY <4>1, <4>2
    <3> QED BY <2>4, <2>5, <3>5, <3>7 DEF NumbersInv
  <2> QED BY <1>5, <1>8, <2>2, <2>5, LeafStep
<1>9. CASE FlattenTuple
  <2>1. /\ status = "adding" /\ ToSet(pending) = {Head(pending)} \cup ToSet(Tail(pending))
        /\ Tail(pending) \in Seq(SlotType(Values(at))) /\ pending # <<>>
    BY <1>9, PendingSlots DEF FlattenTuple, Flattening
  <2>2. ASSUME NEW slots \in Seq(SlotType(Values(at))), pending' = slots \o Tail(pending),
               UNCHANGED <<input, at, reserved_names_, values_, status>>,
               UNION {NumbersThere(slot) : slot \in ToSet(slots)} = NumbersThere(Head(pending))
        PROVE  NumbersInv'
    <3>1. ToSet(pending') = ToSet(slots) \cup ToSet(Tail(pending))
      <4>1. ToSet(slots \o Tail(pending)) = ToSet(slots) \cup ToSet(Tail(pending))
        BY <2>1, NewSlots
      <4> QED BY <2>2, <4>1
    <3>2. NumbersPending' = NumbersPending
      <4>1. \A x : x \in NumbersPending' <=> \E slot \in ToSet(pending') : x \in NumbersThere(slot)
        BY Zenon DEF NumbersPending
      <4>2. \A x : x \in NumbersPending <=> \E slot \in ToSet(pending) : x \in NumbersThere(slot)
        BY Zenon DEF NumbersPending
      <4>3. \A x : x \in NumbersThere(Head(pending)) <=> \E slot \in ToSet(slots) : x \in NumbersThere(slot)
        <5>1. \A x : x \in UNION {NumbersThere(slot) : slot \in ToSet(slots)}
                       <=> \E slot \in ToSet(slots) : x \in NumbersThere(slot)
          BY Zenon
        <5> QED BY <2>2, <5>1
      <4>4. \A x : x \in NumbersPending' <=> x \in NumbersPending
        BY <2>1, <3>1, <4>1, <4>2, <4>3
      <4> QED BY <4>4
    <3> QED BY <1>1, <2>2, <3>2 DEF NumbersInv
  <2> QED BY <1>5, <1>9, <2>2, TupleStep
<1>10. CASE NamesThrow \/ ListThrows
  BY <1>5, <1>10 DEF NamesThrow, ListThrows
<1>11. CASE Finish
  BY <1>3, <1>11 DEF Finish
<1> QED BY <1>4, <1>6, <1>7, <1>8, <1>9, <1>10, <1>11 DEF Next
-----------------------------------------------------------------------------
(* What the data context promises.                                         *)

DataInv == TypeInv /\ NamesInv /\ LengthsInv /\ NumbersInv

\* The invariants hold at the start, ...
LEMMA DataInit == ASSUME Init PROVE DataInv
<1>1. status # "built" => status = "names"
  BY DEF Init
<1>2. /\ pending = <<>> /\ values_ = <<>> /\ at = 0 /\ reserved_names_ = {}
      /\ (status = "built" => input = <<>>) /\ status \in {"names", "built"}
  BY DEF Init
<1>3. ToSet(pending) = {} /\ DOMAIN values_ = {} /\ 1..at = {}
  BY <1>2 DEF ToSet
<1>4. input = <<>> => DOMAIN input = {}
  OBVIOUS
<1>5. NamesInv
  BY <1>2, <1>3, <1>4 DEF NamesInv
<1>6. LengthsInv /\ NumbersInv
  BY <1>3 DEF LengthsInv, NumbersInv
<1> QED BY <1>5, <1>6, TypeInit DEF DataInv

\* ... and every step keeps them.
LEMMA DataNext == ASSUME DataInv, [Next]_vars PROVE DataInv'
BY TypeNext, NamesNext, LengthsNext, NumbersNext DEF DataInv

\* Once a list is built, without an empty payload in a tuple, every entry has as
\* many values as its dimensions say, the windows of complex slots included: what
\* add_value(), store_complex() and flatten_leaf() make of the sizes of all
\* enclosing arrays is what the generated code will read.
THEOREM LengthsTheorem == Spec => []LengthsMatchDims
<1>1. Init => DataInv
  BY DataInit
<1>2. DataInv /\ [Next]_vars => DataInv'
  BY DataNext
<1>3. DataInv => LengthsMatchDims
  BY DEF DataInv, LengthsInv, Fits, LengthsMatchDims
<1> QED BY <1>1, <1>2, <1>3, PTL DEF Spec

\* Once a list is built, every number supplied is stored, in an entry of the
\* element it was supplied in, and nothing else is: flatten_recurse() visits all
\* elements of arrays of tuples and emplace() never meets a name that is taken.
THEOREM NothingLostTheorem == Spec => []NothingLost
<1>1. Init => DataInv
  BY DataInit
<1>2. DataInv /\ [Next]_vars => DataInv'
  BY DataNext
<1>3. DataInv => NothingLost
  <2> SUFFICES ASSUME DataInv, Built, NEW i \in DOMAIN input
               PROVE  Numbers(input[i].value) = Stored(input[i])
    BY DEF NothingLost
  <2>1. pending = <<>> /\ at = Len(input) /\ status = "built" /\ i \in 1..at
    BY InputLen DEF DataInv, Built, TypeInv
  <2>2. NumbersPending = {}
    BY <2>1 DEF NumbersPending, ToSet
  <2> QED BY <2>1, <2>2 DEF DataInv, NumbersInv
<1> QED BY <1>1, <1>2, <1>3, PTL DEF Spec
-----------------------------------------------------------------------------
(* Where the numbers of a list are to be.                                  *)

\* The values on a path satisfy their recursive equation.
LEMMA ReachFunction ==
  ASSUME NEW v, NEW path, Len(path) - 1 \in Nat
  PROVE  /\ Reach(v, path)[0] = v
         /\ \A k \in 1..Len(path) - 1 : Reach(v, path)[k] = Reach(v, path)[k - 1].items[path[k]]
<1> DEFINE value[k \in 0..Len(path) - 1] == IF k = 0 THEN v ELSE value[k - 1].items[path[k]]
           Good(m, g) == g = [k \in 0..m |-> IF k = 0 THEN v ELSE g[k - 1].items[path[k]]]
           S == {m \in Nat : \E g : Good(m, g)}
<1>1. PICK end \in Nat : end = Len(path) - 1
  OBVIOUS
<1>2. 0 \in S
  <2>1. Good(0, [k \in 0..0 |-> v])
    OBVIOUS
  <2> QED BY <2>1
<1>3. ASSUME NEW m \in Nat, m \in S PROVE m + 1 \in S
  <2>1. PICK g : Good(m, g)
    BY <1>3
  <2>2. PICK x : x = g[m].items[path[m + 1]]
    OBVIOUS
  <2> DEFINE h == [k \in 0..m + 1 |-> IF k = m + 1 THEN x ELSE g[k]]
  <2>3. h[m + 1] = x /\ \A k \in 0..m : h[k] = g[k]
    OBVIOUS
  <2>4. \A k \in 0..m : g[k] = IF k = 0 THEN v ELSE g[k - 1].items[path[k]]
    BY <2>1, Zenon
  <2>5. ASSUME NEW k \in 0..m + 1
        PROVE  (IF k = m + 1 THEN x ELSE g[k]) = IF k = 0 THEN v ELSE h[k - 1].items[path[k]]
    <3> HIDE DEF h
    <3>1. CASE k = m + 1
      <4>1. k # 0 /\ h[k - 1] = g[m]
        BY <2>3, <3>1
      <4> QED BY <2>2, <3>1, <4>1, Zenon
    <3>2. CASE k = 0
      <4>1. k # m + 1 /\ k \in 0..m
        BY <3>2
      <4> QED BY <2>4, <3>2, <4>1, Zenon
    <3>3. CASE k \in 1..m
      <4>1. k # m + 1 /\ k # 0 /\ k \in 0..m /\ h[k - 1] = g[k - 1]
        BY <2>3, <3>3
      <4> QED BY <2>4, <4>1, Zenon
    <3> QED BY <3>1, <3>2, <3>3
  <2>6. Good(m + 1, h)
    BY <2>5, Zenon
  <2> HIDE DEF h, Good
  <2> QED BY <2>6
<1>4. PICK f : Good(end, f)
  <2>1. end \in S
    <3> HIDE DEF S
    <3> QED BY <1>2, <1>3, NatSet
  <2> QED BY <2>1
<1>5. value = [k \in 0..Len(path) - 1 |-> IF k = 0 THEN v ELSE value[k - 1].items[path[k]]]
  BY <1>1, <1>4, Zenon
<1>6. Reach(v, path) = value
  BY DEF Reach
<1> HIDE DEF value
<1>7. \A k \in 0..Len(path) - 1 : value[k] = IF k = 0 THEN v ELSE value[k - 1].items[path[k]]
  BY <1>5, Zenon
<1>8. 0 \in 0..Len(path) - 1 /\ \A k \in 1..Len(path) - 1 : k \in 0..Len(path) - 1 /\ k # 0
  BY <1>1
<1> QED BY <1>6, <1>7, <1>8, Zenon

\* From a position a step leads to an element of the array, with n elements in
\* this dimension, or to a slot.
Onward(p, n, i) == IF p.left > 0 THEN ToElement(p, n, i) ELSE ToSlot(p, i)

\* The positions on a path satisfy their recursive equation.
LEMMA RouteFunction ==
  ASSUME NEW v, NEW decl, NEW path, Len(path) - 1 \in Nat
  PROVE  /\ Route(v, decl, path)[0] = Start(decl)
         /\ \A k \in 1..Len(path) - 1 :
              Route(v, decl, path)[k]
                = Onward(Route(v, decl, path)[k - 1], Len(Reach(v, path)[k - 1].items), path[k])
<1> DEFINE Size_(k) == Len(Reach(v, path)[k - 1].items)
           position[k \in 0..Len(path) - 1] ==
             IF k = 0 THEN Start(decl)
             ELSE IF position[k - 1].left > 0
             THEN ToElement(position[k - 1], Len(Reach(v, path)[k - 1].items), path[k])
             ELSE ToSlot(position[k - 1], path[k])
           Good(m, g) == g = [k \in 0..m |-> IF k = 0 THEN Start(decl) ELSE Onward(g[k - 1], Size_(k), path[k])]
           S == {m \in Nat : \E g : Good(m, g)}
<1>1. PICK end \in Nat : end = Len(path) - 1
  OBVIOUS
<1>2. 0 \in S
  <2>1. \A k \in 0..0 : k = 0
    OBVIOUS
  <2>2. Good(0, [k \in 0..0 |-> Start(decl)])
    BY <2>1, Zenon
  <2> QED BY <2>2
<1>3. ASSUME NEW m \in Nat, m \in S PROVE m + 1 \in S
  <2>1. PICK g : Good(m, g)
    BY <1>3
  <2> HIDE DEF Size_
  <2>2. PICK x : x = Onward(g[m], Size_(m + 1), path[m + 1])
    OBVIOUS
  <2> DEFINE h == [k \in 0..m + 1 |-> IF k = m + 1 THEN x ELSE g[k]]
  <2>3. h[m + 1] = x /\ \A k \in 0..m : h[k] = g[k]
    OBVIOUS
  <2>4. \A k \in 0..m : g[k] = IF k = 0 THEN Start(decl) ELSE Onward(g[k - 1], Size_(k), path[k])
    BY <2>1, Zenon
  <2>5. ASSUME NEW k \in 0..m + 1
        PROVE  (IF k = m + 1 THEN x ELSE g[k]) = IF k = 0 THEN Start(decl) ELSE Onward(h[k - 1], Size_(k), path[k])
    <3> HIDE DEF h
    <3>1. CASE k = m + 1
      <4>1. k # 0 /\ h[k - 1] = g[m]
        BY <2>3, <3>1
      <4> QED BY <2>2, <3>1, <4>1, Zenon
    <3>2. CASE k = 0
      <4>1. k # m + 1 /\ k \in 0..m
        BY <3>2
      <4> QED BY <2>4, <3>2, <4>1, Zenon
    <3>3. CASE k \in 1..m
      <4>1. k # m + 1 /\ k # 0 /\ k \in 0..m /\ h[k - 1] = g[k - 1]
        BY <2>3, <3>3
      <4> QED BY <2>4, <4>1, Zenon
    <3> QED BY <3>1, <3>2, <3>3
  <2>6. Good(m + 1, h)
    BY <2>5, Zenon
  <2> HIDE DEF h, Good
  <2> QED BY <2>6
<1>4. PICK f : Good(end, f)
  <2>1. end \in S
    <3> HIDE DEF S
    <3> QED BY <1>2, <1>3, NatSet
  <2> QED BY <2>1
<1>5. position = [k \in 0..Len(path) - 1 |->
                    IF k = 0 THEN Start(decl) ELSE Onward(position[k - 1], Size_(k), path[k])]
  BY <1>1, <1>4, Zenon DEF Onward
<1>6. Route(v, decl, path) = position
  BY DEF Route
<1> HIDE DEF position
<1>7. \A k \in 0..Len(path) - 1 :
        position[k] = IF k = 0 THEN Start(decl) ELSE Onward(position[k - 1], Size_(k), path[k])
  BY <1>5, Zenon
<1>8. 0 \in 0..Len(path) - 1 /\ \A k \in 1..Len(path) - 1 : k \in 0..Len(path) - 1 /\ k # 0
  BY <1>1
<1> QED BY <1>6, <1>7, <1>8, Zenon

\* Step k of a path has come to the value w and the position p.
Stands(v, decl, path, k, w, p) ==
  k \in 0..Len(path) - 1 /\ Reach(v, path)[k] = w /\ Route(v, decl, path)[k] = p

\* A path that leads to a number begins at the start, ...
LEMMA StandsFirst ==
  ASSUME NEW v, NEW decl, NEW path \in Seq(Nat), NEW x, Leads(path, v, x)
  PROVE  Stands(v, decl, path, 0, v, Start(decl))
<1>1. path # <<>>
  BY DEF Leads
<1>2. Len(path) - 1 \in Nat
  BY <1>1, EmptySeq
<1> QED BY <1>2, ReachFunction, RouteFunction DEF Stands

\* ... goes on from a list to one of its items, ...
LEMMA StandsNext ==
  ASSUME NEW v, NEW decl, NEW path \in Seq(Nat), NEW x, Leads(path, v, x),
         NEW k, NEW w, NEW p, Stands(v, decl, path, k, w, p), w.tag = "list"
  PROVE  /\ path[k + 1] \in DOMAIN w.items
         /\ Stands(v, decl, path, k + 1, w.items[path[k + 1]], Onward(p, Len(w.items), path[k + 1]))
<1>1. path # <<>>
  BY DEF Leads
<1>2. Len(path) - 1 \in Nat
  BY <1>1, EmptySeq
<1>3. k \in 0..Len(path) - 1 /\ Reach(v, path)[k] = w /\ Route(v, decl, path)[k] = p
  BY DEF Stands
<1>4. k # Len(path) - 1
  BY <1>3 DEF Leads
<1>5. PICK j : j = k + 1
  OBVIOUS
<1>6. j \in 1..Len(path) - 1 /\ j - 1 = k /\ j \in 0..Len(path) - 1
  BY <1>2, <1>3, <1>4, <1>5
<1>7. path[j] \in DOMAIN w.items
  <2>1. path[j] \in DOMAIN Reach(v, path)[j - 1].items
    BY <1>6 DEF Leads
  <2> QED BY <1>3, <1>6, <2>1
<1>8. Reach(v, path)[j] = w.items[path[j]]
  <2>1. Reach(v, path)[j] = Reach(v, path)[j - 1].items[path[j]]
    <3>1. \A i \in 1..Len(path) - 1 : Reach(v, path)[i] = Reach(v, path)[i - 1].items[path[i]]
      BY <1>2, ReachFunction
    <3> QED BY <1>6, <3>1, Zenon
  <2> QED BY <1>3, <1>6, <2>1
<1>9. Route(v, decl, path)[j] = Onward(p, Len(w.items), path[j])
  <2>1. Route(v, decl, path)[j]
          = Onward(Route(v, decl, path)[j - 1], Len(Reach(v, path)[j - 1].items), path[j])
    BY <1>2, <1>6, RouteFunction
  <2> QED BY <1>3, <1>6, <2>1
<1> QED BY <1>5, <1>6, <1>7, <1>8, <1>9 DEF Stands

\* ... and ends at what is no list.
LEMMA StandsLast ==
  ASSUME NEW v, NEW decl, NEW path \in Seq(Nat), NEW x, Leads(path, v, x),
         NEW k, NEW w, NEW p, Stands(v, decl, path, k, w, p), w.tag = "atomic"
  PROVE  /\ k = Len(path) - 1 /\ path # <<>> /\ Last(path) \in Nat
         /\ Last(path) \in DOMAIN w.vals /\ w.vals[Last(path)] = x
<1>1. path # <<>>
  BY DEF Leads
<1>2. Len(path) - 1 \in Nat /\ Len(path) \in 1..Len(path) /\ DOMAIN path = 1..Len(path)
  BY <1>1, EmptySeq
<1>3. k \in 0..Len(path) - 1 /\ Reach(v, path)[k] = w
  BY DEF Stands
<1>4. \A j \in 1..Len(path) - 1 : Reach(v, path)[j - 1].tag = "list"
  BY DEF Leads
<1>5. k = Len(path) - 1
  <2> SUFFICES ASSUME k # Len(path) - 1 PROVE FALSE
    OBVIOUS
  <2>1. k + 1 \in 1..Len(path) - 1 /\ (k + 1) - 1 = k
    BY <1>2, <1>3
  <2>2. Reach(v, path)[k].tag = "list"
    BY <1>4, <2>1
  <2> QED BY <1>3, <2>2
<1>6. Last(path) \in Nat
  BY <1>2 DEF Last
<1>7. Last(path) \in DOMAIN w.vals /\ w.vals[Last(path)] = x
  BY <1>3, <1>5 DEF Leads
<1> QED BY <1>1, <1>5, <1>6, <1>7

\* Element j of sequence b among sequences of m elements, flattened.
LEMMA FlattenIndex ==
  ASSUME NEW D, NEW ss \in Seq(Seq(D)), NEW m \in Nat, \A i \in DOMAIN ss : Len(ss[i]) = m,
         NEW b \in DOMAIN ss, NEW j \in 1..m
  PROVE  /\ (b - 1) * m + j \in DOMAIN FlattenSeq(ss)
         /\ FlattenSeq(ss)[(b - 1) * m + j] = ss[b][j]
<1> DEFINE n == Len(ss)
<1>1. n \in Nat /\ b \in 1..n /\ ss # <<>> /\ \A k \in 1..n : ss[k] \in Seq(D) /\ Len(ss[k]) = m
  BY EmptySeq
<1>2. PICK f : FlattenTo(ss, D, f)
  BY <1>1, FlattenFunction
<1>3. f \in [1..n -> Seq(D)] /\ f[1] = ss[1] /\ FlattenSeq(ss) = f[n]
  BY <1>2 DEF FlattenTo
<1>4. \A k \in 2..n : f[k] = f[k - 1] \o ss[k]
  BY <1>2 DEF FlattenTo
<1>5. PICK at_ \in Nat : at_ = (b - 1) * m + j
  <2>1. \A x, y \in Nat : x * y \in Nat
    BY SMT
  <2>2. b - 1 \in Nat /\ j \in Nat
    BY <1>1
  <2>3. (b - 1) * m \in Nat
    BY <2>1, <2>2
  <2> QED BY <2>2, <2>3
<1> DEFINE Has_(k) == at_ \in DOMAIN f[k] /\ f[k][at_] = ss[b][j]
           S == {d \in Nat : b + d \in 1..n => Has_(b + d)}
<1> HIDE DEF n
<1>6. Has_(b)
  <2>1. CASE b = 1
    <3>1. at_ = j
      <4>1. \A x \in Nat : 0 * x = 0
        BY SMT
      <4> QED BY <1>5, <2>1, <4>1
    <3>2. DOMAIN ss[b] = 1..m
      BY <1>1
    <3> QED BY <1>3, <2>1, <3>1, <3>2
  <2>2. CASE b # 1
    <3>1. PICK a : a = b - 1
      OBVIOUS
    <3>2. a \in 1..n /\ b \in 2..n /\ a \in Nat
      BY <1>1, <2>2, <3>1
    <3>3. PICK s, t : s = f[a] /\ t = ss[b]
      OBVIOUS
    <3>4. s \in Seq(D) /\ t \in Seq(D) /\ Len(t) = m /\ f[b] = s \o t
      BY <1>1, <1>3, <1>4, <3>1, <3>2, <3>3
    <3>5. Len(s) = a * m
      <4> DEFINE T == {d \in Nat : d + 1 \in 1..n => Len(f[d + 1]) = (d + 1) * m}
      <4>1. 0 \in T
        <5>1. 1 * m = m /\ 1 \in 1..n
          BY <1>1
        <5> QED BY <1>1, <1>3, <5>1
      <4>2. ASSUME NEW d \in Nat, d \in T PROVE d + 1 \in T
        <5> SUFFICES ASSUME (d + 1) + 1 \in 1..n PROVE Len(f[(d + 1) + 1]) = ((d + 1) + 1) * m
          OBVIOUS
        <5>1. PICK e : e = d + 1
          OBVIOUS
        <5>2. e \in 1..n /\ e + 1 \in 1..n /\ e + 1 \in 2..n /\ (e + 1) - 1 = e /\ e \in Nat
          BY <1>1, <5>1
        <5>3. Len(f[e]) = e * m
          BY <4>2, <5>1, <5>2
        <5>4. PICK q, r : q = f[e] /\ r = ss[e + 1]
          OBVIOUS
        <5>5. q \in Seq(D) /\ r \in Seq(D) /\ Len(r) = m /\ f[e + 1] = q \o r
          BY <1>1, <1>3, <1>4, <5>2, <5>4
        <5>6. Len(q \o r) = Len(q) + Len(r)
          BY <5>5, ConcatProperties
        <5>7. (e + 1) * m = e * m + m
          <6>1. \A x, y \in Nat : (x + 1) * y = x * y + y
            BY SMT
          <6> QED BY <5>2, <6>1
        <5> QED BY <5>1, <5>3, <5>4, <5>5, <5>6, <5>7
      <4> HIDE DEF T
      <4>3. Nat \subseteq T
        BY <4>1, <4>2, NatSet
      <4>4. a - 1 \in Nat /\ (a - 1) + 1 = a
        BY <3>2
      <4>5. a - 1 \in T
        BY <4>3, <4>4
      <4> QED BY <3>2, <3>3, <4>4, <4>5 DEF T
    <3>6. at_ = Len(s) + j
      BY <1>5, <3>1, <3>5
    <3>7. (s \o t)[Len(s) + j] = t[j] /\ Len(s) + j \in DOMAIN (s \o t)
      <4>0. Len(s \o t) = Len(s) + Len(t) /\ Len(s) \in Nat /\ s \o t \in Seq(D)
        <5>1. s \in Seq(D) /\ t \in Seq(D)
          BY <3>4
        <5>2. Len(s) \in Nat
          BY <5>1, LenProperties
        <5>3. Len(s \o t) = Len(s) + Len(t) /\ s \o t \in Seq(D)
          BY <5>1, ConcatProperties
        <5> QED BY <5>2, <5>3
      <4>1. Len(s \o t) = Len(s) + m /\ Len(s) \in Nat /\ s \o t \in Seq(D)
        BY <3>4, <4>0
      <4>2. \A i \in 1..Len(s \o t) : (s \o t)[i] = IF i <= Len(s) THEN s[i] ELSE t[i - Len(s)]
        <5>1. \A i \in 1..Len(s) + Len(t) : (s \o t)[i] = IF i <= Len(s) THEN s[i] ELSE t[i - Len(s)]
          BY <3>4, ConcatProperties
        <5> QED BY <4>0, <5>1
      <4>3. Len(s) + j \in 1..Len(s \o t) /\ ~(Len(s) + j <= Len(s)) /\ (Len(s) + j) - Len(s) = j
        BY <4>1
      <4>4. DOMAIN (s \o t) = 1..Len(s \o t)
        BY <4>1, LenProperties
      <4> QED BY <4>2, <4>3, <4>4
    <3> QED BY <3>3, <3>4, <3>6, <3>7
  <2> QED BY <2>1, <2>2
<1>7. 0 \in S
  BY <1>1, <1>6
<1>8. ASSUME NEW d \in Nat, d \in S PROVE d + 1 \in S
  <2> SUFFICES ASSUME b + (d + 1) \in 1..n PROVE Has_(b + (d + 1))
    OBVIOUS
  <2>1. PICK e : e = b + d
    OBVIOUS
  <2>2. e \in 1..n /\ e + 1 \in 2..n /\ (e + 1) - 1 = e /\ b + (d + 1) = e + 1 /\ e + 1 \in 1..n
    BY <1>1, <2>1
  <2>3. Has_(e)
    BY <1>8, <2>1, <2>2
  <2>4. PICK q, r : q = f[e] /\ r = ss[e + 1]
    OBVIOUS
  <2>5. q \in Seq(D) /\ r \in Seq(D) /\ f[e + 1] = q \o r
    BY <1>1, <1>3, <1>4, <2>2, <2>4
  <2>6. at_ \in DOMAIN q /\ q[at_] = ss[b][j]
    BY <2>3, <2>4
  <2>7. at_ \in DOMAIN (q \o r) /\ (q \o r)[at_] = q[at_]
    <3>1. Len(q \o r) = Len(q) + Len(r) /\ Len(q) \in Nat /\ Len(r) \in Nat /\ q \o r \in Seq(D)
      BY <2>5, ConcatProperties
    <3>2. \A i \in 1..Len(q \o r) : (q \o r)[i] = IF i <= Len(q) THEN q[i] ELSE r[i - Len(q)]
      BY <2>5, ConcatProperties
    <3>3. at_ \in 1..Len(q) /\ DOMAIN (q \o r) = 1..Len(q \o r)
      BY <2>5, <2>6, <3>1, LenProperties
    <3>4. at_ \in 1..Len(q \o r) /\ at_ <= Len(q)
      BY <3>1, <3>3
    <3> QED BY <3>2, <3>3, <3>4
  <2> QED BY <2>2, <2>4, <2>5, <2>6, <2>7
<1> HIDE DEF S
<1>9. n - b \in Nat /\ b + (n - b) = n /\ n \in 1..n
  BY <1>1
<1>10. n - b \in S
  <2>1. Nat \subseteq S
    BY <1>7, <1>8, NatSet
  <2> QED BY <1>9, <2>1
<1>11. Has_(n)
  BY <1>9, <1>10 DEF S
<1> QED BY <1>3, <1>5, <1>11

\* Among the elements of an array, and at its place there.
Among(v, decl, path, a, d, left, slots, z, b) ==
  \E k : \E j \in DOMAIN a.elements :
    Stands(v, decl, path, k, a.elements[j], Position(d, left, slots, z \o a.sizes, b, j - 1, Len(a.elements)))

\* From an array to one of its elements, ...
LEMMA OnwardElement ==
  ASSUME NEW d, NEW left \in Nat, left # 0, NEW slots, NEW z, NEW b, NEW inner, NEW stride, NEW n, NEW q
  PROVE  Onward(Position(d, left, slots, z, b, inner, stride), n, q)
           = Position(d, left - 1, slots, Append(z, n), b, inner + (q - 1) * stride, stride * n)
<1> DEFINE p == Position(d, left, slots, z, b, inner, stride)
<1>1. /\ p.decl = d /\ p.left = left /\ p.slots = slots /\ p.sizes = z /\ p.block = b
      /\ p.inner = inner /\ p.stride = stride
  BY DEF Position
<1> HIDE DEF p
<1>2. p.left > 0
  BY <1>1
<1>3. Onward(p, n, q) = ToElement(p, n, q)
  BY <1>2, Zenon DEF Onward
<1>4. ToElement(p, n, q) = Position(d, left - 1, slots, Append(z, n), b, inner + (q - 1) * stride, stride * n)
  BY <1>1, Zenon DEF ToElement
<1> QED BY <1>3, <1>4 DEF p

\* ... and from a tuple to one of its slots.
LEMMA OnwardSlot ==
  ASSUME NEW d, NEW slots, NEW z, NEW b, NEW inner, NEW stride, NEW n, NEW s
  PROVE  Onward(Position(d, 0, slots, z, b, inner, stride), n, s)
           = Position(d.slots[s], d.slots[s].dims, Append(slots, s), z, b * stride + inner, 0, 1)
<1> DEFINE p == Position(d, 0, slots, z, b, inner, stride)
<1>1. /\ p.decl = d /\ p.left = 0 /\ p.slots = slots /\ p.sizes = z /\ p.block = b
      /\ p.inner = inner /\ p.stride = stride
  BY DEF Position
<1> HIDE DEF p
<1>2. ~(p.left > 0)
  BY <1>1
<1>3. Onward(p, n, s) = ToSlot(p, s)
  BY <1>2, Zenon DEF Onward
<1>4. ToSlot(p, s) = Position(d.slots[s], d.slots[s].dims, Append(slots, s), z, b * stride + inner, 0, 1)
  BY <1>1, Zenon DEF ToSlot
<1> QED BY <1>3, <1>4 DEF p

\* One size more.
LEMMA ConcatAppend ==
  ASSUME NEW s \in Seq(Nat), NEW t \in Seq(Nat), NEW x \in Nat
  PROVE  Append(s \o t, x) = s \o Append(t, x)
<1>1. s \o t \in Seq(Nat) /\ Append(t, x) \in Seq(Nat) /\ s \o Append(t, x) = Append(s \o t, x)
  OBVIOUS
<1> QED BY <1>1

\* Item q of list j among the interleaved items of p lists of n.
IndexOf(i, p, n, j, q) ==
  i \in 1..p * n /\ (i - 1) % p = j - 1 /\ (i - 1) \div p = q - 1 /\ i - 1 = (j - 1) + (q - 1) * p

\* Each of them is there.
LEMMA InterleavedIndex ==
  ASSUME NEW p \in Nat \ {0}, NEW n \in Nat, NEW j \in 1..p, NEW q \in 1..n
  PROVE  \E i : IndexOf(i, p, n, j, q)
<1>1. PICK a, b : a = j - 1 /\ b = q - 1
  OBVIOUS
<1>2. a \in 0..p - 1 /\ b \in 0..n - 1
  BY <1>1
<1>3. PICK y : y = a + p * b
  OBVIOUS
<1>4. y \in 0..p * n - 1 /\ y % p = a /\ y \div p = b
  BY <1>2, <1>3, Compose
<1>5. p * n \in Nat /\ p * b = b * p
  BY <1>2, SMT
<1>6. PICK i : i = y + 1
  OBVIOUS
<1>7. i \in 1..p * n /\ i - 1 = y
  BY <1>4, <1>5, <1>6
<1>8. y = a + b * p
  BY <1>3, <1>5
<1> QED BY <1>1, <1>4, <1>7, <1>8 DEF IndexOf

\* One dimension more: still at its place.
LEMMA LevelAmong ==
  ASSUME NEW V, Closed(V), NEW u, NEW a, ArrayOf(a, V, u), Level(a).regular,
         NEW v, NEW decl, NEW path \in Seq(Nat), NEW x, Leads(path, v, x),
         NEW d, NEW left \in Nat, left # 0, NEW slots, NEW z \in Seq(Nat), NEW b,
         Among(v, decl, path, a, d, left, slots, z, b)
  PROVE  Among(v, decl, path, Level(a), d, left - 1, slots, z, b)
<1> DEFINE lists == a.elements
           p == Len(lists)
           n == Len(lists[1].items)
           all == Interleaved(lists, n)
<1>1. PICK k : \E j \in DOMAIN lists :
        Stands(v, decl, path, k, lists[j], Position(d, left, slots, z \o a.sizes, b, j - 1, Len(lists)))
  BY Zenon DEF Among
<1>2. PICK j :
        /\ j \in DOMAIN lists
        /\ Stands(v, decl, path, k, lists[j], Position(d, left, slots, z \o a.sizes, b, j - 1, Len(lists)))
  BY <1>1
<1>3. lists \in Seq(V) /\ a.sizes \in Seq(Nat)
  BY DEF ArrayOf
<1>4. DOMAIN lists = 1..p /\ p \in Nat \ {0} /\ lists # <<>> /\ j \in 1..p
      /\ 1 \in DOMAIN lists /\ j \in DOMAIN lists
  BY <1>3, <1>2, EmptySeq
<1>5. Level(a) = Deeper(a)
  BY <1>4 DEF Level
<1>6. /\ \A i \in DOMAIN lists : IsUnnamedList(lists[i])
      /\ \A i \in DOMAIN lists : Len(lists[i].items) = n
      /\ Deeper(a) = [regular |-> TRUE, sizes |-> Append(a.sizes, n), elements |-> all]
  <2>1. Ragged.regular = FALSE
    BY DEF Ragged
  <2>2. Deeper(a) # Ragged
    BY <1>5, <2>1
  <2> QED BY <2>2, Zenon DEF Deeper
<1>7. \A i \in DOMAIN lists : lists[i] \in V /\ lists[i].tag = "list" /\ lists[i].items \in Seq(V)
  <2>1. \A i \in DOMAIN lists : lists[i] \in V
    BY <1>3
  <2> QED BY <1>6, <2>1, ListItems
<1>8. n \in Nat /\ DOMAIN lists[j].items = 1..n /\ Len(lists[j].items) = n
  <2>1. PICK items : items = lists[j].items
    OBVIOUS
  <2>2. items \in Seq(V) /\ Len(items) = n
    BY <1>4, <1>6, <1>7, <2>1
  <2>3. DOMAIN items = 1..Len(items) /\ Len(items) \in Nat
    BY <2>2, LenProperties
  <2> QED BY <2>1, <2>2, <2>3
<1>9. ListsOf(lists, V, n)
  BY <1>3, <1>4, <1>6, <1>7, <1>8 DEF ListsOf
<1> HIDE DEF n
<1>10. Len(all) = p * n /\ all \in Seq(V)
  BY <1>9, InterleavedItems
<1>11. all = [i \in 1..p * n |-> lists[((i - 1) % p) + 1].items[((i - 1) \div p) + 1]]
  BY Zenon DEF Interleaved
<1> HIDE DEF all, p, lists
<1> PICK q : q = path[k + 1]
  OBVIOUS
<1> PICK w : w = lists[j]
  OBVIOUS
<1>12. /\ q \in 1..n
       /\ Stands(v, decl, path, k + 1, w.items[q],
                 Onward(Position(d, left, slots, z \o a.sizes, b, j - 1, p), n, q))
  <2>1. w.tag = "list" /\ Len(w.items) = n /\ DOMAIN w.items = 1..n
    BY <1>4, <1>7, <1>8
  <2>2. Stands(v, decl, path, k, w, Position(d, left, slots, z \o a.sizes, b, j - 1, p))
    BY <1>2 DEF p
  <2>3. /\ path[k + 1] \in DOMAIN w.items
        /\ Stands(v, decl, path, k + 1, w.items[path[k + 1]],
                  Onward(Position(d, left, slots, z \o a.sizes, b, j - 1, p), Len(w.items), path[k + 1]))
    BY <2>1, <2>2, StandsNext
  <2> QED BY <2>1, <2>3
<1>0. p \in Nat \ {0} /\ j \in 1..p /\ n \in Nat /\ q \in 1..n
  BY <1>4, <1>8, <1>12
<1>13. PICK i : IndexOf(i, p, n, j, q)
  BY <1>0, InterleavedIndex
<1>14. i \in 1..p * n /\ (i - 1) % p = j - 1 /\ (i - 1) \div p = q - 1 /\ i - 1 = (j - 1) + (q - 1) * p
  BY <1>13 DEF IndexOf
<1>15. (j - 1) + 1 = j /\ (q - 1) + 1 = q
  BY <1>0
<1>19. all[i] = w.items[q]
  <2>1. all[i] = lists[((i - 1) % p) + 1].items[((i - 1) \div p) + 1]
    BY <1>11, <1>14
  <2>2. all[i] = lists[(j - 1) + 1].items[(q - 1) + 1]
    BY <1>14, <2>1, Zenon
  <2> QED BY <1>15, <2>2
<1>20. i \in DOMAIN all
  BY <1>11, <1>14
<1>21. Onward(Position(d, left, slots, z \o a.sizes, b, j - 1, p), n, q)
         = Position(d, left - 1, slots, z \o Append(a.sizes, n), b, i - 1, Len(all))
  <2>1. Onward(Position(d, left, slots, z \o a.sizes, b, j - 1, p), n, q)
          = Position(d, left - 1, slots, Append(z \o a.sizes, n), b, (j - 1) + (q - 1) * p, p * n)
    BY OnwardElement
  <2>2. Append(z \o a.sizes, n) = z \o Append(a.sizes, n)
    <3>1. PICK t : t = a.sizes
      OBVIOUS
    <3>2. t \in Seq(Nat) /\ n \in Nat
      BY <1>0, <1>3, <3>1
    <3>3. Append(z \o t, n) = z \o Append(t, n)
      BY <3>2, ConcatAppend
    <3> QED BY <3>1, <3>3
  <2> QED BY <1>10, <1>14, <2>1, <2>2
<1>22. Stands(v, decl, path, k + 1, all[i],
              Position(d, left - 1, slots, z \o Append(a.sizes, n), b, i - 1, Len(all)))
  BY <1>12, <1>19, <1>21
<1>23. Level(a).elements = all /\ Level(a).sizes = Append(a.sizes, n)
  BY <1>5, <1>6
<1> QED BY <1>20, <1>22, <1>23 DEF Among

\* All dimensions: tuple_array_shape() and enumerate_elements() put an element of
\* an array at its place.
LEMMA UnnestAmong ==
  ASSUME NEW V, Closed(V), NEW w \in V, NEW dims \in Nat, Unnest(w, dims).regular,
         NEW v, NEW decl, NEW path \in Seq(Nat), NEW x, Leads(path, v, x),
         NEW d, NEW slots, NEW z \in Seq(Nat), NEW b,
         NEW k, Stands(v, decl, path, k, w, Position(d, dims, slots, z, b, 0, 1))
  PROVE  Among(v, decl, path, Unnest(w, dims), d, 0, slots, z, b)
<1>1. PICK f : UnnestTo(w, dims, V, f)
  BY UnnestFunction
<1>2. /\ f[0] = [regular |-> TRUE, sizes |-> <<>>, elements |-> <<w>>]
      /\ \A j \in 1..dims : f[j] = Level(f[j - 1])
      /\ \A j \in 0..dims : ArrayOf(f[j], V, w)
      /\ Unnest(w, dims) = f[dims]
  BY <1>1 DEF UnnestTo
<1> DEFINE In(j) == Among(v, decl, path, f[j], d, dims - j, slots, z, b)
           S == {j \in Nat : j \in 0..dims /\ f[j].regular => In(j)}
<1>3. 0 \in S
  <2>1. z \o <<>> = z /\ DOMAIN <<w>> = {1} /\ <<w>>[1] = w /\ Len(<<w>>) = 1 /\ 1 - 1 = 0 /\ dims - 0 = dims
    OBVIOUS
  <2>2. f[0].elements = <<w>> /\ f[0].sizes = <<>>
    BY <1>2
  <2>3. Among(v, decl, path, f[0], d, dims, slots, z, b)
    BY <2>1, <2>2 DEF Among
  <2> QED BY <2>1, <2>3
<1>4. ASSUME NEW j \in Nat, j \in S PROVE j + 1 \in S
  <2> SUFFICES ASSUME j + 1 \in 0..dims, f[j + 1].regular PROVE In(j + 1)
    OBVIOUS
  <2>1. PICK a : a = f[j]
    OBVIOUS
  <2>2. j \in 0..dims /\ j + 1 \in 1..dims /\ (j + 1) - 1 = j
    OBVIOUS
  <2>3. f[j + 1] = Level(a) /\ ArrayOf(a, V, w)
    BY <1>2, <2>1, <2>2
  <2>4. a.regular
    <3> SUFFICES ASSUME ~a.regular PROVE FALSE
      OBVIOUS
    <3>1. a.elements = <<>>
      BY <2>3 DEF ArrayOf
    <3>2. Level(a) = a
      BY <3>1 DEF Level
    <3> QED BY <2>3, <3>2
  <2>5. Among(v, decl, path, a, d, dims - j, slots, z, b)
    BY <1>4, <2>1, <2>2, <2>4
  <2>6. PICK left : left = dims - j
    OBVIOUS
  <2>7. left \in Nat /\ left # 0 /\ left - 1 = dims - (j + 1)
    BY <2>2, <2>6
  <2>8. Level(a).regular
    BY <2>3
  <2>9. Among(v, decl, path, Level(a), d, left - 1, slots, z, b)
    BY <2>3, <2>5, <2>6, <2>7, <2>8, LevelAmong
  <2> QED BY <2>3, <2>7, <2>9
<1> HIDE DEF S
<1>5. dims \in S
  BY <1>3, <1>4, NatSet
<1>6. dims \in 0..dims /\ dims - dims = 0
  OBVIOUS
<1> QED BY <1>2, <1>5, <1>6 DEF S
-----------------------------------------------------------------------------
(* The slots of a tuple, and what a slot becomes.                          *)

\* Where the values of a slot are to be, ...
SlotPosition(slot, i) == Position(slot.decl, slot.decl.dims, slot.name.slots, slot.sizes, i - 1, 0, 1)

\* ... and are: a path comes by one of them, and has found its place.
Sits(v, decl, path, slot) ==
  \E i \in DOMAIN slot.there : \E k : Stands(v, decl, path, k, slot.there[i], SlotPosition(slot, i))

\* flatten_recurse() on a tuple leaves everything at its place.
LEMMA TuplePlaces ==
  ASSUME NEW V, Closed(V), NEW slot \in SlotType(V), NEW arrays, NEW inner, NEW elements, NEW slots,
         Unpacks(slot, arrays, inner, elements, slots),
         NEW v, NEW decl, NEW path \in Seq(Nat), NEW x, Leads(path, v, x), Sits(v, decl, path, slot)
  PROVE  \E s \in DOMAIN slots : Sits(v, decl, path, slots[s])
<1> DEFINE n_slots == Len(slot.decl.slots)
<1> PICK pieces : pieces = [i \in DOMAIN arrays |-> arrays[i].elements]
  OBVIOUS
<1>1. /\ inner \in Seq(Nat) /\ DOMAIN arrays = DOMAIN slot.there
      /\ \A i \in DOMAIN slot.there : arrays[i].elements \in Seq(V) /\ Len(arrays[i].elements) = Size(inner)
      /\ pieces \in Seq(Seq(V)) /\ DOMAIN pieces = DOMAIN slot.there
      /\ \A i \in DOMAIN slot.there : pieces[i] = arrays[i].elements
      /\ elements = FlattenSeq(pieces)
  BY Unpacked
<1>2. \A i \in DOMAIN elements :
        elements[i] \in V /\ elements[i].tag = "list" /\ DOMAIN elements[i].items = 1..n_slots
  BY Unpacked
<1>3. DOMAIN slots = 1..n_slots
  BY Unpacked
<1>4. \A s \in 1..n_slots : IsSlot(slots[s], s, slot, inner, elements, V)
  BY Unpacked
<1>5. /\ \A i \in DOMAIN slot.there : arrays[i] = Unnest(slot.there[i], slot.decl.dims)
      /\ \A i \in DOMAIN slot.there : arrays[i].regular /\ arrays[i].sizes = inner
  BY <1>1 DEF Unpacks
<1>6. /\ slot.there \in Seq(V) /\ slot.sizes \in Seq(Nat) /\ slot.decl.dims \in Nat
      /\ DOMAIN slot.there \subseteq Nat \ {0} /\ \A i \in DOMAIN slot.there : slot.there[i] \in V
  <2>1. slot.there \in Seq(V) /\ slot.sizes \in Seq(Nat) /\ slot.decl \in Types
    BY DEF SlotType
  <2>2. slot.decl.dims \in Nat
    BY <2>1, DataAssumption
  <2> QED BY <2>1, <2>2
<1> HIDE DEF n_slots
<1>7. PICK i, k : i \in DOMAIN slot.there /\ Stands(v, decl, path, k, slot.there[i], SlotPosition(slot, i))
  BY DEF Sits
<1>8. PICK w, a, d, z, names, b :
        w = slot.there[i] /\ a = arrays[i] /\ d = slot.decl /\ z = slot.sizes /\ names = slot.name.slots /\ b = i - 1
  OBVIOUS
<1>9. /\ w \in V /\ z \in Seq(Nat) /\ d.dims \in Nat /\ a = Unnest(w, d.dims) /\ a.regular
      /\ a.sizes = inner /\ Stands(v, decl, path, k, w, Position(d, d.dims, names, z, b, 0, 1))
  BY <1>5, <1>6, <1>7, <1>8 DEF SlotPosition
<1>10. Among(v, decl, path, a, d, 0, names, z, b)
  <2>1. PICK dims : dims = d.dims
    OBVIOUS
  <2>2. dims \in Nat /\ Unnest(w, dims).regular /\ Stands(v, decl, path, k, w, Position(d, dims, names, z, b, 0, 1))
    BY <1>9, <2>1
  <2>3. Among(v, decl, path, Unnest(w, dims), d, 0, names, z, b)
    BY <1>9, <2>2, UnnestAmong
  <2> QED BY <1>9, <2>1, <2>3
<1>11. PICK h, j :
         /\ j \in DOMAIN a.elements
         /\ Stands(v, decl, path, h, a.elements[j], Position(d, 0, names, z \o a.sizes, b, j - 1, Len(a.elements)))
  BY <1>10 DEF Among
<1>12. PICK m : m = Size(inner)
  OBVIOUS
<1>13. m \in Nat /\ Len(a.elements) = m /\ DOMAIN a.elements = 1..m /\ j \in 1..m /\ pieces[i] = a.elements
       /\ i \in Nat \ {0} /\ i \in DOMAIN pieces
  <2>1. a.elements \in Seq(V) /\ Len(a.elements) = m /\ pieces[i] = a.elements
    BY <1>1, <1>7, <1>8, <1>12
  <2>2. DOMAIN a.elements = 1..m /\ m \in Nat
    BY <2>1, LenProperties
  <2> QED BY <1>1, <1>6, <1>7, <1>11, <2>1, <2>2
<1>14. PICK e : e = (i - 1) * m + j
  OBVIOUS
<1>15. e \in DOMAIN elements /\ elements[e] = a.elements[j]
  <2>1. \A c \in DOMAIN pieces : Len(pieces[c]) = m
    BY <1>1, <1>12
  <2>2. pieces \in Seq(Seq(V)) /\ m \in Nat /\ i \in DOMAIN pieces /\ j \in 1..m
    BY <1>1, <1>13
  <2>3. /\ (i - 1) * m + j \in DOMAIN FlattenSeq(pieces)
        /\ FlattenSeq(pieces)[(i - 1) * m + j] = pieces[i][j]
    BY <2>1, <2>2, FlattenIndex
  <2> QED BY <1>1, <1>13, <1>14, <2>3
<1>16. PICK u, q : u = elements[e] /\ q = path[h + 1]
  OBVIOUS
<1>17. /\ q \in 1..n_slots
       /\ Stands(v, decl, path, h + 1, u.items[q], Onward(Position(d, 0, names, z \o inner, b, j - 1, m), Len(u.items), q))
  <2>1. u.tag = "list" /\ DOMAIN u.items = 1..n_slots
    BY <1>2, <1>15, <1>16
  <2>2. Stands(v, decl, path, h, u, Position(d, 0, names, z \o inner, b, j - 1, m))
    BY <1>9, <1>11, <1>13, <1>15, <1>16
  <2>3. /\ path[h + 1] \in DOMAIN u.items
        /\ Stands(v, decl, path, h + 1, u.items[path[h + 1]],
                  Onward(Position(d, 0, names, z \o inner, b, j - 1, m), Len(u.items), path[h + 1]))
    BY <2>1, <2>2, StandsNext
  <2> QED BY <1>16, <2>1, <2>3
<1>18. PICK t : t = slots[q]
  OBVIOUS
<1>19. /\ e \in DOMAIN t.there /\ t.there[e] = u.items[q] /\ t.sizes = z \o inner /\ t.decl = d.slots[q]
       /\ t.name.slots = Append(names, q)
  <2>1. IsSlot(t, q, slot, inner, elements, V)
    BY <1>4, <1>17, <1>18
  <2>2. t.name = Dot(slot.name, q)
    BY <2>1 DEF IsSlot
  <2>3. slot.name \in Names
    BY DEF SlotType
  <2>4. t.name.slots = Append(names, q)
    BY <1>8, <2>2, <2>3 DEF Dot, Names
  <2> QED BY <1>8, <1>15, <1>16, <2>1, <2>4 DEF IsSlot
<1>20. Onward(Position(d, 0, names, z \o inner, b, j - 1, m), Len(u.items), q) = SlotPosition(t, e)
  <2>1. Onward(Position(d, 0, names, z \o inner, b, j - 1, m), Len(u.items), q)
          = Position(d.slots[q], d.slots[q].dims, Append(names, q), z \o inner, b * m + (j - 1), 0, 1)
    BY OnwardSlot
  <2>2. b * m + (j - 1) = e - 1
    <3>1. \A y, n \in Nat : y * n \in Nat
      BY SMT
    <3>2. i - 1 \in Nat /\ j \in Nat
      BY <1>13
    <3>3. (i - 1) * m \in Nat
      BY <1>13, <3>1, <3>2
    <3>4. b * m = (i - 1) * m
      BY <1>8
    <3> QED BY <1>14, <3>2, <3>3, <3>4
  <2>3. t.decl.dims = d.slots[q].dims
    BY <1>19
  <2> QED BY <1>19, <2>1, <2>2, <2>3 DEF SlotPosition
<1>21. Sits(v, decl, path, t)
  BY <1>17, <1>19, <1>20 DEF Sits
<1> QED BY <1>3, <1>17, <1>18, <1>21
\* The beginning of a sequence.
LEMMA SubSeqConcat ==
  ASSUME NEW s \in Seq(Nat), NEW t \in Seq(Nat)
  PROVE  SubSeq(s \o t, 1, Len(s)) = s
<1>1. /\ s \o t \in Seq(Nat) /\ Len(s \o t) = Len(s) + Len(t) /\ Len(s) \in Nat /\ Len(t) \in Nat
      /\ \A i \in 1..Len(s) : (s \o t)[i] = s[i]
  BY ConcatProperties, LenProperties
<1>2. \A i \in 1..Len(s) : (s \o t)[i] \in Nat
  BY <1>1
<1> QED BY <1>1, <1>2

\* Also where every number is two.
LEMMA SubSeqComplex ==
  ASSUME NEW s \in Seq(Nat), NEW t \in Seq(Nat)
  PROVE  SubSeq((s \o t) \o <<2>>, 1, Len(s)) = s
<1>5. <<2>> \in Seq(Nat)
  OBVIOUS
<1>1. PICK two : two = <<2>> /\ two \in Seq(Nat)
  BY <1>5
<1>2. t \o two \in Seq(Nat)
  BY <1>1, ConcatProperties
<1>3. (s \o t) \o two = s \o (t \o two)
  BY <1>1, ConcatAssociative
<1>4. SubSeq(s \o (t \o two), 1, Len(s)) = s
  BY <1>2, SubSeqConcat
<1> QED BY <1>1, <1>3, <1>4, Zenon

\* Complex values in blocks of m.
InBlocks(vals, blocks, m, dims, enclosing) ==
  /\ m \in Nat \ {0} /\ blocks \in Nat /\ vals \in Seq(Number) /\ Len(vals) = blocks * m
  /\ dims \in Seq(Nat) /\ enclosing \in Nat /\ ~(enclosing > Len(dims))
  /\ Size(SubSeq(dims, 1, enclosing)) = blocks

\* Value j of block b at place j of window b.
InWindow(e, vals, m, dims, b, j) ==
  /\ e.kind = "complexes" /\ e.dims = dims \o <<2>>
  /\ (b - 1) * (2 * m) + j \in DOMAIN e.vals
  /\ e.vals[(b - 1) * (2 * m) + j] = vals[(b - 1) * m + j]

\* store_complex() puts it there.
LEMMA WindowPlace ==
  ASSUME NEW vals, NEW blocks, NEW m, NEW dims, NEW enclosing, InBlocks(vals, blocks, m, dims, enclosing),
         StoreComplex(vals, dims, enclosing) # Stop, NEW b \in 1..blocks, NEW j \in 1..m
  PROVE  InWindow(StoreComplex(vals, dims, enclosing), vals, m, dims, b, j)
<1> DEFINE elements == Size(SubSeq(dims, 1, enclosing))
           w == Len(vals) \div elements
           windows == [i \in 1..2 * Len(vals) |-> IF Filled(i, w) THEN vals[Window(i, w)] ELSE Padding]
<1>0. /\ m \in Nat \ {0} /\ blocks \in Nat /\ vals \in Seq(Number) /\ Len(vals) = blocks * m
      /\ dims \in Seq(Nat) /\ enclosing \in Nat /\ ~(enclosing > Len(dims)) /\ elements = blocks
  BY DEF InBlocks
<1>1. StoreComplex(vals, dims, enclosing) = [kind |-> "complexes", vals |-> windows, dims |-> dims \o <<2>>]
  <2>1. ~Has(vals, "na")
    BY DEF StoreComplex
  <2> QED BY <1>0, <2>1 DEF StoreComplex, EntryOf, Filled, Window
<1>2. w = m
  <2>1. \A x, y \in Nat \ {0} : (x * y) \div x = y
    <3> SUFFICES ASSUME NEW x \in Nat \ {0}, NEW y \in Nat \ {0} PROVE (x * y) \div x = y
      OBVIOUS
    <3>1. PICK c : c = 0 + x * y
      OBVIOUS
    <3>2. c % x = 0 /\ c \div x = y
      BY <3>1, Compose
    <3>3. c = x * y
      BY <3>1, SMT
    <3> QED BY <3>2, <3>3
  <2>2. blocks \in Nat \ {0}
    BY <1>0
  <2>3. (blocks * m) \div blocks = m
    BY <1>0, <2>1, <2>2
  <2> QED BY <1>0, <2>3
<1> HIDE DEF elements, w
<1>3. PICK p, c, f : p = 2 * m /\ c = b - 1 /\ f = j - 1
  OBVIOUS
<1>4. /\ p \in Nat \ {0} /\ c \in Nat /\ c \in 0..blocks - 1 /\ f \in 0..p - 1 /\ f < m /\ f \in Nat
      /\ b = c + 1 /\ j = f + 1
  BY <1>0, <1>3
<1>5. PICK y : y = f + p * c
  OBVIOUS
<1>6. y \in 0..p * blocks - 1 /\ y % p = f /\ y \div p = c
  <2>1. p \in Nat \ {0} /\ blocks \in Nat /\ f \in 0..p - 1 /\ c \in 0..blocks - 1
    BY <1>0, <1>4
  <2> QED BY <1>5, <2>1, Compose
<1>7. PICK i : i = (b - 1) * (2 * m) + j
  OBVIOUS
<1>8. i = y + 1
  <2>1. c * p = p * c /\ p * c \in Nat
    BY <1>4, SMT
  <2> QED BY <1>0, <1>3, <1>4, <1>5, <1>7, <2>1
<1>9. p * blocks = 2 * Len(vals) /\ Len(vals) \in Nat
  <2>1. \A s, t \in Nat : (2 * s) * t = 2 * (t * s)
    BY SMT
  <2> QED BY <1>0, <1>3, <2>1
<1>10. i \in 1..2 * Len(vals) /\ i - 1 = y
  BY <1>6, <1>8, <1>9
<1>11. Filled(i, m) /\ Window(i, m) = c * m + f + 1
  BY <1>0, <1>3, <1>4, <1>6, <1>10 DEF Filled, Window
<1>12. windows[i] = vals[(b - 1) * m + j] /\ i \in DOMAIN windows
  <2>1. c * m \in Nat
    <3>1. \A s, t \in Nat : s * t \in Nat
      BY SMT
    <3> QED BY <1>0, <1>4, <3>1
  <2>2. c * m + f + 1 = (b - 1) * m + j
    BY <1>0, <1>3, <1>4, <2>1
  <2> QED BY <1>2, <1>10, <1>11, <2>2
<1> HIDE DEF windows
<1>13. PICK e : e = StoreComplex(vals, dims, enclosing)
  OBVIOUS
<1>14. e.kind = "complexes" /\ e.dims = dims \o <<2>> /\ e.vals = windows
  BY <1>1, <1>13
<1> QED BY <1>7, <1>12, <1>13, <1>14 DEF InWindow

\* Where an entry has the number a path leads to.
HoldsAt(entry, names, v, decl, path, x) ==
  LET place   == Route(v, decl, path)[Len(path) - 1]
      payload == Reach(v, path)[Len(path) - 1]
      width   == Len(payload.vals) * (IF entry.kind = "complexes" THEN 2 ELSE 1)
      index   == place.block * width + Last(path) IN
  /\ place.slots = names
  /\ SubSeq(entry.dims, 1, Len(place.sizes)) = place.sizes
  /\ index \in DOMAIN entry.vals /\ entry.vals[index] = x

\* flatten_leaf() stores a number at its place.
LEMMA LeafPlaces ==
  ASSUME NEW V, Closed(V), NEW leaf \in SlotType(V), LeafEntry(leaf) # Stop,
         Filling(leaf), \A w \in V : w.tag = "atomic" => w.vals # <<>>,
         NEW v, NEW decl, NEW path \in Seq(Nat), NEW x, Leads(path, v, x), Sits(v, decl, path, leaf)
  PROVE  HoldsAt(LeafEntry(leaf), leaf.name.slots, v, decl, path, x)
<1>1. PICK pieces, shape : IsLeaf(leaf, V, pieces, shape)
  BY LeafParts
<1> DEFINE there == leaf.there
<1> PICK vals, dims, e, sizes : vals = FlattenSeq(pieces) /\ dims = leaf.sizes \o shape /\ e = LeafEntry(leaf)
                                /\ sizes = leaf.sizes
  OBVIOUS
<1>2. /\ there \in Seq(V) /\ sizes \in Seq(Nat) /\ shape \in Seq(Nat) /\ DOMAIN there \subseteq Nat \ {0}
      /\ DOMAIN there = 1..Len(there) /\ Len(there) \in Nat
      /\ pieces \in Seq(Seq(Number)) /\ DOMAIN pieces = DOMAIN there /\ Len(pieces) = Len(there)
      /\ \A i \in DOMAIN there : there[i] \in V /\ there[i].tag = "atomic" /\ pieces[i] = there[i].vals
  <2>1. /\ there \in Seq(V) /\ sizes \in Seq(Nat) /\ shape \in Seq(Nat)
        /\ pieces \in Seq(Seq(Number)) /\ DOMAIN pieces = DOMAIN there /\ Len(pieces) = Len(there)
        /\ \A i \in DOMAIN there : there[i] \in V /\ there[i].tag = "atomic" /\ pieces[i] = there[i].vals
    BY <1>1 DEF IsLeaf
  <2>2. DOMAIN there = 1..Len(there) /\ Len(there) \in Nat /\ DOMAIN there \subseteq Nat \ {0}
    BY <2>1
  <2> QED BY <2>1, <2>2
<1>3. e = (IF leaf.decl.kind = "complex" THEN StoreComplex(vals, dims, Len(sizes)) ELSE StoreNumeric(vals, dims))
      /\ e # Stop
  BY <1>1 DEF IsLeaf
<1>4. PICK i, k : i \in DOMAIN there /\ Stands(v, decl, path, k, there[i], SlotPosition(leaf, i))
  BY DEF Sits
<1>5. PICK w, m, l : w = there[i] /\ m = Size(shape) /\ l = Last(path)
  OBVIOUS
<1>6. /\ k = Len(path) - 1 /\ l \in Nat /\ l \in DOMAIN w.vals /\ w.vals[l] = x
      /\ Reach(v, path)[k] = w /\ Route(v, decl, path)[k] = SlotPosition(leaf, i)
  <2>1. w.tag = "atomic" /\ Stands(v, decl, path, k, w, SlotPosition(leaf, i))
    BY <1>2, <1>4, <1>5
  <2>2. k = Len(path) - 1 /\ Last(path) \in Nat /\ Last(path) \in DOMAIN w.vals /\ w.vals[Last(path)] = x
    BY <2>1, StandsLast
  <2>3. Reach(v, path)[k] = w /\ Route(v, decl, path)[k] = SlotPosition(leaf, i)
    BY <2>1 DEF Stands
  <2> QED BY <1>5, <2>2, <2>3
<1>7. \A j \in DOMAIN pieces : Len(pieces[j]) = m
  BY <1>1, <1>5 DEF IsLeaf
<1>8. /\ m \in Nat /\ Len(w.vals) = m /\ pieces[i] = w.vals /\ l \in 1..m /\ m \in Nat \ {0}
      /\ i \in DOMAIN pieces /\ i \in Nat \ {0} /\ i \in 1..Len(there)
  <2>1. m \in Nat
    BY <1>2, <1>5, SizeNat
  <2>2. pieces[i] = w.vals /\ Len(w.vals) = m /\ i \in DOMAIN pieces /\ i \in Nat \ {0} /\ i \in 1..Len(there)
    BY <1>2, <1>4, <1>5, <1>7
  <2>3. w.vals \in Seq(Number)
    BY <1>2, <2>2
  <2>4. l \in 1..m
    BY <1>6, <2>2, <2>3
  <2> QED BY <2>1, <2>2, <2>4
<1>9. (i - 1) * m + l \in DOMAIN vals /\ vals[(i - 1) * m + l] = x
  <2>1. pieces \in Seq(Seq(Number)) /\ m \in Nat /\ i \in DOMAIN pieces /\ l \in 1..m
    BY <1>2, <1>8
  <2>2. /\ (i - 1) * m + l \in DOMAIN FlattenSeq(pieces)
        /\ FlattenSeq(pieces)[(i - 1) * m + l] = pieces[i][l]
    BY <1>7, <2>1, FlattenIndex
  <2> QED BY <1>6, <1>8, <2>2
<1>10. vals \in Seq(Number) /\ Len(vals) = Len(there) * m
  <2>1. FlattenSeq(pieces) \in Seq(Number)
    BY <1>2, FlattenRange
  <2>2. Len(FlattenSeq(pieces)) = Len(pieces) * m
    BY <1>2, <1>7, <1>8, FlattenLen
  <2> QED BY <1>2, <2>1, <2>2
<1>11. SlotPosition(leaf, i).block = i - 1 /\ SlotPosition(leaf, i).sizes = sizes
       /\ SlotPosition(leaf, i).slots = leaf.name.slots
  BY DEF SlotPosition, Position
<1>12. dims \in Seq(Nat) /\ Len(sizes) \in Nat /\ ~(Len(sizes) > Len(dims)) /\ SubSeq(dims, 1, Len(sizes)) = sizes
  <2>1. sizes \o shape \in Seq(Nat) /\ Len(sizes \o shape) = Len(sizes) + Len(shape)
        /\ Len(sizes) \in Nat /\ Len(shape) \in Nat
    BY <1>2, ConcatProperties
  <2>2. SubSeq(sizes \o shape, 1, Len(sizes)) = sizes
    BY <1>2, SubSeqConcat
  <2>3. ~(Len(sizes) > Len(sizes \o shape))
    BY <2>1
  <2> QED BY <2>1, <2>2, <2>3
<1>13. ASSUME NEW width, width = m * (IF e.kind = "complexes" THEN 2 ELSE 1),
              SubSeq(e.dims, 1, Len(sizes)) = sizes,
              (i - 1) * width + l \in DOMAIN e.vals, e.vals[(i - 1) * width + l] = x
       PROVE  HoldsAt(e, leaf.name.slots, v, decl, path, x)
  <2>1. Len(Reach(v, path)[Len(path) - 1].vals) = m
    BY <1>6, <1>8
  <2>2. Route(v, decl, path)[Len(path) - 1] = SlotPosition(leaf, i)
    BY <1>6
  <2> QED BY <1>5, <1>11, <1>13, <2>1, <2>2 DEF HoldsAt
<1>14. CASE leaf.decl.kind = "complex"
  <2>1. e = StoreComplex(vals, dims, Len(sizes)) /\ e # Stop
    BY <1>3, <1>14
  <2>2. Size(SubSeq(dims, 1, Len(sizes))) = Len(there)
    BY <1>12 DEF Filling
  <2>3. /\ e.kind = "complexes" /\ e.dims = dims \o <<2>>
        /\ (i - 1) * (2 * m) + l \in DOMAIN e.vals
        /\ e.vals[(i - 1) * (2 * m) + l] = vals[(i - 1) * m + l]
    <3>1. PICK blocks, enclosing : blocks = Len(there) /\ enclosing = Len(sizes)
      OBVIOUS
    <3>2. InBlocks(vals, blocks, m, dims, enclosing)
      BY <1>2, <1>8, <1>10, <1>12, <2>2, <3>1 DEF InBlocks
    <3>5. i \in 1..blocks /\ l \in 1..m
      BY <1>8, <3>1
    <3>3. StoreComplex(vals, dims, enclosing) # Stop /\ e = StoreComplex(vals, dims, enclosing)
      BY <2>1, <3>1
    <3>4. InWindow(StoreComplex(vals, dims, enclosing), vals, m, dims, i, l)
      <4>1. StoreComplex(vals, dims, enclosing) # Stop
        BY <3>3
      <4> QED BY <3>2, <3>5, <4>1, WindowPlace
    <3> QED BY <3>3, <3>4 DEF InWindow
  <2>4. SubSeq(e.dims, 1, Len(sizes)) = sizes
    <3>1. SubSeq((sizes \o shape) \o <<2>>, 1, Len(sizes)) = sizes
      BY <1>2, SubSeqComplex
    <3> QED BY <2>3, <3>1
  <2>5. 2 * m = m * 2
    BY <1>8
  <2> QED BY <1>9, <1>13, <2>3, <2>4, <2>5
<1>15. CASE leaf.decl.kind # "complex"
  <2>1. e = StoreNumeric(vals, dims) /\ e # Stop
    BY <1>3, <1>15
  <2>2. e.kind # "complexes" /\ e.vals = vals /\ e.dims = dims
    <3>1. StoreNumeric(vals, dims) # Stop
      BY <2>1
    <3>2. LET f == StoreNumeric(vals, dims) IN f.kind # "complexes" /\ f.vals = vals /\ f.dims = dims
      BY <1>10, <3>1, StoreNumericKeeps
    <3> QED BY <2>1, <3>2
  <2>3. m = m * 1
    BY <1>8
  <2> QED BY <1>9, <1>12, <1>13, <2>2, <2>3
<1> QED BY <1>14, <1>15
-----------------------------------------------------------------------------
(* Numbers in their places.                                                *)

\* The numbers of a list are labelled with paths.
LEMMA PathsLead ==
  ASSUME TypeInv, NEW i \in DOMAIN input, input[i].value.tag = "list", NEW x \in Numbers(input[i].value)
  PROVE  x.at \in Seq(Nat) /\ Leads(x.at, input[i].value, x)
<1>1. input \in Inputs
  BY DEF TypeInv
<1>2. Leads(x.at, input[i].value, x)
  BY <1>1, PathAssumption
<1>3. PICK w : w \in Values(i) /\ x \in Own(w)
  BY Zenon DEF Numbers, Values
<1>4. w \in Atomic \cup Frame \cup List(Values(i))
  BY <1>3, ValuesClosed, Zenon DEF Closed
<1>5. \A vals \in Seq(Number) : x \in ToSet(vals) => x \in Number
  BY DEF ToSet
<1>6. x \in Number
  <2>1. CASE w \in Atomic
    <3>1. w.vals \in Seq(Number) /\ x \in ToSet(w.vals)
      BY <1>3, <2>1 DEF Atomic, Own
    <3> QED BY <1>5, <3>1
  <2>2. CASE w \in Frame
    <3>1. w.cols \in Seq(Atomic) /\ w.tag = "frame"
      BY <2>2 DEF Frame
    <3>2. PICK c : c \in DOMAIN w.cols /\ x \in ToSet(w.cols[c].vals)
      BY <1>3, <3>1 DEF Own
    <3>3. w.cols[c] \in Atomic
      BY <3>1, <3>2
    <3>4. w.cols[c].vals \in Seq(Number)
      BY <3>3 DEF Atomic
    <3> QED BY <1>5, <3>2, <3>4
  <2>3. CASE w \in List(Values(i))
    BY <1>3, <2>3 DEF List, Own
  <2> QED BY <1>4, <2>1, <2>2, <2>3
<1> QED BY <1>2, <1>6 DEF Number

\* A number is at its place in the entry of its slot, ...
LEMMA HoldsInPlace ==
  ASSUME NEW name \in Names, NEW n \in Names, n.base = name.base, NEW entry, NEW v, NEW x,
         n \in DOMAIN values_', values_'[n] = entry, HoldsAt(entry, n.slots, v, Decls[name], x.at, x)
  PROVE  InPlace(name, v, x)'
<1>1. PICK place, payload :
        place = Route(v, Decls[name], x.at)[Len(x.at) - 1] /\ payload = Reach(v, x.at)[Len(x.at) - 1]
  OBVIOUS
<1>2. PICK index : index = place.block * (Len(payload.vals) * (IF entry.kind = "complexes" THEN 2 ELSE 1)) + Last(x.at)
  OBVIOUS
<1>3. /\ place.slots = n.slots
      /\ SubSeq(entry.dims, 1, Len(place.sizes)) = place.sizes
      /\ index \in DOMAIN entry.vals /\ entry.vals[index] = x
  BY <1>1, <1>2 DEF HoldsAt
<1>4. [name EXCEPT !.slots = place.slots] = n
  BY <1>3 DEF Names
<1> QED BY <1>1, <1>2, <1>3, <1>4 DEF InPlace

\* ... and stays there.
LEMMA StaysInPlace ==
  ASSUME \A n \in DOMAIN values_ : n \in DOMAIN values_' /\ values_'[n] = values_[n],
         NEW name, NEW v, NEW x, InPlace(name, v, x)
  PROVE  InPlace(name, v, x)'
<1>1. PICK place, payload :
        /\ place = Route(v, Decls[name], x.at)[Len(x.at) - 1]
        /\ payload = Reach(v, x.at)[Len(x.at) - 1]
  OBVIOUS
<1>2. PICK leaf : leaf = [name EXCEPT !.slots = place.slots]
  OBVIOUS
<1>3. leaf \in DOMAIN values_
  BY <1>1, <1>2 DEF InPlace
<1>4. leaf \in DOMAIN values_' /\ values_'[leaf] = values_[leaf]
  BY <1>3
<1> QED BY <1>1, <1>2, <1>4 DEF InPlace

\* A number of a list is at its place or on its way there.
Placed(i, x) == \E name, v : name = input[i].name /\ v = input[i].value /\ InPlace(name, v, x)

Waits(i, x) ==
  i = at /\ \E slot \in ToSet(pending) : Sits(input[i].value, Decls[input[i].name], x.at, slot)

PlacesInv ==
  status \in {"adding", "built"} /\ NoEmptyPayload =>
    \A i \in 1..at : input[i].value.tag = "list" =>
      \A x \in Numbers(input[i].value) : Placed(i, x) \/ Waits(i, x)

\* A list that is taken up is at the start.
LEMMA StartSits ==
  ASSUME NEW v, NEW name \in DOMAIN Decls,
         NEW path \in Seq(Nat), NEW x, Leads(path, v, x)
  PROVE  Sits(v, Decls[name], path, Slot(name, <<v>>, <<>>, Decls[name]))
<1>1. PICK slot : slot = Slot(name, <<v>>, <<>>, Decls[name])
  OBVIOUS
<1>2. slot.name = name /\ slot.there = <<v>> /\ slot.sizes = <<>> /\ slot.decl = Decls[name]
  BY <1>1 DEF Slot
<1>3. name.slots = <<>>
  BY DataAssumption DEF Dotted
<1>4. SlotPosition(slot, 1) = Start(Decls[name])
  <2>1. 1 - 1 = 0
    OBVIOUS
  <2> QED BY <1>2, <1>3, <2>1 DEF SlotPosition, Start
<1>5. 1 \in DOMAIN slot.there /\ slot.there[1] = v
  BY <1>2
<1>6. Stands(v, Decls[name], path, 0, v, Start(Decls[name]))
  BY StandsFirst
<1>7. Sits(v, Decls[name], path, slot)
  BY <1>4, <1>5, <1>6 DEF Sits
<1> QED BY <1>1, <1>7
\* Every step takes the numbers on their way further, or to their place.
LEMMA PlacesNext == ASSUME TypeInv, NamesInv, LengthsInv, PlacesInv, [Next]_vars PROVE PlacesInv'
<1>0. at \in 0..Len(input) /\ Len(input) \in Nat /\ DOMAIN input = 1..Len(input) /\ at \in Nat
  BY InputLen DEF TypeInv
<1>1. ASSUME input' = input PROVE NoEmptyPayload' <=> NoEmptyPayload
  BY <1>1, Zenon DEF NoEmptyPayload
<1>2. ASSUME input' = input, \A n \in DOMAIN values_ : n \in DOMAIN values_' /\ values_'[n] = values_[n],
             NEW i, NEW x, Placed(i, x)
      PROVE  Placed(i, x)'
  <2>1. PICK name, v : name = input[i].name /\ v = input[i].value /\ InPlace(name, v, x)
    BY <1>2 DEF Placed
  <2>2. InPlace(name, v, x)'
    BY <1>2, <2>1, StaysInPlace
  <2>3. name = input'[i].name /\ v = input'[i].value
    BY <1>2, <2>1
  <2> QED BY <2>2, <2>3 DEF Placed
<1>3. CASE Throw
  BY <1>3 DEF Throw, PlacesInv
<1>4. ASSUME status \in {"adding", "built"}, input' = input, at' = at,
             \A n \in DOMAIN values_ : n \in DOMAIN values_' /\ values_'[n] = values_[n],
             \A x \in Numbers(input[at].value) :
               /\ NoEmptyPayload /\ at \in DOMAIN input /\ input[at].value.tag = "list"
               /\ \E slot \in ToSet(pending) : Sits(input[at].value, Decls[input[at].name], x.at, slot)
               => \E i : i = at /\ (Placed(i, x)' \/ Waits(i, x)')
      PROVE  PlacesInv'
  <2> SUFFICES ASSUME NoEmptyPayload, NEW i \in 1..at, input[i].value.tag = "list",
                      NEW x \in Numbers(input[i].value)
               PROVE  Placed(i, x)' \/ Waits(i, x)'
    BY <1>1, <1>4 DEF PlacesInv
  <2>1. Placed(i, x) \/ Waits(i, x)
    BY <1>4 DEF PlacesInv
  <2>2. CASE Placed(i, x)
    BY <1>2, <1>4, <2>2
  <2>3. CASE Waits(i, x)
    <3>1. i = at /\ i \in DOMAIN input
      BY <1>0, <2>3 DEF Waits
    <3>2. \E slot \in ToSet(pending) : Sits(input[at].value, Decls[input[at].name], x.at, slot)
      BY <2>3 DEF Waits
    <3> QED BY <1>4, <3>1, <3>2
  <2> QED BY <2>1, <2>2, <2>3
<1>5. CASE UNCHANGED <<input, at, pending, values_>> /\ status \in {"adding", "built"}
  <2>1. ASSUME NEW x, \E slot \in ToSet(pending) : Sits(input[at].value, Decls[input[at].name], x.at, slot)
        PROVE  \E i : i = at /\ Waits(i, x)'
    BY <1>5, <2>1 DEF Waits
  <2> QED BY <1>4, <1>5, <2>1
<1>6. CASE CheckNames
  <2>1. at' = 0
    BY <1>6 DEF CheckNames, TypeInv
  <2>2. \A i \in 1..at' : FALSE
    BY <2>1
  <2> QED BY <2>2 DEF PlacesInv
<1>7. ASSUME More, input' = input, at' = at + 1,
             \A n \in DOMAIN values_ : n \in DOMAIN values_' /\ values_'[n] = values_[n],
             NEW j, j = at + 1,
             input[j].value.tag = "list" => \A x \in Numbers(input[j].value) : Waits(j, x)'
      PROVE  PlacesInv'
  <2> SUFFICES ASSUME NoEmptyPayload, NEW i \in 1..j, input[i].value.tag = "list",
                      NEW x \in Numbers(input[i].value)
               PROVE  Placed(i, x)' \/ Waits(i, x)'
    BY <1>1, <1>7 DEF PlacesInv
  <2>1. CASE i = j
    BY <1>7, <2>1
  <2>2. CASE i # j
    <3>1. i \in 1..at
      BY <1>0, <1>7, <2>2
    <3>2. status = "adding" /\ ToSet(pending) = {}
      BY <1>7 DEF More, ToSet
    <3>3. Placed(i, x)
      BY <3>1, <3>2 DEF PlacesInv, Waits
    <3> QED BY <1>2, <1>7, <3>3
  <2> QED BY <2>1, <2>2
<1>8. CASE AddPlain
  <2>1. More /\ Element.value.tag # "list" /\ Element = input[at + 1]
    BY <1>8 DEF AddPlain, Element
  <2>2. ASSUME NEW entry, Emplace(Element.name, entry), at' = at + 1
        PROVE  PlacesInv'
    <3>1. input' = input /\ \A n \in DOMAIN values_ : n \in DOMAIN values_' /\ values_'[n] = values_[n]
      BY <2>2, Emplaced
    <3> QED BY <1>7, <2>1, <2>2, <3>1
  <2> QED BY <1>3, <1>8, <2>2, PlainStep
<1>9. CASE AddTuple
  <2>1. PICK j : j = at + 1
    OBVIOUS
  <2>2. PICK name, v : name = input[j].name /\ v = input[j].value
    OBVIOUS
  <2>3. /\ More /\ v.tag = "list" /\ name \in DOMAIN Decls /\ Element = input[j] /\ j \in DOMAIN input
        /\ pending' = <<Slot(name, <<v>>, <<>>, Decls[name])>> /\ at' = j /\ input' = input /\ values_' = values_
    BY <1>9, <2>1, <2>2, ElementFacts DEF AddTuple, Element
  <2>4. ASSUME NEW x \in Numbers(v) PROVE Waits(j, x)'
    <3>1. x.at \in Seq(Nat) /\ Leads(x.at, v, x)
      BY <2>2, <2>3, PathsLead
    <3>2. Sits(v, Decls[name], x.at, Slot(name, <<v>>, <<>>, Decls[name]))
      BY <2>3, <3>1, StartSits
    <3>3. ToSet(pending') = {Slot(name, <<v>>, <<>>, Decls[name])}
      BY <2>3 DEF ToSet
    <3>4. input'[j].name = name /\ input'[j].value = v
      BY <2>2, <2>3
    <3> QED BY <2>3, <3>2, <3>3, <3>4 DEF Waits
  <2> QED BY <1>7, <2>1, <2>2, <2>3, <2>4
<1>10. CASE FlattenLeaf
  <2>1. /\ status = "adding" /\ pending # <<>> /\ ToSet(pending) = {Head(pending)} \cup ToSet(Tail(pending))
        /\ at \in DOMAIN input /\ Closed(Values(at)) /\ Head(pending) \in SlotType(Values(at))
        /\ Head(pending).decl.kind # "tuple"
    BY <1>10, PendingSlots DEF FlattenLeaf, Flattening
  <2>2. PICK leaf, entry, name, v, j, V :
          /\ leaf = Head(pending) /\ entry = LeafEntry(leaf) /\ j = at /\ V = Values(at)
          /\ name = input[j].name /\ v = input[j].value
    OBVIOUS
  <2>3. IF entry = Stop THEN Throw ELSE Emplace(leaf.name, entry) /\ pending' = Tail(pending) /\ UNCHANGED at
    BY <1>10, <2>2, Zenon DEF FlattenLeaf
  <2>4. v.tag = "list" /\ leaf.name.base = name.base /\ Filling(leaf)
    BY <2>1, <2>2 DEF NamesInv, LengthsInv
  <2>5. /\ name \in Names /\ leaf.name \in Names /\ Closed(V) /\ leaf \in SlotType(V)
        /\ j \in DOMAIN input
    BY <2>1, <2>2, InputNames DEF SlotType
  <2>6. ASSUME entry # Stop PROVE PlacesInv'
    <3>1. Emplace(leaf.name, entry) /\ pending' = Tail(pending) /\ at' = j /\ LeafEntry(leaf) # Stop
      BY <2>2, <2>3, <2>6
    <3>2. leaf.name \notin DOMAIN values_
      BY <3>1 DEF LeafEntry, Taken
    <3>3. /\ input' = input /\ \A n \in DOMAIN values_ : n \in DOMAIN values_' /\ values_'[n] = values_[n]
          /\ leaf.name \in DOMAIN values_' /\ values_'[leaf.name] = entry
      BY <3>1, <3>2, Emplaced
    <3>4. ASSUME NEW x \in Numbers(v), NoEmptyPayload, NEW slot \in ToSet(pending), Sits(v, Decls[name], x.at, slot)
          PROVE  Placed(j, x)' \/ Waits(j, x)'
      <4>1. x.at \in Seq(Nat) /\ Leads(x.at, v, x)
        BY <2>2, <2>4, <2>5, <3>4, PathsLead
      <4>2. CASE slot \in ToSet(Tail(pending))
        <5>1. slot \in ToSet(pending') /\ input'[j].value = v /\ input'[j].name = name /\ j = at'
          BY <2>2, <3>1, <3>3, <4>2
        <5> QED BY <3>4, <5>1 DEF Waits
      <4>3. CASE slot = leaf
        <5>1. \A w \in V : w.tag = "atomic" => w.vals # <<>>
          BY <2>2, <2>4, <2>5, <3>4, NotEmpty
        <5>2. HoldsAt(entry, leaf.name.slots, v, Decls[name], x.at, x)
          <6>1. Sits(v, Decls[name], x.at, leaf)
            BY <3>4, <4>3
          <6>2. HoldsAt(LeafEntry(leaf), leaf.name.slots, v, Decls[name], x.at, x)
            BY <2>4, <2>5, <3>1, <4>1, <5>1, <6>1, LeafPlaces
          <6> QED BY <2>2, <6>2
        <5>3. InPlace(name, v, x)'
          BY <2>4, <2>5, <3>3, <5>2, HoldsInPlace
        <5>4. name = input'[j].name /\ v = input'[j].value
          BY <2>2, <3>3
        <5> QED BY <5>3, <5>4 DEF Placed
      <4> QED BY <2>1, <2>2, <3>4, <4>2, <4>3
    <3> QED BY <1>4, <2>1, <2>2, <3>1, <3>3, <3>4
  <2> QED BY <1>3, <2>3, <2>6
<1>11. CASE FlattenTuple
  <2>1. /\ status = "adding" /\ pending # <<>> /\ ToSet(pending) = {Head(pending)} \cup ToSet(Tail(pending))
        /\ at \in DOMAIN input /\ Closed(Values(at)) /\ Head(pending) \in SlotType(Values(at))
    BY <1>11, PendingSlots DEF FlattenTuple, Flattening
  <2>2. PICK slot, name, v, j :
          slot = Head(pending) /\ j = at /\ name = input[j].name /\ v = input[j].value
    OBVIOUS
  <2>3. v.tag = "list" /\ j \in DOMAIN input
    BY <2>1, <2>2 DEF NamesInv
  <2>4. ASSUME NEW arrays, NEW inner, NEW elements, NEW slots,
               Unpacks(slot, arrays, inner, elements, slots), pending' = slots \o Tail(pending),
               UNCHANGED <<input, at, reserved_names_, values_, status>>
        PROVE  PlacesInv'
    <3>1. PICK V : V = Values(at)
      OBVIOUS
    <3>2. Closed(V) /\ slot \in SlotType(V)
      BY <2>1, <2>2, <3>1
    <3>3. slots \in Seq(SlotType(V))
      BY <2>4, <3>2, Unpacked
    <3>4. ToSet(pending') = ToSet(slots) \cup ToSet(Tail(pending))
      <4>1. ToSet(slots \o Tail(pending)) = ToSet(slots) \cup ToSet(Tail(pending))
        BY <2>1, <3>1, <3>3, NewSlots
      <4> QED BY <2>4, <4>1
    <3>5. ASSUME NEW x \in Numbers(v), NEW s \in ToSet(pending), Sits(v, Decls[name], x.at, s)
          PROVE  Waits(j, x)'
      <4>1. \E t \in ToSet(pending') : Sits(v, Decls[name], x.at, t)
        <5>1. CASE s = slot
          <6>1. x.at \in Seq(Nat) /\ Leads(x.at, v, x)
            BY <2>2, <2>3, PathsLead
          <6>2. Sits(v, Decls[name], x.at, slot)
            BY <3>5, <5>1
          <6>3. \E t \in DOMAIN slots : Sits(v, Decls[name], x.at, slots[t])
            BY <2>4, <3>2, <6>1, <6>2, TuplePlaces
          <6> QED BY <3>4, <6>3 DEF ToSet
        <5>2. CASE s \in ToSet(Tail(pending))
          BY <3>4, <3>5, <5>2
        <5> QED BY <2>1, <2>2, <5>1, <5>2
      <4>2. input'[j].value = v /\ input'[j].name = name /\ j = at'
        BY <2>2, <2>4
      <4> QED BY <4>1, <4>2 DEF Waits
    <3>6. \A n \in DOMAIN values_ : n \in DOMAIN values_' /\ values_'[n] = values_[n]
      BY <2>4
    <3> QED BY <1>4, <2>1, <2>2, <2>4, <3>5, <3>6
  <2> QED BY <1>3, <1>11, <2>2, <2>4, UnpackStep
<1>12. CASE NamesThrow \/ ListThrows
  BY <1>3, <1>12 DEF NamesThrow, ListThrows
<1>13. CASE Finish
  BY <1>5, <1>13 DEF Finish
<1>14. CASE UNCHANGED vars
  <2>1. status' = status /\ UNCHANGED <<input, at, pending, values_>>
    BY <1>14 DEF vars
  <2>2. CASE status \in {"adding", "built"}
    BY <1>5, <2>1, <2>2
  <2>3. CASE status \notin {"adding", "built"}
    BY <2>1, <2>3 DEF PlacesInv
  <2> QED BY <2>2, <2>3
<1> QED BY <1>6, <1>8, <1>9, <1>10, <1>11, <1>12, <1>13, <1>14 DEF Next

\* Once a list is built, without an empty payload in a tuple, every number of a
\* list for a tuple is where the generated code will look for it: in the entry of
\* its slot, after those of the elements before it in all enclosing arrays, each of
\* which flatten_recurse() visits column-major and one inside the other, and in the
\* filled half of its window where it is complex.
THEOREM PlacesTheorem == Spec => []NumbersInPlace
<1>1. Init => DataInv /\ PlacesInv
  <2> SUFFICES ASSUME Init PROVE PlacesInv
    BY DataInit
  <2>1. at = 0
    BY DEF Init
  <2>2. \A i \in 1..at : FALSE
    BY <2>1
  <2> QED BY <2>2 DEF PlacesInv
<1>2. DataInv /\ PlacesInv /\ [Next]_vars => DataInv' /\ PlacesInv'
  BY DataNext, PlacesNext DEF DataInv
<1>3. DataInv /\ PlacesInv => NumbersInPlace
  <2> SUFFICES ASSUME DataInv, PlacesInv, Built, NoEmptyPayload, NEW i \in DOMAIN input,
                      input[i].value.tag = "list", NEW x \in Numbers(input[i].value)
               PROVE  InPlace(input[i].name, input[i].value, x)
    BY DEF NumbersInPlace
  <2>1. pending = <<>> /\ status = "built" /\ i \in 1..at
    BY InputLen DEF DataInv, Built, TypeInv
  <2>2. ToSet(pending) = {}
    BY <2>1 DEF ToSet
  <2>3. Placed(i, x)
    BY <2>1, <2>2 DEF PlacesInv, Waits
  <2> QED BY <2>3 DEF Placed
<1> QED BY <1>1, <1>2, <1>3, PTL DEF Spec
-----------------------------------------------------------------------------
(* Accepted values.                                                        *)

\* A slot has values, and they are what is declared there.
RegularSlot(slot) == slot.there # <<>> /\ RegularColumn(Column(ToSet(slot.there), slot.decl))

\* Names part at some slot.
Apart(p, q) == \E k \in DOMAIN p \cap DOMAIN q : p[k] # q[k]

\* No name yet to be stored is, or begins, one that is stored or another of these.
ApartNames(slots, stored) ==
  /\ \A i, j \in DOMAIN slots : i # j => Apart(slots[i].name.slots, slots[j].name.slots)
  /\ \A i \in DOMAIN slots : \A n \in stored : Apart(n.slots, slots[i].name.slots)

Single == Len(input) = 1 /\ input[1].value.tag = "list" /\ input[1].name \in DOMAIN Decls /\ NoEmptyPayload

RegularInput == Regular(input[1].name, input[1].value)

\* A list that is being flattened is regular as long as all pending slots are.
Accepting(p, stored) ==
  /\ ApartNames(p, stored)
  /\ RegularInput <=> \A slot \in ToSet(p) : RegularSlot(slot)

\* Nothing but an irregular value stops it.
AcceptInv ==
  Single =>
    /\ status = "adding" /\ at = 1 => Accepting(pending, DOMAIN values_)
    /\ status = "built" => RegularInput
    /\ status = "stopped" => ~RegularInput

Within(set) == UNION {Parts(c) : c \in set}

\* The columns k places further in satisfy their recursive equation.
LEMMA ColumnLevelsFunction ==
  ASSUME NEW v
  PROVE  /\ ColumnLevels(v)[0] = {v}
         /\ \A k \in 1..Nesting : ColumnLevels(v)[k] = Within(ColumnLevels(v)[k - 1])
<1> DEFINE level[k \in 0..Nesting] == IF k = 0 THEN {v} ELSE UNION {Parts(w) : w \in level[k - 1]}
           Good(m, g) == g = [k \in 0..m |-> IF k = 0 THEN {v} ELSE UNION {Parts(w) : w \in g[k - 1]}]
           S == {m \in Nat : \E g : Good(m, g)}
<1>1. Nesting \in Nat
  BY DataAssumption
<1>2. 0 \in S
  <2>1. Good(0, [k \in 0..0 |-> {v}])
    OBVIOUS
  <2> QED BY <2>1
<1>3. ASSUME NEW m \in Nat, m \in S PROVE m + 1 \in S
  <2>1. PICK g : Good(m, g)
    BY <1>3
  <2>2. PICK x : x = UNION {Parts(w) : w \in g[m]}
    OBVIOUS
  <2> DEFINE h == [k \in 0..m + 1 |-> IF k = m + 1 THEN x ELSE g[k]]
  <2>3. h[m + 1] = x /\ \A k \in 0..m : h[k] = g[k]
    OBVIOUS
  <2>4. \A k \in 0..m : g[k] = IF k = 0 THEN {v} ELSE UNION {Parts(w) : w \in g[k - 1]}
    BY <2>1, Zenon
  <2>5. ASSUME NEW k \in 0..m + 1
        PROVE  (IF k = m + 1 THEN x ELSE g[k]) = IF k = 0 THEN {v} ELSE UNION {Parts(w) : w \in h[k - 1]}
    <3> HIDE DEF h
    <3>1. CASE k = m + 1
      <4>1. k # 0 /\ h[k - 1] = g[m]
        BY <2>3, <3>1
      <4> QED BY <2>2, <3>1, <4>1, Zenon
    <3>2. CASE k = 0
      <4>1. k # m + 1 /\ k \in 0..m
        BY <3>2
      <4> QED BY <2>4, <3>2, <4>1, Zenon
    <3>3. CASE k \in 1..m
      <4>1. k # m + 1 /\ k # 0 /\ k \in 0..m /\ h[k - 1] = g[k - 1]
        BY <2>3, <3>3
      <4> QED BY <2>4, <4>1, Zenon
    <3> QED BY <3>1, <3>2, <3>3
  <2>6. Good(m + 1, h)
    BY <2>5, Zenon
  <2> HIDE DEF h, Good
  <2> QED BY <2>6
<1>4. PICK f : Good(Nesting, f)
  <2>1. Nesting \in S
    <3> HIDE DEF S
    <3> QED BY <1>1, <1>2, <1>3, NatSet
  <2> QED BY <2>1
<1>5. level = [k \in 0..Nesting |-> IF k = 0 THEN {v} ELSE UNION {Parts(w) : w \in level[k - 1]}]
  BY <1>4, Zenon
<1>6. ColumnLevels(v) = level
  BY DEF ColumnLevels
<1> HIDE DEF level
<1>7. \A k \in 0..Nesting : level[k] = IF k = 0 THEN {v} ELSE Within(level[k - 1])
  BY <1>5, Zenon DEF Within
<1>8. 0 \in 0..Nesting /\ \A k \in 1..Nesting : k \in 0..Nesting /\ k # 0
  BY <1>1
<1> QED BY <1>6, <1>7, <1>8, Zenon

\* One place further in is one place further in for a column next to it.
LEMMA LevelsOfParts ==
  ASSUME NEW v, NEW k \in Nat, k + 1 \in 1..Nesting
  PROVE  ColumnLevels(v)[k + 1] = UNION {ColumnLevels(u)[k] : u \in Parts(v)}
<1> DEFINE S == {j \in Nat : j + 1 \in 1..Nesting =>
                   ColumnLevels(v)[j + 1] = UNION {ColumnLevels(u)[j] : u \in Parts(v)}}
<1>1. Nesting \in Nat
  BY DataAssumption
<1>2. 0 \in S
  <2> SUFFICES ASSUME 1 \in 1..Nesting PROVE ColumnLevels(v)[1] = UNION {ColumnLevels(u)[0] : u \in Parts(v)}
    OBVIOUS
  <2>1. ColumnLevels(v)[1] = Within(ColumnLevels(v)[0]) /\ ColumnLevels(v)[0] = {v}
    BY ColumnLevelsFunction
  <2>2. Within({v}) = Parts(v)
    BY Zenon DEF Within
  <2>3. \A u \in Parts(v) : ColumnLevels(u)[0] = {u}
    BY ColumnLevelsFunction
  <2>4. \A x : x \in UNION {ColumnLevels(u)[0] : u \in Parts(v)} <=> x \in Parts(v)
    <3> HIDE DEF S
    <3>1. \A x : x \in UNION {ColumnLevels(u)[0] : u \in Parts(v)} <=> \E u \in Parts(v) : x \in ColumnLevels(u)[0]
      OBVIOUS
    <3>2. \A x : (\E u \in Parts(v) : x \in ColumnLevels(u)[0]) <=> x \in Parts(v)
      BY <2>3
    <3> QED BY <3>1, <3>2, Zenon
  <2> QED BY <2>1, <2>2, <2>4
<1>3. ASSUME NEW j \in Nat, j \in S PROVE j + 1 \in S
  <2> SUFFICES ASSUME (j + 1) + 1 \in 1..Nesting
               PROVE  ColumnLevels(v)[(j + 1) + 1] = UNION {ColumnLevels(u)[j + 1] : u \in Parts(v)}
    OBVIOUS
  <2>1. j + 1 \in 1..Nesting /\ ((j + 1) + 1) - 1 = j + 1 /\ (j + 1) - 1 = j
    BY <1>1
  <2>2. ColumnLevels(v)[(j + 1) + 1] = Within(ColumnLevels(v)[j + 1])
    BY <2>1, ColumnLevelsFunction
  <2>3. \A u : ColumnLevels(u)[j + 1] = Within(ColumnLevels(u)[j])
    BY <2>1, ColumnLevelsFunction
  <2>4. ColumnLevels(v)[j + 1] = UNION {ColumnLevels(u)[j] : u \in Parts(v)}
    BY <1>3, <2>1
  <2>5. Within(UNION {ColumnLevels(u)[j] : u \in Parts(v)}) = UNION {Within(ColumnLevels(u)[j]) : u \in Parts(v)}
    <3>1. \A x : x \in Within(UNION {ColumnLevels(u)[j] : u \in Parts(v)})
                   <=> \E u \in Parts(v) : \E w \in ColumnLevels(u)[j] : x \in Parts(w)
      BY Zenon DEF Within
    <3>2. \A x : x \in UNION {Within(ColumnLevels(u)[j]) : u \in Parts(v)}
                   <=> \E u \in Parts(v) : \E w \in ColumnLevels(u)[j] : x \in Parts(w)
      <4>1. \A x : x \in UNION {Within(ColumnLevels(u)[j]) : u \in Parts(v)}
                     <=> \E u \in Parts(v) : x \in Within(ColumnLevels(u)[j])
        BY Zenon
      <4>2. \A x, u : x \in Within(ColumnLevels(u)[j]) <=> \E w \in ColumnLevels(u)[j] : x \in Parts(w)
        BY Zenon DEF Within
      <4> QED BY <4>1, <4>2, Zenon
    <3> QED BY <3>1, <3>2
  <2> QED BY <2>2, <2>3, <2>4, <2>5, Zenon
<1> HIDE DEF S
<1>4. k \in S
  BY <1>2, <1>3, NatSet
<1> QED BY <1>4 DEF S

\* All columns are the column and those of the columns next to it.
LEMMA AllColumnsOf ==
  ASSUME NEW v, \A w \in ColumnLevels(v)[Nesting] : Parts(w) = {}
  PROVE  /\ v \in AllColumns(v)
         /\ AllColumns(v) = {v} \cup UNION {AllColumns(u) : u \in Parts(v)}
<1>1. Nesting \in Nat /\ 0 \in 0..Nesting
  BY DataAssumption
<1>2. ColumnLevels(v)[0] = {v}
  BY ColumnLevelsFunction
<1>3. v \in AllColumns(v)
  BY <1>1, <1>2, Zenon DEF AllColumns
<1>4. ASSUME NEW x \in AllColumns(v), x # v PROVE \E u \in Parts(v) : x \in AllColumns(u)
  <2>1. PICK k \in 0..Nesting : x \in ColumnLevels(v)[k]
    BY Zenon DEF AllColumns
  <2>2. k # 0
    BY <1>2, <1>4, <2>1
  <2>3. k - 1 \in Nat /\ (k - 1) + 1 = k /\ k \in 1..Nesting /\ k - 1 \in 0..Nesting
    BY <1>1, <2>2
  <2>4. ColumnLevels(v)[k] = UNION {ColumnLevels(u)[k - 1] : u \in Parts(v)}
    BY <2>3, LevelsOfParts
  <2>5. PICK u \in Parts(v) : x \in ColumnLevels(u)[k - 1]
    BY <2>1, <2>4
  <2>6. x \in AllColumns(u)
    BY <2>3, <2>5, Zenon DEF AllColumns
  <2> QED BY <2>6
<1>5. ASSUME NEW u \in Parts(v), NEW x \in AllColumns(u) PROVE x \in AllColumns(v)
  <2>1. PICK k \in 0..Nesting : x \in ColumnLevels(u)[k]
    BY Zenon DEF AllColumns
  <2>2. CASE k + 1 \in 1..Nesting
    <3>1. k \in Nat /\ k + 1 \in 0..Nesting
      BY <1>1, <2>2
    <3>2. ColumnLevels(v)[k + 1] = UNION {ColumnLevels(w)[k] : w \in Parts(v)}
      BY <2>2, <3>1, LevelsOfParts
    <3>3. x \in ColumnLevels(v)[k + 1]
      BY <2>1, <3>2
    <3> QED BY <3>1, <3>3, Zenon DEF AllColumns
  <2>3. CASE k = Nesting /\ k = 0
    <3>1. v \in ColumnLevels(v)[Nesting]
      BY <1>2, <2>3
    <3> QED BY <3>1
  <2>4. CASE k = Nesting /\ k # 0
    <3>1. k \in 1..Nesting /\ k - 1 \in Nat /\ (k - 1) + 1 = k
      BY <1>1, <2>4
    <3>2. ColumnLevels(u)[k] = Within(ColumnLevels(u)[k - 1])
      BY <3>1, ColumnLevelsFunction
    <3>3. PICK w \in ColumnLevels(u)[k - 1] : x \in Parts(w)
      BY <2>1, <3>2, Zenon DEF Within
    <3>4. ColumnLevels(v)[k] = UNION {ColumnLevels(i)[k - 1] : i \in Parts(v)}
      BY <3>1, LevelsOfParts
    <3>5. w \in ColumnLevels(v)[Nesting]
      BY <2>4, <3>3, <3>4
    <3> QED BY <3>3, <3>5
  <2> QED BY <1>1, <2>2, <2>3, <2>4
<1> QED BY <1>3, <1>4, <1>5

\* A column of values from V has some.
Declarations == [kind : {"int", "real", "complex", "tuple"}, dims : Nat, slots : Seq(Types)]
IsColumn(c, V) ==
  /\ \E values, type : c = [values |-> values, type |-> type]
  /\ c.values \subseteq V /\ c.values # {} /\ c.type \in Declarations

\* Types are declarations.
LEMMA TypesDeclare == Types \subseteq Declarations
BY DataAssumption DEF Declarations

\* An element of an array of n dimensions has n - 1.
LEMMA ElementTypeOf ==
  ASSUME NEW type \in Declarations, IsArray(type)
  PROVE  ElementType(type) \in Declarations
<1>1. type.dims - 1 \in Nat
  BY DEF Declarations, IsArray
<1> QED BY <1>1 DEF Declarations, ElementType

\* The columns next to one are columns, of items of its values.
LEMMA PartsOfColumn ==
  ASSUME NEW V, Closed(V), NEW c, IsColumn(c, V), NEW b \in Parts(c)
  PROVE  /\ IsColumn(b, V)
         /\ \A w \in b.values : \E v \in c.values : w \in Items(v)
         /\ \E v \in c.values : Items(v) # {}
<1> DEFINE values == c.values
           type   == c.type
<1>1. /\ values \subseteq V /\ values # {} /\ type \in Declarations
      /\ type.slots \in Seq(Types)
  BY DEF IsColumn, Declarations
<1>2. Sound(c)
  BY DEF Parts
<1>3. CASE IsArray(type)
  <2>1. b = Column(UNION {Items(v) : v \in values}, ElementType(type))
    BY <1>2, <1>3, Zenon DEF Parts
  <2>2. \A v \in values : IsUnnamedList(v) /\ v.items # <<>>
    BY <1>2, <1>3, Zenon DEF Sound
  <2>3. \A v \in values : v.tag = "list" /\ v.items \in Seq(V) /\ v.items # <<>>
    BY <1>1, <2>2, ListItems
  <2>4. \A v \in values : Items(v) # {} /\ Items(v) \subseteq V
    <3> SUFFICES ASSUME NEW v \in values PROVE Items(v) # {} /\ Items(v) \subseteq V
      OBVIOUS
    <3>1. PICK q : q = v.items
      OBVIOUS
    <3>2. q \in Seq(V) /\ q # <<>> /\ Items(v) = ToSet(q)
      BY <2>3, <3>1 DEF Items
    <3>3. 1 \in DOMAIN q
      BY <3>2, EmptySeq
    <3> QED BY <3>2, <3>3, ToSetType DEF ToSet
  <2>5. ElementType(type) \in Declarations
    BY <1>1, <1>3, ElementTypeOf
  <2>6. PICK v \in values : TRUE
    BY <1>1
  <2> HIDE DEF values, type
  <2>7. b.values = UNION {Items(u) : u \in values} /\ b.type = ElementType(type)
        /\ b = [values |-> b.values, type |-> b.type]
    BY <2>1 DEF Column
  <2>8. b.values # {} /\ b.values \subseteq V
    BY <2>4, <2>6, <2>7
  <2>9. IsColumn(b, V)
    BY <2>5, <2>7, <2>8 DEF IsColumn
  <2>10. \A w \in b.values : \E u \in values : w \in Items(u)
    BY <2>7
  <2> QED BY <2>4, <2>6, <2>9, <2>10 DEF values
<1>4. CASE ~IsArray(type) /\ IsTuple(type)
  <2>1. PICK s \in DOMAIN type.slots : b = Column({v.items[s] : v \in values}, type.slots[s])
    BY <1>2, <1>4, Zenon DEF Parts
  <2>2. \A v \in values : IsUnnamedList(v) /\ Len(v.items) = Len(type.slots)
    BY <1>2, <1>4, Zenon DEF Sound
  <2>3. \A v \in values : v.tag = "list" /\ v.items \in Seq(V) /\ Len(v.items) = Len(type.slots)
    BY <1>1, <2>2, ListItems
  <2>4. \A v \in values : v.items[s] \in Items(v) /\ v.items[s] \in V
    <3> SUFFICES ASSUME NEW v \in values PROVE v.items[s] \in Items(v) /\ v.items[s] \in V
      OBVIOUS
    <3>1. PICK q, t : q = v.items /\ t = type.slots
      OBVIOUS
    <3>2. q \in Seq(V) /\ Len(q) = Len(t) /\ s \in DOMAIN t /\ t \in Seq(Types) /\ Items(v) = ToSet(q)
      BY <1>1, <2>1, <2>3, <3>1 DEF Items
    <3>3. s \in DOMAIN q /\ q[s] \in V
      BY <3>2
    <3> QED BY <3>1, <3>2, <3>3 DEF ToSet
  <2>5. type.slots[s] \in Declarations
    BY <1>1, <2>1, TypesDeclare
  <2>6. PICK v \in values : TRUE
    BY <1>1
  <2> HIDE DEF values, type
  <2>7. b.values = {u.items[s] : u \in values} /\ b.type = type.slots[s]
        /\ b = [values |-> b.values, type |-> b.type]
    BY <2>1 DEF Column
  <2>8. b.values # {} /\ b.values \subseteq V
    BY <2>4, <2>6, <2>7
  <2>9. IsColumn(b, V)
    BY <2>5, <2>7, <2>8 DEF IsColumn
  <2>10. \A w \in b.values : \E u \in values : w \in Items(u)
    BY <2>4, <2>7
  <2> QED BY <2>4, <2>6, <2>9, <2>10 DEF values
<1>5. CASE ~IsArray(type) /\ ~IsTuple(type)
  <2>1. Parts(c) = {}
    BY <1>5, Zenon DEF Parts
  <2> QED BY <2>1
<1> QED BY <1>3, <1>4, <1>5

\* As many places further in are values as deep in those of the column.
LEMMA ColumnDepth ==
  ASSUME NEW V, Closed(V), NEW c, IsColumn(c, V), NEW k \in 0..Nesting, NEW b \in ColumnLevels(c)[k]
  PROVE  IsColumn(b, V) /\ \A w \in b.values : \E v \in c.values : w \in Levels(v)[k]
<1> DEFINE Deep(j) == \A d \in ColumnLevels(c)[j] :
                        IsColumn(d, V) /\ \A w \in d.values : \E v \in c.values : w \in Levels(v)[j]
           S == {j \in Nat : j \in 0..Nesting => Deep(j)}
<1>1. Nesting \in Nat
  BY DataAssumption
<1>2. 0 \in S
  <2>1. ColumnLevels(c)[0] = {c} /\ \A v : Levels(v)[0] = {v}
    BY ColumnLevelsFunction, LevelsFunction
  <2> QED BY <2>1
<1>3. ASSUME NEW j \in Nat, j \in S PROVE j + 1 \in S
  <2> SUFFICES ASSUME j + 1 \in 0..Nesting, NEW d \in ColumnLevels(c)[j + 1]
               PROVE  IsColumn(d, V) /\ \A w \in d.values : \E v \in c.values : w \in Levels(v)[j + 1]
    OBVIOUS
  <2>1. j + 1 \in 1..Nesting /\ (j + 1) - 1 = j /\ j \in 0..Nesting
    BY <1>1
  <2>2. ColumnLevels(c)[j + 1] = Within(ColumnLevels(c)[j]) /\ \A v : Levels(v)[j + 1] = Below(Levels(v)[j])
    BY <2>1, ColumnLevelsFunction, LevelsFunction
  <2>3. PICK p \in ColumnLevels(c)[j] : d \in Parts(p)
    BY <2>2, Zenon DEF Within
  <2>4. IsColumn(p, V) /\ \A w \in p.values : \E v \in c.values : w \in Levels(v)[j]
    BY <1>3, <2>1
  <2>5. IsColumn(d, V) /\ \A w \in d.values : \E u \in p.values : w \in Items(u)
    BY <2>3, <2>4, PartsOfColumn
  <2>6. ASSUME NEW w \in d.values PROVE \E v \in c.values : w \in Levels(v)[j + 1]
    <3>1. PICK u \in p.values : w \in Items(u)
      BY <2>5
    <3>2. PICK v \in c.values : u \in Levels(v)[j]
      BY <2>4
    <3>3. w \in Below(Levels(v)[j])
      BY <3>1, <3>2, Zenon DEF Below
    <3> QED BY <2>2, <3>3
  <2> QED BY <2>5, <2>6
<1> HIDE DEF S
<1>4. k \in S
  BY <1>1, <1>2, <1>3, NatSet
<1> QED BY <1>4 DEF S

\* A column is regular when it is sound and the columns next to it are regular.
LEMMA RegularParts ==
  ASSUME NEW V, Closed(V), NEW c, IsColumn(c, V)
  PROVE  RegularColumn(c) <=> Sound(c) /\ \A b \in Parts(c) : RegularColumn(b)
<1>1. Nesting \in 0..Nesting
  BY DataAssumption
<1>2. ASSUME NEW d \in ColumnLevels(c)[Nesting] PROVE Parts(d) = {}
  <2> SUFFICES ASSUME NEW b \in Parts(d) PROVE FALSE
    OBVIOUS
  <2>1. IsColumn(d, V) /\ \A w \in d.values : \E v \in c.values : w \in Levels(v)[Nesting]
    BY <1>1, ColumnDepth
  <2>2. PICK w \in d.values : Items(w) # {}
    BY <2>1, PartsOfColumn
  <2>3. PICK v \in c.values : w \in Levels(v)[Nesting]
    BY <2>1
  <2>4. v \in V
    BY DEF IsColumn
  <2> QED BY <2>2, <2>3, <2>4, Zenon DEF Closed
<1>3. AllColumns(c) = {c} \cup UNION {AllColumns(b) : b \in Parts(c)}
  BY <1>2, AllColumnsOf
<1>4. (\A d \in AllColumns(c) : Sound(d)) <=> Sound(c) /\ \A b \in Parts(c) : \A d \in AllColumns(b) : Sound(d)
  BY <1>3
<1> QED BY <1>4, Zenon DEF RegularColumn

\* All values in the column are lists of n.
AllLists(values, n) == \A u \in values : IsUnnamedList(u) /\ Len(u.items) = n

\* One dimension more of an array is there exactly where its elements are lists of
\* one length, and its elements are their items.
LEMMA LevelOfLists ==
  ASSUME NEW V, Closed(V), NEW v, NEW a, ArrayOf(a, V, v), a.elements # <<>>
  PROVE  /\ ToSet(a.elements) # {} /\ ToSet(a.elements) \subseteq V
         /\ Level(a).regular <=> \E n \in Nat : AllLists(ToSet(a.elements), n)
         /\ \A n \in Nat : AllLists(ToSet(a.elements), n) =>
              /\ Level(a).sizes = Append(a.sizes, n)
              /\ ToSet(Level(a).elements) = UNION {Items(u) : u \in ToSet(a.elements)}
              /\ Level(a).elements = <<>> <=> n = 0
<1> DEFINE lists == a.elements
           m == Len(lists[1].items)
           b == Level(a)
<1>1. lists \in Seq(V) /\ lists # <<>> /\ Len(lists) \in Nat \ {0} /\ DOMAIN lists = 1..Len(lists)
      /\ 1 \in DOMAIN lists
  BY EmptySeq DEF ArrayOf
<1>2. ToSet(lists) # {} /\ ToSet(lists) \subseteq V /\ \A u : u \in ToSet(lists) <=> \E i \in DOMAIN lists : u = lists[i]
  BY <1>1, ToSetType DEF ToSet
<1>3. b = Deeper(a)
  BY DEF Level
<1> DEFINE Even == /\ \A i \in DOMAIN lists : IsUnnamedList(lists[i])
                   /\ \A i \in DOMAIN lists : Len(lists[i].items) = m
<1>4. ~Even => b = Ragged
  BY <1>3, Zenon DEF Deeper
<1>5. Even => b = [regular |-> TRUE, sizes |-> Append(a.sizes, m), elements |-> Interleaved(lists, m)]
  BY <1>3, Zenon DEF Deeper
<1>6. \A i \in DOMAIN lists : IsUnnamedList(lists[i]) => lists[i].tag = "list" /\ lists[i].items \in Seq(V)
  <2>1. \A i \in DOMAIN lists : lists[i] \in V
    BY <1>1
  <2> QED BY <2>1, ListItems
<1>7. Even => m \in Nat /\ AllLists(ToSet(lists), m)
  <2> SUFFICES ASSUME Even PROVE m \in Nat /\ AllLists(ToSet(lists), m)
    OBVIOUS
  <2>1. m \in Nat
    BY <1>1, <1>6
  <2>2. \A u \in ToSet(lists) : IsUnnamedList(u) /\ Len(u.items) = m
    BY <1>2
  <2> QED BY <2>1, <2>2 DEF AllLists
<1>8. ASSUME NEW n \in Nat, AllLists(ToSet(lists), n) PROVE Even /\ n = m
  <2>1. \A i \in DOMAIN lists : IsUnnamedList(lists[i]) /\ Len(lists[i].items) = n
    BY <1>2, <1>8 DEF AllLists
  <2> QED BY <1>1, <2>1
<1>9. ASSUME Even
      PROVE  /\ ToSet(Interleaved(lists, m)) = UNION {Items(u) : u \in ToSet(lists)}
             /\ Interleaved(lists, m) = <<>> <=> m = 0
  <2>1. m \in Nat
    BY <1>7, <1>9
  <2>2. ListsOf(lists, V, m)
    BY <1>1, <1>6, <1>9, <2>1 DEF ListsOf
  <2>3. \A i \in DOMAIN lists : Items(lists[i]) = ToSet(lists[i].items)
    BY <1>6, <1>9 DEF Items
  <2> HIDE DEF m
  <2>4. /\ Interleaved(lists, m) \in Seq(V) /\ Len(Interleaved(lists, m)) = Len(lists) * m
        /\ ToSet(Interleaved(lists, m)) = UNION {ToSet(lists[i].items) : i \in DOMAIN lists}
    BY <2>2, InterleavedItems
  <2>5. \A x : x \in UNION {ToSet(lists[i].items) : i \in DOMAIN lists}
                 <=> x \in UNION {Items(u) : u \in ToSet(lists)}
    <3>1. \A x : x \in UNION {ToSet(lists[i].items) : i \in DOMAIN lists}
                   <=> \E i \in DOMAIN lists : x \in Items(lists[i])
      BY <2>3
    <3>2. \A x : x \in UNION {Items(u) : u \in ToSet(lists)} <=> \E u \in ToSet(lists) : x \in Items(u)
      BY Zenon
    <3> QED BY <1>2, <3>1, <3>2, Zenon
  <2>6. ToSet(Interleaved(lists, m)) = UNION {Items(u) : u \in ToSet(lists)}
    BY <2>4, <2>5
  <2>7. Interleaved(lists, m) = <<>> <=> m = 0
    <3>1. PICK q, l : q = Interleaved(lists, m) /\ l = Len(lists)
      OBVIOUS
    <3>2. q \in Seq(V) /\ Len(q) = l * m /\ l \in Nat \ {0}
      BY <1>1, <2>4, <3>1
    <3>3. l * m = 0 <=> m = 0
      BY <2>1, <3>2, SMT
    <3>4. q = <<>> <=> Len(q) = 0
      BY <3>2, EmptySeq
    <3> QED BY <3>1, <3>2, <3>3, <3>4
  <2> QED BY <2>6, <2>7
<1> HIDE DEF Even
<1>10. b.regular <=> Even
  <2>1. ~Ragged.regular
    BY DEF Ragged
  <2> HIDE DEF b, m
  <2> QED BY <1>4, <1>5, <2>1
<1>11. ASSUME NEW n \in Nat, AllLists(ToSet(lists), n)
       PROVE  /\ b.sizes = Append(a.sizes, n)
              /\ ToSet(b.elements) = UNION {Items(u) : u \in ToSet(lists)}
              /\ b.elements = <<>> <=> n = 0
  <2>1. Even /\ n = m
    BY <1>8, <1>11
  <2> HIDE DEF b, m, lists
  <2>2. b.sizes = Append(a.sizes, m) /\ b.elements = Interleaved(lists, m)
    BY <1>5, <2>1
  <2> QED BY <1>9, <2>1, <2>2
<1> HIDE DEF b, m, lists
<1>12. b.regular <=> \E n \in Nat : AllLists(ToSet(lists), n)
  BY <1>7, <1>8, <1>10
<1> QED BY <1>2, <1>11, <1>12 DEF b, lists

\* Arrays that are alike so far, and all their elements.
Alike(a, D) == \A i \in D : a[i].regular /\ a[i].elements # <<>> /\ a[i].sizes = a[1].sizes
Elements(a, D) == UNION {ToSet(a[i].elements) : i \in D}

\* The arrays b are the arrays a of the values there with one dimension more.
OneMore(a, b, D, V, there) == \A i \in D : ArrayOf(a[i], V, there[i]) /\ b[i] = Level(a[i])

\* The column of all elements of a has lists of one length exactly where the arrays
\* are alike for one dimension more, and the elements of b are next to it.
IsColumnOf(column, a, b, D, type, V) ==
  /\ column = Column(Elements(a, D), type)
  /\ IsColumn(column, V)
  /\ Sound(column) <=> Alike(b, D)
  /\ Alike(b, D) => Parts(column) = {Column(Elements(b, D), ElementType(type))}

\* There is such a column.
LEMMA AlikeLevel ==
  ASSUME NEW V, Closed(V), NEW D, 1 \in D, NEW v, NEW a, NEW b, OneMore(a, b, D, V, v),
         NEW type \in Declarations, IsArray(type), Alike(a, D)
  PROVE  \E column : IsColumnOf(column, a, b, D, type, V)
<1> DEFINE column == Column(Elements(a, D), type)
<1>1. /\ column.values = Elements(a, D) /\ column.type = type
      /\ column = [values |-> Elements(a, D), type |-> type]
  BY DEF Column
<1>2. \A i \in D : /\ ToSet(a[i].elements) # {} /\ ToSet(a[i].elements) \subseteq V
                   /\ b[i].regular <=> \E n \in Nat : AllLists(ToSet(a[i].elements), n)
                   /\ \A n \in Nat : AllLists(ToSet(a[i].elements), n) =>
                        /\ b[i].sizes = Append(a[i].sizes, n)
                        /\ ToSet(b[i].elements) = UNION {Items(u) : u \in ToSet(a[i].elements)}
                        /\ b[i].elements = <<>> <=> n = 0
  <2> SUFFICES ASSUME NEW i \in D
               PROVE  /\ ToSet(a[i].elements) # {} /\ ToSet(a[i].elements) \subseteq V
                      /\ b[i].regular <=> \E n \in Nat : AllLists(ToSet(a[i].elements), n)
                      /\ \A n \in Nat : AllLists(ToSet(a[i].elements), n) =>
                           /\ b[i].sizes = Append(a[i].sizes, n)
                           /\ ToSet(b[i].elements) = UNION {Items(u) : u \in ToSet(a[i].elements)}
                           /\ b[i].elements = <<>> <=> n = 0
    OBVIOUS
  <2>1. PICK x, w : x = a[i] /\ w = v[i]
    OBVIOUS
  <2>2. ArrayOf(x, V, w) /\ x.elements # <<>> /\ b[i] = Level(x)
    BY <2>1 DEF Alike, OneMore
  <2>3. /\ ToSet(x.elements) # {} /\ ToSet(x.elements) \subseteq V
        /\ Level(x).regular <=> \E n \in Nat : AllLists(ToSet(x.elements), n)
        /\ \A n \in Nat : AllLists(ToSet(x.elements), n) =>
             /\ Level(x).sizes = Append(x.sizes, n)
             /\ ToSet(Level(x).elements) = UNION {Items(u) : u \in ToSet(x.elements)}
             /\ Level(x).elements = <<>> <=> n = 0
    BY <2>2, LevelOfLists
  <2> QED BY <2>1, <2>2, <2>3
<1>3. \A u : u \in Elements(a, D) <=> \E i \in D : u \in ToSet(a[i].elements)
  BY Zenon DEF Elements
<1>4. Elements(a, D) # {} /\ Elements(a, D) \subseteq V
  BY <1>2, <1>3
<1>5. IsColumn(column, V)
  BY <1>1, <1>4 DEF IsColumn
<1>6. \A n \in Nat : AllLists(Elements(a, D), n) <=> \A i \in D : AllLists(ToSet(a[i].elements), n)
  BY <1>3, Zenon DEF AllLists
<1>7. Sound(column) <=> \E n \in Nat \ {0} : AllLists(Elements(a, D), n)
  <2>1. Sound(column) <=> /\ \A u \in Elements(a, D) : IsUnnamedList(u) /\ u.items # <<>>
                          /\ \A u, w \in Elements(a, D) : Len(u.items) = Len(w.items)
    <3>1. ~IsTuple(type) /\ type.kind = "tuple"
      BY DEF IsArray, IsTuple, Declarations
    <3> QED BY <1>1, <3>1, Zenon DEF Sound
  <2>2. \A u \in Elements(a, D) : IsUnnamedList(u) => Len(u.items) \in Nat /\ (u.items # <<>> <=> Len(u.items) # 0)
    <3> SUFFICES ASSUME NEW u \in Elements(a, D), IsUnnamedList(u)
                 PROVE  Len(u.items) \in Nat /\ (u.items # <<>> <=> Len(u.items) # 0)
      OBVIOUS
    <3>1. PICK q : q = u.items
      OBVIOUS
    <3>2. q \in Seq(V)
      BY <1>4, <3>1, ListItems
    <3>3. Len(q) \in Nat /\ (q # <<>> <=> Len(q) # 0)
      BY <3>2, EmptySeq
    <3> QED BY <3>1, <3>3
  <2>3. PICK u \in Elements(a, D) : TRUE
    BY <1>4
  <2>4. ASSUME NEW n \in Nat \ {0}, AllLists(Elements(a, D), n) PROVE Sound(column)
    BY <2>1, <2>2, <2>4 DEF AllLists
  <2>5. ASSUME Sound(column) PROVE \E n \in Nat \ {0} : AllLists(Elements(a, D), n)
    <3>1. PICK n : n = Len(u.items)
      OBVIOUS
    <3>2. n \in Nat \ {0}
      BY <2>1, <2>2, <2>5, <3>1
    <3>3. AllLists(Elements(a, D), n)
      BY <2>1, <2>5, <3>1 DEF AllLists
    <3> QED BY <3>2, <3>3
  <2> QED BY <2>4, <2>5
<1>8. ASSUME NEW n \in Nat \ {0}, AllLists(Elements(a, D), n) PROVE Alike(b, D)
  <2>1. \A i \in D : AllLists(ToSet(a[i].elements), n) /\ n \in Nat /\ n # 0
    BY <1>6, <1>8
  <2>2. \A i \in D : b[i].regular /\ b[i].sizes = Append(a[i].sizes, n) /\ b[i].elements # <<>>
    BY <1>2, <2>1
  <2>3. \A i \in D : a[i].sizes = a[1].sizes
    BY DEF Alike
  <2> QED BY <2>2, <2>3 DEF Alike
<1>9. ASSUME Alike(b, D) PROVE \E n \in Nat \ {0} : AllLists(Elements(a, D), n)
  <2>1. PICK n \in Nat : AllLists(ToSet(a[1].elements), n)
    BY <1>2, <1>9 DEF Alike
  <2>2. n # 0
    BY <1>2, <1>9, <2>1 DEF Alike
  <2>3. ASSUME NEW i \in D PROVE AllLists(ToSet(a[i].elements), n)
    <3>1. PICK m \in Nat : AllLists(ToSet(a[i].elements), m)
      BY <1>2, <1>9 DEF Alike
    <3>2. PICK s, t : s = a[i].sizes /\ t = a[1].sizes
      OBVIOUS
    <3>3. s = t /\ s \in Seq(Nat) /\ Append(s, m) = Append(t, n)
      <4>1. s = t /\ b[i].sizes = b[1].sizes
        BY <1>9, <3>2 DEF Alike
      <4>2. b[i].sizes = Append(s, m) /\ b[1].sizes = Append(t, n)
        BY <1>2, <2>1, <3>1, <3>2
      <4>3. s \in Seq(Nat)
        BY <3>2 DEF ArrayOf, OneMore
      <4> QED BY <4>1, <4>2, <4>3
    <3>4. m = n
      <4>1. Append(s, m)[Len(s) + 1] = m /\ Append(s, n)[Len(s) + 1] = n
        BY <3>3
      <4> QED BY <3>3, <4>1
    <3> QED BY <3>1, <3>4
  <2> QED BY <1>6, <2>1, <2>2, <2>3
<1>10. ASSUME Alike(b, D) PROVE Parts(column) = {Column(Elements(b, D), ElementType(type))}
  <2>1. PICK n \in Nat : AllLists(Elements(a, D), n)
    BY <1>9, <1>10
  <2>2. \A i \in D : ToSet(b[i].elements) = UNION {Items(u) : u \in ToSet(a[i].elements)}
    BY <1>2, <1>6, <2>1
  <2>3. \A x : x \in Elements(b, D) <=> x \in UNION {Items(u) : u \in Elements(a, D)}
    <3>1. \A x : x \in Elements(b, D) <=> \E i \in D : x \in ToSet(b[i].elements)
      BY Zenon DEF Elements
    <3>2. \A i \in D : \A x : x \in ToSet(b[i].elements) <=> \E u \in ToSet(a[i].elements) : x \in Items(u)
      BY <2>2
    <3>3. \A x : x \in UNION {Items(u) : u \in Elements(a, D)} <=> \E u \in Elements(a, D) : x \in Items(u)
      BY Zenon
    <3> QED BY <1>3, <3>1, <3>2, <3>3, Zenon
  <2>4. Elements(b, D) = UNION {Items(u) : u \in Elements(a, D)}
    BY <2>3
  <2>5. Sound(column)
    BY <1>7, <1>9, <1>10
  <2> HIDE DEF column
  <2>6. Parts(column) = {Column(UNION {Items(u) : u \in Elements(a, D)}, ElementType(type))}
    BY <1>1, <2>5, Zenon DEF Parts
  <2> QED BY <2>4, <2>6, Zenon
<1>11. Sound(column) <=> Alike(b, D)
  BY <1>7, <1>8, <1>9
<1> HIDE DEF column
<1>12. IsColumnOf(column, a, b, D, type, V)
  BY <1>5, <1>10, <1>11 DEF IsColumnOf, column
<1> QED BY <1>12

\* Arrays that are alike are so in fewer dimensions.
LEMMA AlikeBefore ==
  ASSUME NEW V, Closed(V), NEW D, 1 \in D, NEW v, NEW a, NEW b, OneMore(a, b, D, V, v),
         Alike(b, D)
  PROVE  Alike(a, D)
<1>1. \A i \in D : a[i].elements # <<>> /\ a[i].regular
  <2>1. \A i \in D : a[i].elements = <<>> => b[i] = a[i]
    BY Zenon DEF Level, OneMore
  <2> QED BY <2>1 DEF Alike, ArrayOf, OneMore
<1>2. ASSUME NEW i \in D PROVE a[i].sizes \in Seq(Nat) /\ \E n \in Nat : b[i].sizes = Append(a[i].sizes, n)
  <2>1. PICK x, w : x = a[i] /\ w = v[i]
    OBVIOUS
  <2>2. ArrayOf(x, V, w) /\ x.elements # <<>> /\ b[i] = Level(x) /\ Level(x).regular
    BY <1>1, <2>1 DEF Alike, OneMore
  <2>3. PICK n \in Nat : Level(x).sizes = Append(x.sizes, n)
    BY <2>2, LevelOfLists
  <2>4. x.sizes \in Seq(Nat)
    BY <2>2 DEF ArrayOf
  <2> QED BY <2>1, <2>2, <2>3, <2>4
<1>3. ASSUME NEW i \in D PROVE a[i].sizes = a[1].sizes
  <2>1. PICK s, t : s = a[i].sizes /\ t = a[1].sizes
    OBVIOUS
  <2>2. s \in Seq(Nat) /\ t \in Seq(Nat)
    BY <1>2, <2>1
  <2>3. PICK m \in Nat, n \in Nat : b[i].sizes = Append(s, m) /\ b[1].sizes = Append(t, n)
    BY <1>2, <2>1
  <2>4. Append(s, m) = Append(t, n)
    BY <2>3 DEF Alike
  <2>5. s = t
    BY <2>2, <2>3, <2>4, AppendInjective
  <2> QED BY <2>1, <2>5
<1> QED BY <1>1, <1>3 DEF Alike

\* The values of a slot that is an array are regular exactly where they are alike
\* in all dimensions and all elements are regular tuples.
LEMMA SlotColumn ==
  ASSUME NEW V, Closed(V), NEW slot \in SlotType(V), slot.decl.kind = "tuple", slot.there # <<>>,
         NEW arrays, arrays = [i \in DOMAIN slot.there |-> Unnest(slot.there[i], slot.decl.dims)]
  PROVE  LET D == DOMAIN slot.there
             tuples == Column(Elements(arrays, D), [slot.decl EXCEPT !.dims = 0]) IN
         /\ Alike(arrays, D) => IsColumn(tuples, V)
         /\ RegularColumn(Column(ToSet(slot.there), slot.decl)) <=> Alike(arrays, D) /\ RegularColumn(tuples)
<1> PICK there, decl, dims, D : there = slot.there /\ decl = slot.decl /\ dims = decl.dims /\ D = DOMAIN there
  OBVIOUS
<1>1. /\ there \in Seq(V) /\ there # <<>> /\ decl \in Declarations /\ decl.kind = "tuple"
      /\ dims \in Nat /\ \A i \in D : there[i] \in V
      /\ 1 \in D /\ D = DOMAIN there
  <2>1. there \in Seq(V) /\ there # <<>> /\ decl \in Types /\ decl.kind = "tuple"
    BY DEF SlotType
  <2>2. decl \in Declarations
    BY <2>1, TypesDeclare
  <2>3. dims \in Nat
    BY <2>2 DEF Declarations
  <2> QED BY <2>1, <2>2, <2>3, EmptySeq
<1> DEFINE f == [i \in D |-> CHOOSE g : UnnestTo(there[i], dims, V, g)]
<1>2. \A i \in D : UnnestTo(there[i], dims, V, f[i])
  <2> SUFFICES ASSUME NEW i \in D PROVE UnnestTo(there[i], dims, V, f[i])
    OBVIOUS
  <2>1. there[i] \in V
    BY <1>1
  <2>2. \E g : UnnestTo(there[i], dims, V, g)
    BY <1>1, <2>1, UnnestFunction
  <2>3. f[i] = CHOOSE g : UnnestTo(there[i], dims, V, g)
    OBVIOUS
  <2> QED BY <2>2, <2>3, Zenon
<1> HIDE DEF f
<1> DEFINE A(k) == [i \in D |-> f[i][k]]
           T(k) == [decl EXCEPT !.dims = dims - k]
           C(k) == Column(Elements(A(k), D), T(k))
           Whole == RegularColumn(Column(ToSet(there), decl))
           S == {k \in Nat : k \in 0..dims => (Whole <=> Alike(A(k), D) /\ RegularColumn(C(k)))}
<1>3. \A k \in 0..dims : T(k) \in Declarations /\ T(k).kind = "tuple" /\ T(k).dims = dims - k
  BY <1>1 DEF Declarations
<1>4. \A k \in 0..dims : \A i \in D : ArrayOf(A(k)[i], V, there[i])
  BY <1>2 DEF UnnestTo
<1>5. Alike(A(0), D) /\ C(0) = Column(ToSet(there), decl)
  <2> PICK a : a = A(0)
    OBVIOUS
  <2>1. \A i \in D : a[i] = [regular |-> TRUE, sizes |-> <<>>, elements |-> <<there[i]>>]
    BY <1>2 DEF UnnestTo
  <2>2. T(0) = decl
    <3>1. dims - 0 = dims
      BY <1>1
    <3>2. [decl EXCEPT !.dims = dims] = decl
      BY <1>1 DEF Declarations
    <3> QED BY <3>1, <3>2
  <2>6. \A q, r : r = [regular |-> TRUE, sizes |-> <<>>, elements |-> q]
                     => r.regular /\ r.sizes = <<>> /\ r.elements = q
    OBVIOUS
  <2>3. Alike(a, D)
    <3>1. \A i \in D : a[i].regular /\ a[i].sizes = <<>> /\ a[i].elements = <<there[i]>>
      BY <2>1, <2>6
    <3>2. \A x : <<x>> # <<>>
      OBVIOUS
    <3> QED BY <1>1, <3>1, <3>2, Zenon DEF Alike
  <2>4. \A x : x \in Elements(a, D) <=> x \in ToSet(there)
    <3>1. \A i \in D : ToSet(a[i].elements) = {there[i]}
      <4>1. \A x : ToSet(<<x>>) = {x}
        BY DEF ToSet
      <4>2. \A i \in D : a[i].elements = <<there[i]>>
        BY <2>1, <2>6
      <4> QED BY <4>1, <4>2
    <3>2. \A x : x \in Elements(a, D) <=> \E i \in D : x \in ToSet(a[i].elements)
      BY Zenon DEF Elements
    <3>3. \A x : x \in ToSet(there) <=> \E i \in D : x = there[i]
      <4>1. \A x : x \in ToSet(there) <=> \E i \in DOMAIN there : x = there[i]
        BY Zenon DEF ToSet
      <4>2. DOMAIN there = D
        BY <1>1
      <4> QED BY <4>1, <4>2, Zenon
    <3>4. \A i \in D : \A x : x \in ToSet(a[i].elements) <=> x = there[i]
      <4> SUFFICES ASSUME NEW i \in D, NEW x PROVE x \in ToSet(a[i].elements) <=> x = there[i]
        OBVIOUS
      <4>1. ToSet(a[i].elements) = {there[i]}
        BY <3>1
      <4> QED BY <4>1, Zenon
    <3>5. \A x : (\E i \in D : x \in ToSet(a[i].elements)) <=> \E i \in D : x = there[i]
      BY <3>4, Zenon
    <3> SUFFICES ASSUME NEW x PROVE x \in Elements(a, D) <=> x \in ToSet(there)
      OBVIOUS
    <3>6. x \in Elements(a, D) <=> \E i \in D : x = there[i]
      <4>1. x \in Elements(a, D) <=> \E i \in D : x \in ToSet(a[i].elements)
        BY <3>2
      <4>2. (\E i \in D : x \in ToSet(a[i].elements)) <=> \E i \in D : x = there[i]
        BY <3>5
      <4> QED BY <4>1, <4>2
    <3>7. x \in ToSet(there) <=> \E i \in D : x = there[i]
      BY <3>3
    <3> QED BY <3>6, <3>7
  <2>5. Elements(a, D) = ToSet(there)
    BY <2>4
  <2> HIDE DEF T, A
  <2> QED BY <2>2, <2>3, <2>5
<1>6. 0 \in S
  BY <1>5
<1>7. ASSUME NEW k \in Nat, k \in S PROVE k + 1 \in S
  <2> SUFFICES ASSUME k + 1 \in 0..dims PROVE Whole <=> Alike(A(k + 1), D) /\ RegularColumn(C(k + 1))
    OBVIOUS
  <2>1. k \in 0..dims /\ k + 1 \in 1..dims /\ (k + 1) - 1 = k /\ dims - (k + 1) = (dims - k) - 1 /\ dims - k > 0
    BY <1>1
  <2>2. Whole <=> Alike(A(k), D) /\ RegularColumn(C(k))
    BY <1>7, <2>1
  <2>3. \A i \in D : A(k + 1)[i] = Level(A(k)[i])
    BY <1>2, <2>1 DEF UnnestTo
  <2>4. T(k + 1) = ElementType(T(k)) /\ IsArray(T(k)) /\ T(k) \in Declarations
    <3>1. T(k).kind = "tuple" /\ T(k).dims = dims - k /\ T(k) \in Declarations
      BY <1>3, <2>1
    <3>2. T(k + 1) = [T(k) EXCEPT !.dims = (dims - k) - 1]
      BY <1>1, <2>1 DEF Declarations
    <3> QED BY <2>1, <3>1, <3>2 DEF ElementType, IsArray
  <2> PICK a, b, t : a = A(k) /\ b = A(k + 1) /\ t = T(k)
    OBVIOUS
  <2>5. OneMore(a, b, D, V, there)
    <3> HIDE DEF A
    <3> QED BY <1>4, <2>1, <2>3 DEF OneMore
  <2>6. Alike(b, D) => Alike(a, D)
    BY <1>1, <2>5, AlikeBefore
  <2>7. t \in Declarations /\ IsArray(t)
    BY <2>4
  <2>8. ASSUME Alike(a, D)
        PROVE  RegularColumn(Column(Elements(a, D), t)) <=>
                 Alike(b, D) /\ RegularColumn(Column(Elements(b, D), ElementType(t)))
    <3>1. PICK column : IsColumnOf(column, a, b, D, t, V)
      BY <1>1, <2>5, <2>7, <2>8, AlikeLevel
    <3>2. PICK next : next = Column(Elements(b, D), ElementType(t))
      OBVIOUS
    <3>3. /\ column = Column(Elements(a, D), t) /\ IsColumn(column, V)
          /\ Sound(column) <=> Alike(b, D)
          /\ Alike(b, D) => Parts(column) = {next}
      BY <3>1, <3>2 DEF IsColumnOf
    <3>4. RegularColumn(column) <=> Sound(column) /\ \A c \in Parts(column) : RegularColumn(c)
      BY <3>3, RegularParts
    <3>5. Alike(b, D) => ((\A c \in Parts(column) : RegularColumn(c)) <=> RegularColumn(next))
      BY <3>3
    <3> QED BY <3>2, <3>3, <3>4, <3>5
  <2>9. C(k) = Column(Elements(a, D), t) /\ C(k + 1) = Column(Elements(b, D), ElementType(t))
    BY <2>4
  <2> HIDE DEF C, A, T, Whole
  <2> QED BY <2>2, <2>6, <2>8, <2>9
<1>8. dims \in S
  <2> HIDE DEF S
  <2> QED BY <1>1, <1>6, <1>7, NatSet
<1>9. A(dims) = arrays
  <2>1. \A i \in D : Unnest(there[i], dims) = f[i][dims]
    BY <1>2 DEF UnnestTo
  <2> QED BY <2>1
<1>10. dims \in 0..dims /\ T(dims) = [decl EXCEPT !.dims = 0]
  <2>1. dims \in 0..dims /\ dims - dims = 0
    BY <1>1
  <2> QED BY <2>1
<1>11. Whole <=> Alike(arrays, D) /\ RegularColumn(Column(Elements(arrays, D), [decl EXCEPT !.dims = 0]))
  <2>1. Whole <=> Alike(A(dims), D) /\ RegularColumn(C(dims))
    BY <1>8, <1>10
  <2>2. C(dims) = Column(Elements(arrays, D), [decl EXCEPT !.dims = 0])
    BY <1>9, <1>10
  <2> HIDE DEF C, A, T, Whole
  <2> QED BY <1>9, <2>1, <2>2
<1>12. ASSUME Alike(arrays, D) PROVE IsColumn(Column(Elements(arrays, D), [decl EXCEPT !.dims = 0]), V)
  <2>1. \A i \in D : ArrayOf(arrays[i], V, there[i])
    <3>1. \A i \in D : ArrayOf(A(dims)[i], V, there[i])
      BY <1>4, <1>10
    <3> HIDE DEF A
    <3> QED BY <1>9, <3>1
  <2>2. \A i \in D : ToSet(arrays[i].elements) # {} /\ ToSet(arrays[i].elements) \subseteq V
    <3> SUFFICES ASSUME NEW i \in D PROVE ToSet(arrays[i].elements) # {} /\ ToSet(arrays[i].elements) \subseteq V
      OBVIOUS
    <3>1. PICK q : q = arrays[i].elements
      OBVIOUS
    <3>2. q \in Seq(V) /\ q # <<>>
      BY <1>12, <2>1, <3>1 DEF ArrayOf, Alike
    <3>3. 1 \in DOMAIN q
      BY <3>2, EmptySeq
    <3> QED BY <3>1, <3>2, <3>3, ToSetType DEF ToSet
  <2>3. Elements(arrays, D) # {} /\ Elements(arrays, D) \subseteq V
    <3>1. \A u : u \in Elements(arrays, D) <=> \E i \in D : u \in ToSet(arrays[i].elements)
      BY Zenon DEF Elements
    <3> QED BY <1>1, <2>2, <3>1
  <2>4. [decl EXCEPT !.dims = 0] \in Declarations
    BY <1>1 DEF Declarations
  <2> QED BY <2>3, <2>4 DEF IsColumn, Column
<1> HIDE DEF Whole
<1> QED BY <1>11, <1>12 DEF Whole

ValuesOf(values, s) == {v.items[s] : v \in values}

\* A column of tuples is regular where they have all slots and these are regular.
LEMMA TupleColumn ==
  ASSUME NEW V, Closed(V), NEW values, NEW type, NEW c, c = Column(values, type), IsColumn(c, V),
         IsTuple(type), NEW n, n = Len(type.slots)
  PROVE  RegularColumn(c) <=>
           /\ AllLists(values, n)
           /\ \A s \in 1..n : RegularColumn(Column(ValuesOf(values, s), type.slots[s]))
<1>1. c.values = values /\ c.type = type /\ ~IsArray(type) /\ IsTuple(type) /\ type.kind = "tuple"
      /\ DOMAIN type.slots = 1..n
  <2>1. c.values = values /\ c.type = type
    BY DEF Column
  <2>2. ~IsArray(type) /\ type.kind = "tuple"
    BY DEF IsArray, IsTuple
  <2>3. type.slots \in Seq(Types)
    BY <2>1 DEF IsColumn, Declarations
  <2> QED BY <2>1, <2>2, <2>3
<1>2. Sound(c) <=> AllLists(values, n)
  BY <1>1, Zenon DEF Sound, AllLists
<1>3. RegularColumn(c) <=> Sound(c) /\ \A b \in Parts(c) : RegularColumn(b)
  BY RegularParts
<1>4. Sound(c) => Parts(c) = {Column(ValuesOf(values, s), type.slots[s]) : s \in 1..n}
  <2>1. Sound(c) => Parts(c) = {Column({v.items[s] : v \in values}, type.slots[s]) : s \in DOMAIN type.slots}
    BY <1>1, Zenon DEF Parts
  <2> QED BY <1>1, <2>1, Zenon DEF ValuesOf
<1>5. Sound(c) => ((\A b \in Parts(c) : RegularColumn(b))
                     <=> \A s \in 1..n : RegularColumn(Column(ValuesOf(values, s), type.slots[s])))
  BY <1>4
<1> QED BY <1>2, <1>3, <1>5

ElementsAre(pieces, arrays, D) == DOMAIN pieces = D /\ \A i \in D : pieces[i] = arrays[i].elements

\* All elements of all arrays are all elements of any of them.
LEMMA ElementsOfArrays ==
  ASSUME NEW arrays, NEW D, NEW pieces, ElementsAre(pieces, arrays, D)
  PROVE  UNION {ToSet(pieces[i]) : i \in DOMAIN pieces} = Elements(arrays, D)
<1>1. \A x : x \in Elements(arrays, D) <=> \E i \in D : x \in ToSet(arrays[i].elements)
  BY Zenon DEF Elements
<1>2. \A x : x \in UNION {ToSet(pieces[i]) : i \in DOMAIN pieces} <=> \E i \in D : x \in ToSet(arrays[i].elements)
  BY DEF ElementsAre
<1>3. \A x : x \in Elements(arrays, D) <=> x \in UNION {ToSet(pieces[i]) : i \in DOMAIN pieces}
  BY <1>1, <1>2
<1> QED BY <1>3

\* flatten_recurse() on a tuple leaves a slot as regular as it was: its slots are
\* regular exactly where it is.
LEMMA TupleRegular ==
  ASSUME NEW V, Closed(V), NEW slot \in SlotType(V), slot.decl.kind = "tuple",
         NEW arrays, NEW inner, NEW elements, NEW slots, Unpacks(slot, arrays, inner, elements, slots)
  PROVE  RegularSlot(slot) <=> \A s \in DOMAIN slots : RegularSlot(slots[s])
<1> PICK there, decl, D, n : /\ there = slot.there /\ decl = slot.decl
                             /\ D = DOMAIN there /\ n = Len(decl.slots)
  OBVIOUS
<1>1. there \in Seq(V) /\ decl \in Types /\ decl.slots \in Seq(Types) /\ n \in Nat \ {0}
  <2>1. there \in Seq(V) /\ decl \in Types
    BY DEF SlotType
  <2>2. decl.slots \in Seq(Types) /\ decl.slots # <<>>
    BY <2>1, DataAssumption, TupleAssumption
  <2> QED BY <2>1, <2>2, EmptySeq
<1> PICK pieces : pieces = [i \in DOMAIN arrays |-> arrays[i].elements]
  OBVIOUS
<1>2. /\ inner \in Seq(Nat) /\ DOMAIN pieces = D /\ DOMAIN arrays = D
      /\ \A i \in D : arrays[i].elements \in Seq(V) /\ Len(arrays[i].elements) = Size(inner)
      /\ \A i \in D : pieces[i] = arrays[i].elements
      /\ elements \in Seq(V)
      /\ ToSet(elements) = UNION {ToSet(pieces[i]) : i \in DOMAIN pieces}
      /\ Len(elements) = Len(there) * Size(inner)
      /\ \A s \in 1..n : IsSlot(slots[s], s, slot, inner, elements, V)
      /\ DOMAIN slots = 1..n
  BY Unpacked
<1>3. ToSet(elements) = Elements(arrays, D)
  <2>1. UNION {ToSet(pieces[i]) : i \in DOMAIN pieces} = Elements(arrays, D)
    <3>1. ElementsAre(pieces, arrays, D)
      BY <1>2 DEF ElementsAre
    <3> QED BY <3>1, ElementsOfArrays
  <2> QED BY <1>2, <2>1
<1>4. /\ arrays = [i \in DOMAIN slot.there |-> Unnest(slot.there[i], slot.decl.dims)]
      /\ \A i \in D : arrays[i].regular /\ arrays[i].sizes = inner
      /\ \A i \in DOMAIN elements : IsUnnamedList(elements[i]) /\ Len(elements[i].items) = n
  BY <1>2, Zenon DEF Unpacks
<1>5. AllLists(Elements(arrays, D), n)
  <2>1. \A u : u \in ToSet(elements) <=> \E i \in DOMAIN elements : u = elements[i]
    BY DEF ToSet
  <2> QED BY <1>3, <1>4, <2>1 DEF AllLists
<1>6. ASSUME NEW s \in 1..n
      PROVE  /\ slots[s].there \in Seq(V) /\ Len(slots[s].there) = Len(elements)
             /\ ToSet(slots[s].there) = ValuesOf(Elements(arrays, D), s)
             /\ slots[s].decl = decl.slots[s]
  <2>1. /\ slots[s].there \in Seq(V) /\ Len(slots[s].there) = Len(elements)
        /\ DOMAIN slots[s].there = DOMAIN elements
        /\ \A i \in DOMAIN elements : slots[s].there[i] = elements[i].items[s]
        /\ slots[s].decl = decl.slots[s]
    BY <1>2 DEF IsSlot
  <2>2. \A x : x \in ToSet(slots[s].there) <=> \E i \in DOMAIN elements : x = elements[i].items[s]
    <3>1. \A x : x \in ToSet(slots[s].there) <=> \E i \in DOMAIN slots[s].there : x = slots[s].there[i]
      BY Zenon DEF ToSet
    <3> QED BY <2>1, <3>1
  <2>3. \A x : x \in ValuesOf(Elements(arrays, D), s) <=> \E u \in ToSet(elements) : x = u.items[s]
    <3>1. \A x : x \in ValuesOf(ToSet(elements), s) <=> \E u \in ToSet(elements) : x = u.items[s]
      BY Zenon DEF ValuesOf
    <3> QED BY <1>3, <3>1
  <2>4. \A u : u \in ToSet(elements) <=> \E i \in DOMAIN elements : u = elements[i]
    BY DEF ToSet
  <2>5. \A x : x \in ToSet(slots[s].there) <=> x \in ValuesOf(Elements(arrays, D), s)
    <3>1. \A x : (\E u \in ToSet(elements) : x = u.items[s]) <=> \E i \in DOMAIN elements : x = elements[i].items[s]
      BY <2>4
    <3> QED BY <2>2, <2>3, <3>1, Zenon
  <2> QED BY <2>1, <2>5
<1>7. CASE there = <<>>
  <2>1. ~RegularSlot(slot)
    BY <1>7 DEF RegularSlot
  <2>2. elements = <<>>
    <3>1. Len(there) = 0 /\ Size(inner) \in Nat
      BY <1>2, <1>7, SizeNat
    <3>2. Len(elements) = 0
      BY <1>2, <3>1
    <3> QED BY <1>2, <3>2, EmptySeq
  <2>3. 1 \in 1..n
    BY <1>1
  <2>4. slots[1].there = <<>>
    <3>1. PICK q : q = slots[1].there
      OBVIOUS
    <3>2. q \in Seq(V) /\ Len(q) = 0
      BY <1>6, <2>2, <2>3, <3>1
    <3>3. q = <<>>
      BY <3>2, EmptySeq
    <3> QED BY <3>1, <3>3
  <2>5. ~RegularSlot(slots[1])
    BY <2>4 DEF RegularSlot
  <2> QED BY <1>2, <2>1, <2>3, <2>5
<1>8. CASE there # <<>>
  <2> DEFINE tuples == Column(Elements(arrays, D), [decl EXCEPT !.dims = 0])
  <2>1. /\ Alike(arrays, D) => IsColumn(tuples, V)
        /\ RegularColumn(Column(ToSet(there), decl)) <=> Alike(arrays, D) /\ RegularColumn(tuples)
    BY <1>4, <1>8, SlotColumn
  <2>2. RegularSlot(slot) <=> Alike(arrays, D) /\ RegularColumn(tuples)
    BY <1>8, <2>1 DEF RegularSlot
  <2>3. 1 \in D /\ Len(there) \in Nat \ {0}
    BY <1>1, <1>8, EmptySeq
  <2>4. Alike(arrays, D) <=> Size(inner) # 0
    <3>1. \A i \in D : arrays[i].elements = <<>> <=> Size(inner) = 0
      <4> SUFFICES ASSUME NEW i \in D PROVE arrays[i].elements = <<>> <=> Size(inner) = 0
        OBVIOUS
      <4>1. PICK q : q = arrays[i].elements
        OBVIOUS
      <4>2. q \in Seq(V) /\ Len(q) = Size(inner)
        BY <1>2, <4>1
      <4>3. q = <<>> <=> Len(q) = 0
        BY <4>2, EmptySeq
      <4> QED BY <4>1, <4>2, <4>3
    <3> QED BY <1>4, <2>3, <3>1 DEF Alike
  <2>5. elements # <<>> <=> Size(inner) # 0
    <3>1. PICK l, m : l = Len(there) /\ m = Size(inner)
      OBVIOUS
    <3>2. l \in Nat \ {0} /\ m \in Nat /\ Len(elements) = l * m
      BY <1>2, <2>3, <3>1, SizeNat
    <3>3. l * m = 0 <=> m = 0
      BY <3>2, SMT
    <3>4. elements = <<>> <=> Len(elements) = 0
      BY <1>2, EmptySeq
    <3> QED BY <3>1, <3>2, <3>3, <3>4
  <2>6. ASSUME NEW s \in 1..n
        PROVE  RegularSlot(slots[s]) <=>
                 elements # <<>> /\ RegularColumn(Column(ValuesOf(Elements(arrays, D), s), decl.slots[s]))
    <3>1. slots[s].there # <<>> <=> elements # <<>>
      <4>1. PICK q : q = slots[s].there
        OBVIOUS
      <4>2. q \in Seq(V) /\ Len(q) = Len(elements) /\ elements \in Seq(V)
        BY <1>2, <1>6, <4>1
      <4>3. (q = <<>> <=> Len(q) = 0) /\ (elements = <<>> <=> Len(elements) = 0)
        BY <4>2, EmptySeq
      <4> QED BY <4>1, <4>2, <4>3
    <3> QED BY <1>6, <3>1 DEF RegularSlot
  <2>7. ASSUME Alike(arrays, D)
        PROVE  RegularColumn(tuples) <=>
                 \A s \in 1..n : RegularColumn(Column(ValuesOf(Elements(arrays, D), s), decl.slots[s]))
    <3>1. PICK values, type : values = Elements(arrays, D) /\ type = [decl EXCEPT !.dims = 0]
      OBVIOUS
    <3>2. IsTuple(type) /\ type.slots = decl.slots
      <4>1. decl \in Declarations /\ decl.kind = "tuple"
        BY <1>1, TypesDeclare
      <4> QED BY <3>1, <4>1 DEF Declarations, IsTuple
    <3>3. n = Len(type.slots)
      BY <3>2
    <3>4. tuples = Column(values, type) /\ IsColumn(tuples, V)
      BY <2>1, <2>7, <3>1
    <3> HIDE DEF tuples
    <3>5. RegularColumn(tuples) <=>
            /\ AllLists(values, n)
            /\ \A s \in 1..n : RegularColumn(Column(ValuesOf(values, s), type.slots[s]))
      BY <3>2, <3>3, <3>4, TupleColumn
    <3> QED BY <1>5, <3>1, <3>2, <3>5
  <2> HIDE DEF tuples
  <2>8. 1 \in 1..n
    BY <1>1
  <2> QED BY <1>2, <2>2, <2>4, <2>5, <2>6, <2>7, <2>8
<1> QED BY <1>7, <1>8

\* Where it is regular flatten_recurse() does not throw.
LEMMA RegularUnpacks ==
  ASSUME NEW V, Closed(V), NEW slot \in SlotType(V), slot.decl.kind = "tuple", RegularSlot(slot)
  PROVE  \E arrays, inner, elements, slots : Unpacks(slot, arrays, inner, elements, slots)
<1>01. PICK there, decl, D, n : /\ there = slot.there /\ decl = slot.decl
                                /\ D = DOMAIN there /\ n = Len(decl.slots)
  OBVIOUS
<1>02. PICK arrays : arrays = [i \in DOMAIN slot.there |-> Unnest(slot.there[i], slot.decl.dims)]
  OBVIOUS
<1> DEFINE inner == IF arrays = <<>> THEN <<>> ELSE arrays[1].sizes
<1> HIDE DEF inner
<1>03. PICK pieces : pieces = [i \in DOMAIN arrays |-> arrays[i].elements]
  OBVIOUS
<1>04. PICK elements : elements = FlattenSeq(pieces)
  OBVIOUS
<1>05. PICK slots : slots = [s \in 1..Len(slot.decl.slots) |->
                               Slot(Dot(slot.name, s), [i \in DOMAIN elements |-> elements[i].items[s]],
                                    slot.sizes \o inner, slot.decl.slots[s])]
  OBVIOUS
<1>1. /\ there \in Seq(V) /\ there # <<>> /\ decl \in Types /\ decl \in Declarations
      /\ decl.dims \in Nat /\ 1 \in D /\ D = 1..Len(there) /\ Len(there) \in Nat
  <2>1. there \in Seq(V) /\ there # <<>> /\ decl \in Types
    BY <1>01 DEF SlotType, RegularSlot
  <2>2. decl \in Declarations
    BY <2>1, TypesDeclare
  <2> QED BY <1>01, <2>1, <2>2, EmptySeq DEF Declarations
<1>2. DOMAIN arrays = D /\ \A i \in D : arrays[i] = Unnest(there[i], decl.dims)
  BY <1>01, <1>02
<1>3. \A i \in D : ArrayOf(arrays[i], V, there[i])
  BY <1>1, <1>2, UnnestKeeps
<1> DEFINE tuples == Column(Elements(arrays, D), [decl EXCEPT !.dims = 0])
<1>4. /\ Alike(arrays, D) => IsColumn(tuples, V)
      /\ RegularColumn(Column(ToSet(there), decl)) <=> Alike(arrays, D) /\ RegularColumn(tuples)
  BY <1>01, <1>02, <1>1, SlotColumn
<1>5. Alike(arrays, D) /\ RegularColumn(tuples) /\ IsColumn(tuples, V)
  BY <1>01, <1>4 DEF RegularSlot
<1>6. AllLists(Elements(arrays, D), n)
  <2>1. PICK values, type : values = Elements(arrays, D) /\ type = [decl EXCEPT !.dims = 0]
    OBVIOUS
  <2>2. IsTuple(type) /\ type.slots = decl.slots
    BY <1>01, <1>1, <2>1 DEF Declarations, IsTuple
  <2>3. n = Len(type.slots)
    BY <1>01, <2>2
  <2>4. tuples = Column(values, type)
    BY <2>1
  <2> HIDE DEF tuples
  <2> QED BY <1>5, <2>1, <2>2, <2>3, <2>4, TupleColumn
<1>7. inner = arrays[1].sizes
  <2>1. arrays # <<>>
    <3>1. DOMAIN <<>> = {}
      OBVIOUS
    <3> QED BY <1>1, <1>2, <3>1
  <2> QED BY <2>1 DEF inner
<1>8. \A i \in DOMAIN arrays : arrays[i].regular /\ arrays[i].sizes = inner
  BY <1>2, <1>5, <1>7 DEF Alike
<1>9. \A i \in DOMAIN elements : IsUnnamedList(elements[i]) /\ Len(elements[i].items) = n
  <2>1. pieces \in Seq(Seq(V)) /\ DOMAIN pieces = D /\ \A i \in D : pieces[i] = arrays[i].elements
    <3>1. \A i \in D : arrays[i].elements \in Seq(V)
      BY <1>3 DEF ArrayOf
    <3>2. DOMAIN pieces = D /\ \A i \in D : pieces[i] = arrays[i].elements
      BY <1>2, <1>03
    <3>3. pieces = [i \in 1..Len(there) |-> arrays[i].elements]
      BY <1>1, <1>2, <1>03
    <3>4. pieces \in Seq(Seq(V))
      BY <1>1, <3>1, <3>3
    <3> QED BY <3>2, <3>4
  <2>2. ToSet(elements) = UNION {ToSet(pieces[i]) : i \in DOMAIN pieces}
    BY <1>04, <2>1, FlattenRange
  <2>3. UNION {ToSet(pieces[i]) : i \in DOMAIN pieces} = Elements(arrays, D)
    <3>1. ElementsAre(pieces, arrays, D)
      BY <2>1 DEF ElementsAre
    <3> QED BY <3>1, ElementsOfArrays
  <2>4. \A i \in DOMAIN elements : elements[i] \in ToSet(elements)
    BY DEF ToSet
  <2> QED BY <1>6, <2>2, <2>3, <2>4 DEF AllLists
<1>10. Unpacks(slot, arrays, inner, elements, slots)
  BY <1>01, <1>02, <1>03, <1>04, <1>05, <1>8, <1>9, Zenon DEF Unpacks, inner
<1> QED BY <1>10

\* Two payloads that are not empty look alike where payload_shape() is the same.
LEMMA SameShape ==
  ASSUME NEW V, Closed(V), NEW v \in V, NEW w \in V, v.tag = "atomic", w.tag = "atomic",
         v.vals # <<>>, w.vals # <<>>
  PROVE  PayloadShape(v) = PayloadShape(w) <=> OwnShape(v) = OwnShape(w)
<1> DEFINE Facts(u, dim, l, shape, own) ==
             /\ dim \in Seq(Nat) /\ l \in Nat \ {0} /\ (dim # <<>> => Size(dim) = l)
             /\ shape = (IF dim # <<>> THEN dim ELSE IF l > 1 THEN <<l>> ELSE <<>>)
             /\ own = <<l, IF l > 1 /\ Len(dim) = 1 THEN <<>> ELSE dim>>
<1>1. ASSUME NEW u \in V, u.tag = "atomic", u.vals # <<>>
      PROVE  Facts(u, u.dim, Len(u.vals), PayloadShape(u), OwnShape(u))
  <2>1. u \in Atomic /\ Consistent(u)
    BY <1>1 DEF Closed, Frame, List
  <2>2. u.vals \in Seq(Number) /\ u.dim \in Seq(Nat)
    BY <2>1 DEF Atomic
  <2>3. PICK q : q = u.vals
    OBVIOUS
  <2>4. Len(q) \in Nat \ {0}
    BY <1>1, <2>2, <2>3, EmptySeq
  <2>5. u.dim # <<>> => Size(u.dim) = Len(u.vals)
    BY <1>1, <2>1 DEF Consistent
  <2> QED BY <2>2, <2>3, <2>4, <2>5, Zenon DEF PayloadShape, OwnShape
<1>2. \A dim \in Seq(Nat) : Len(dim) = 1 => dim = <<Size(dim)>>
  <2> SUFFICES ASSUME NEW dim \in Seq(Nat), Len(dim) = 1 PROVE dim = <<Size(dim)>>
    OBVIOUS
  <2>1. PICK n : n = dim[1]
    OBVIOUS
  <2>2. n \in Nat
    <3>1. 1 \in 1..Len(dim)
      OBVIOUS
    <3> QED BY <2>1, <3>1, ElementOfSeq
  <2>3. PICK one : one = <<n>>
    OBVIOUS
  <2>4. one \in Seq(Nat) /\ Len(one) = 1 /\ one[1] = n
    BY <2>2, <2>3
  <2>5. \A i \in 1..1 : i = 1
    OBVIOUS
  <2>6. dim = one
    BY <2>1, <2>4, <2>5, SeqEqual
  <2> QED BY <2>2, <2>3, <2>6, SizeOne
<1>3. ASSUME NEW dim, NEW l, NEW shape, NEW own, NEW u, Facts(u, dim, l, shape, own)
      PROVE  /\ l > 1 /\ Len(dim) = 1 => shape = <<l>> /\ own = <<l, <<>>>>
             /\ l > 1 /\ dim = <<>> => shape = <<l>> /\ own = <<l, <<>>>>
             /\ l > 1 /\ dim # <<>> /\ Len(dim) # 1 => shape = dim /\ own = <<l, dim>>
             /\ ~(l > 1) => shape = dim /\ own = <<l, dim>> /\ l = 1
             /\ Size(shape) = l
  <2>1. l > 1 /\ Len(dim) = 1 => shape = <<l>> /\ own = <<l, <<>>>>
    <3>1. Len(<<>>) = 0
      OBVIOUS
    <3> QED BY <1>2, <1>3, <3>1
  <2>2. l > 1 /\ dim = <<>> => shape = <<l>> /\ own = <<l, <<>>>>
    BY <1>3
  <2>3. l > 1 /\ dim # <<>> /\ Len(dim) # 1 => shape = dim /\ own = <<l, dim>>
    BY <1>3
  <2>4. ~(l > 1) => shape = dim /\ own = <<l, dim>> /\ l = 1
    BY <1>3
  <2>5. Size(shape) = l
    <3>1. l \in Nat /\ (dim # <<>> => Size(dim) = l)
      BY <1>3
    <3> QED BY <1>3, <2>1, <2>2, <2>3, <2>4, <3>1, SizeOne, SizeEmpty
  <2> QED BY <2>1, <2>2, <2>3, <2>4, <2>5
<1> HIDE DEF Facts
<1> QED
  <2>1. PICK vd, vl, vs, vo : vd = v.dim /\ vl = Len(v.vals) /\ vs = PayloadShape(v) /\ vo = OwnShape(v)
    OBVIOUS
  <2>2. PICK wd, wl, ws, wo : wd = w.dim /\ wl = Len(w.vals) /\ ws = PayloadShape(w) /\ wo = OwnShape(w)
    OBVIOUS
  <2>3. Facts(v, vd, vl, vs, vo) /\ Facts(w, wd, wl, ws, wo)
    BY <1>1, <2>1, <2>2
  <2> QED BY <1>3, <2>1, <2>2, <2>3

\* An entry is no error.
LEMMA EntryNoStop ==
  \A kind \in {"ints", "reals", "complexes"} : \A vals, dims : EntryOf(kind, vals, dims) # Stop
<1> SUFFICES ASSUME NEW kind \in {"ints", "reals", "complexes"}, NEW vals, NEW dims
             PROVE  EntryOf(kind, vals, dims) # Stop
  OBVIOUS
<1>1. EntryOf(kind, vals, dims).kind = kind /\ Stop.kind = "stop"
  BY DEF EntryOf, Stop
<1> QED BY <1>1

\* Numbers are stored unless one of them is NA, ...
LEMMA NumericAccepts ==
  ASSUME NEW vals \in Seq(Number), NEW dims
  PROVE  StoreNumeric(vals, dims) # Stop <=> ~Has(vals, "na")
<1>1. CASE \A i \in DOMAIN vals : vals[i].sort = "whole"
  BY <1>1, EntryNoStop DEF StoreNumeric, Has
<1>2. CASE ~\A i \in DOMAIN vals : vals[i].sort = "whole"
  BY <1>2, EntryNoStop DEF StoreNumeric
<1> QED BY <1>1, <1>2

\* ... also in windows.
LEMMA ComplexAccepts ==
  ASSUME NEW vals, NEW blocks, NEW m, NEW dims, NEW enclosing, InBlocks(vals, blocks, m, dims, enclosing),
         blocks # 0
  PROVE  StoreComplex(vals, dims, enclosing) # Stop <=> ~Has(vals, "na")
<1>1. CASE Has(vals, "na")
  BY <1>1 DEF StoreComplex
<1>2. CASE ~Has(vals, "na")
  <2>1. /\ blocks \in Nat \ {0} /\ m \in Nat \ {0} /\ Len(vals) = blocks * m
        /\ ~(enclosing > Len(dims)) /\ Size(SubSeq(dims, 1, enclosing)) = blocks
    BY DEF InBlocks
  <2>2. Len(vals) % blocks = 0
    <3>1. \A x, y \in Nat \ {0} : (x * y) % x = 0
      <4> SUFFICES ASSUME NEW x \in Nat \ {0}, NEW y \in Nat \ {0} PROVE (x * y) % x = 0
        OBVIOUS
      <4>1. PICK c : c = 0 + x * y
        OBVIOUS
      <4>2. c % x = 0 /\ c \div x = y
        BY <4>1, Compose
      <4> QED BY <4>1, <4>2
    <3> QED BY <2>1, <3>1
  <2>3. \E entry : entry # Stop /\ StoreComplex(vals, dims, enclosing) = entry
    <3> DEFINE w == Len(vals) \div blocks
               windows == [i \in 1..2 * Len(vals) |->
                             IF (i - 1) % (2 * w) < w
                             THEN vals[((i - 1) \div (2 * w)) * w + ((i - 1) % (2 * w)) + 1] ELSE Padding]
    <3>1. StoreComplex(vals, dims, enclosing) = EntryOf("complexes", windows, dims \o <<2>>)
      BY <1>2, <2>1, <2>2, Zenon DEF StoreComplex
    <3> HIDE DEF windows
    <3> QED BY <3>1, EntryNoStop
  <2> QED BY <1>2, <2>3
<1> QED BY <1>1, <1>2

\* What the declaration of a leaf asks of its payloads.
Admitted(u, decl) == u.tag = "atomic" /\ u.kind \in {"int", "real", decl.kind}

\* flatten_leaf() throws where a payload is none or not of the others' shape, ...
StoredLeaf(leaf) ==
  LET shapes == [i \in DOMAIN leaf.there |-> PayloadShape(leaf.there[i])]
      vals   == FlattenSeq([i \in DOMAIN leaf.there |-> leaf.there[i].vals]) IN
  IF ~(/\ leaf.there # <<>>
       /\ \A i \in DOMAIN leaf.there : Admitted(leaf.there[i], leaf.decl)
       /\ \A i \in DOMAIN leaf.there : shapes[i] = shapes[1])
  THEN Stop
  ELSE IF leaf.decl.kind = "complex" THEN StoreComplex(vals, leaf.sizes \o shapes[1], Len(leaf.sizes))
  ELSE StoreNumeric(vals, leaf.sizes \o shapes[1])

\* What flatten_leaf() looks at, and what it makes of it.
LEMMA LeafEntryOf ==
  ASSUME NEW leaf, leaf.decl.kind \in {"int", "real", "complex"}, ~Taken(leaf.name)
  PROVE  LeafEntry(leaf) = StoredLeaf(leaf)
<1> DEFINE shapes == [i \in DOMAIN leaf.there |-> PayloadShape(leaf.there[i])]
           vals   == FlattenSeq([i \in DOMAIN leaf.there |-> leaf.there[i].vals])
<1>1. DOMAIN shapes = DOMAIN leaf.there
  OBVIOUS
<1> DEFINE kinds == IF leaf.decl.kind = "complex" THEN {"int", "real", "complex"} ELSE {"int", "real"}
<1>2. LeafEntry(leaf) =
        IF \/ Taken(leaf.name)
           \/ leaf.there = <<>>
           \/ \E i \in DOMAIN leaf.there : leaf.there[i].tag # "atomic" \/ leaf.there[i].kind \notin kinds
           \/ ~AllEqual(shapes)
        THEN Stop
        ELSE IF leaf.decl.kind = "complex" THEN StoreComplex(vals, leaf.sizes \o shapes[1], Len(leaf.sizes))
        ELSE StoreNumeric(vals, leaf.sizes \o shapes[1])
  BY Zenon DEF LeafEntry
<1>3. \A u : u.tag # "atomic" \/ u.kind \notin kinds <=> ~Admitted(u, leaf.decl)
  BY DEF Admitted
<1>4. ~AllEqual(shapes) <=> ~\A i \in DOMAIN leaf.there : shapes[i] = shapes[1]
  BY <1>1, Zenon DEF AllEqual
<1> DEFINE Bad == \/ Taken(leaf.name)
                  \/ leaf.there = <<>>
                  \/ \E i \in DOMAIN leaf.there : leaf.there[i].tag # "atomic" \/ leaf.there[i].kind \notin kinds
                  \/ ~AllEqual(shapes)
           Good == /\ leaf.there # <<>>
                   /\ \A i \in DOMAIN leaf.there : Admitted(leaf.there[i], leaf.decl)
                   /\ \A i \in DOMAIN leaf.there : shapes[i] = shapes[1]
<1>5. Bad <=> ~Good
  BY <1>3, <1>4, Zenon
<1> HIDE DEF Bad, Good
<1>6. LeafEntry(leaf) = IF Bad THEN Stop
                        ELSE IF leaf.decl.kind = "complex"
                        THEN StoreComplex(vals, leaf.sizes \o shapes[1], Len(leaf.sizes))
                        ELSE StoreNumeric(vals, leaf.sizes \o shapes[1])
  BY <1>2, Zenon DEF Bad
<1>7. LeafEntry(leaf) = IF ~Good THEN Stop
                        ELSE IF leaf.decl.kind = "complex"
                        THEN StoreComplex(vals, leaf.sizes \o shapes[1], Len(leaf.sizes))
                        ELSE StoreNumeric(vals, leaf.sizes \o shapes[1])
  BY <1>5, <1>6, Zenon
<1> QED BY <1>7, Zenon DEF Good, StoredLeaf

\* ... and otherwise unless one of their values is NA.
LEMMA LeafAccepts ==
  ASSUME NEW V, Closed(V), NEW leaf \in SlotType(V), leaf.decl.kind # "tuple", Filling(leaf),
         \A w \in V : w.tag = "atomic" => w.vals # <<>>, ~Taken(leaf.name)
  PROVE  LeafEntry(leaf) # Stop <=>
           /\ leaf.there # <<>>
           /\ \A i \in DOMAIN leaf.there : Admitted(leaf.there[i], leaf.decl) /\ ~Has(leaf.there[i].vals, "na")
           /\ \A i \in DOMAIN leaf.there : PayloadShape(leaf.there[i]) = PayloadShape(leaf.there[1])
<1> DEFINE there == leaf.there
           shapes == [i \in DOMAIN there |-> PayloadShape(there[i])]
           pieces == [i \in DOMAIN there |-> there[i].vals]
           vals   == FlattenSeq(pieces)
           dims   == leaf.sizes \o shapes[1]
           Good   == /\ there # <<>>
                     /\ \A i \in DOMAIN there : Admitted(there[i], leaf.decl)
                     /\ \A i \in DOMAIN there : shapes[i] = shapes[1]
<1>1. /\ there \in Seq(V) /\ leaf.sizes \in Seq(Nat) /\ DOMAIN there = 1..Len(there) /\ Len(there) \in Nat
      /\ leaf.decl.kind \in {"int", "real", "complex"} /\ \A i \in DOMAIN there : there[i] \in V
  <2>1. there \in Seq(V) /\ leaf.sizes \in Seq(Nat) /\ leaf.decl \in Types
    BY DEF SlotType
  <2>2. leaf.decl \in Declarations
    BY <2>1, TypesDeclare
  <2> HIDE DEF there
  <2> QED BY <2>1, <2>2 DEF Declarations
<1>2. LeafEntry(leaf) = IF ~Good THEN Stop
                        ELSE IF leaf.decl.kind = "complex" THEN StoreComplex(vals, dims, Len(leaf.sizes))
                        ELSE StoreNumeric(vals, dims)
  <2>1. LeafEntry(leaf) = StoredLeaf(leaf)
    BY <1>1, LeafEntryOf
  <2>2. StoredLeaf(leaf) = IF ~Good THEN Stop
                           ELSE IF leaf.decl.kind = "complex" THEN StoreComplex(vals, dims, Len(leaf.sizes))
                           ELSE StoreNumeric(vals, dims)
    BY Zenon DEF StoredLeaf
  <2> QED BY <2>1, <2>2, Zenon
<1>3. Good => \A i \in DOMAIN there : PayloadShape(there[i]) = PayloadShape(there[1])
  <2> SUFFICES ASSUME Good, NEW i \in DOMAIN there PROVE PayloadShape(there[i]) = PayloadShape(there[1])
    OBVIOUS
  <2>1. 1 \in DOMAIN there
    BY <1>1, EmptySeq
  <2> QED BY <2>1
<1>4. there # <<>> /\ (\A i \in DOMAIN there : PayloadShape(there[i]) = PayloadShape(there[1]))
        => \A i \in DOMAIN there : shapes[i] = shapes[1]
  <2> SUFFICES ASSUME there # <<>>, \A i \in DOMAIN there : PayloadShape(there[i]) = PayloadShape(there[1]),
                      NEW i \in DOMAIN there
               PROVE  shapes[i] = shapes[1]
    OBVIOUS
  <2>1. 1 \in DOMAIN there
    BY <1>1, EmptySeq
  <2> QED BY <2>1
<1>5. ASSUME Good PROVE LeafEntry(leaf) # Stop <=> \A i \in DOMAIN there : ~Has(there[i].vals, "na")
  <2>1. there # <<>> /\ 1 \in DOMAIN there /\ Len(there) \in Nat \ {0}
    BY <1>1, <1>5, EmptySeq
  <2>2. \A i \in DOMAIN there : /\ there[i].tag = "atomic" /\ there[i].vals \in Seq(Number)
                                /\ there[i].vals # <<>> /\ there[i].dim \in Seq(Nat)
                                /\ (there[i].dim # <<>> => Size(there[i].dim) = Len(there[i].vals))
    <3> SUFFICES ASSUME NEW i \in DOMAIN there
                 PROVE  /\ there[i].tag = "atomic" /\ there[i].vals \in Seq(Number)
                        /\ there[i].vals # <<>> /\ there[i].dim \in Seq(Nat)
                        /\ (there[i].dim # <<>> => Size(there[i].dim) = Len(there[i].vals))
      OBVIOUS
    <3>1. PICK u : u = there[i]
      OBVIOUS
    <3>2. u \in V /\ u.tag = "atomic"
      BY <1>1, <1>5, <3>1 DEF Admitted
    <3>3. u \in Atomic /\ Consistent(u)
      BY <3>2 DEF Closed, Frame, List
    <3>4. u.vals \in Seq(Number) /\ u.vals # <<>> /\ u.dim \in Seq(Nat)
          /\ (u.dim # <<>> => Size(u.dim) = Len(u.vals))
      BY <3>2, <3>3 DEF Atomic, Consistent
    <3> QED BY <3>1, <3>2, <3>4
  <2>3. /\ pieces \in Seq(Seq(Number)) /\ DOMAIN pieces = DOMAIN there /\ Len(pieces) = Len(there)
        /\ \A i \in DOMAIN there : pieces[i] = there[i].vals
    BY <1>1, <2>2
  <2>4. vals \in Seq(Number) /\ ToSet(vals) = UNION {ToSet(pieces[i]) : i \in DOMAIN pieces}
    <3> HIDE DEF pieces
    <3> QED BY <2>3, FlattenRange
  <2>5. ~Has(vals, "na") <=> \A i \in DOMAIN there : ~Has(there[i].vals, "na")
    <3> HIDE DEF pieces, vals, there
    <3>1. \A x : x \in ToSet(vals) <=> \E i \in DOMAIN there : x \in ToSet(there[i].vals)
      BY <2>3, <2>4
    <3>2. Has(vals, "na") <=> \E x \in ToSet(vals) : x.sort = "na"
      BY HasOfSet
    <3>3. \A i \in DOMAIN there : Has(there[i].vals, "na") <=> \E x \in ToSet(there[i].vals) : x.sort = "na"
      BY HasOfSet
    <3> QED BY <3>1, <3>2, <3>3, Zenon
  <2>6. PICK shape : shape = shapes[1]
    OBVIOUS
  <2>7. \A i \in DOMAIN there : shape = PayloadShape(there[i])
    BY <1>5, <2>6
  <2>8. shape \in Seq(Nat) /\ \A i \in DOMAIN there : Len(there[i].vals) = Size(shape) /\ Len(there[i].vals) \in Nat \ {0}
    <3> SUFFICES ASSUME NEW i \in DOMAIN there
                 PROVE  /\ shape \in Seq(Nat) /\ Len(there[i].vals) = Size(shape)
                        /\ Len(there[i].vals) \in Nat \ {0}
      BY <2>1
    <3>1. PICK u, l : u = there[i] /\ l = Len(u.vals)
      OBVIOUS
    <3>2. l \in Nat \ {0}
      <4>1. PICK q : q = u.vals
        OBVIOUS
      <4>2. q \in Seq(Number) /\ q # <<>>
        BY <2>2, <3>1, <4>1
      <4> QED BY <3>1, <4>1, <4>2, EmptySeq
    <3>3. shape = PayloadShape(u) /\ u.dim \in Seq(Nat) /\ (u.dim # <<>> => Size(u.dim) = l)
      BY <2>2, <2>7, <3>1
    <3>4. shape = IF u.dim # <<>> THEN u.dim ELSE IF l > 1 THEN <<l>> ELSE <<>>
      BY <3>1, <3>3, Zenon DEF PayloadShape
    <3>5. CASE u.dim # <<>>
      BY <3>1, <3>2, <3>3, <3>4, <3>5
    <3>6. CASE u.dim = <<>> /\ l > 1
      <4>1. shape = <<l>> /\ <<l>> \in Seq(Nat)
        BY <3>2, <3>4, <3>6
      <4> QED BY <3>1, <3>2, <4>1, SizeOne
    <3>7. CASE u.dim = <<>> /\ ~(l > 1)
      <4>1. shape = <<>> /\ l = 1 /\ <<>> \in Seq(Nat)
        BY <3>2, <3>4, <3>7
      <4> QED BY <3>1, <3>2, <4>1, SizeEmpty
    <3> QED BY <3>5, <3>6, <3>7
  <2> HIDE DEF shapes, there
  <2>9. CASE leaf.decl.kind # "complex"
    <3>1. LeafEntry(leaf) = StoreNumeric(vals, dims)
      BY <1>2, <1>5, <2>9
    <3> HIDE DEF vals, dims
    <3> QED BY <2>4, <2>5, <3>1, NumericAccepts
  <2>10. CASE leaf.decl.kind = "complex"
    <3>1. LeafEntry(leaf) = StoreComplex(vals, dims, Len(leaf.sizes))
      BY <1>2, <1>5, <2>10
    <3>2. dims = leaf.sizes \o shape
      BY <2>6
    <3> HIDE DEF vals, dims, pieces
    <3>3. PICK m : m = Size(shape)
      OBVIOUS
    <3>4. m \in Nat \ {0}
      BY <2>1, <2>8, <3>3
    <3>5. Len(vals) = Len(there) * m
      <4>1. \A i \in DOMAIN pieces : Len(pieces[i]) = m
        BY <2>3, <2>8, <3>3
      <4> QED BY <2>3, <3>4, <4>1, FlattenLen DEF vals
    <3>6. /\ dims \in Seq(Nat) /\ Len(leaf.sizes) \in Nat /\ ~(Len(leaf.sizes) > Len(dims))
          /\ SubSeq(dims, 1, Len(leaf.sizes)) = leaf.sizes
      <4>1. PICK s : s = leaf.sizes
        OBVIOUS
      <4>2. s \in Seq(Nat) /\ dims = s \o shape
        BY <1>1, <3>2, <4>1
      <4>3. dims \in Seq(Nat) /\ Len(dims) = Len(s) + Len(shape) /\ Len(s) \in Nat /\ Len(shape) \in Nat
        BY <2>8, <4>2
      <4>4. SubSeq(dims, 1, Len(s)) = s
        BY <2>8, <4>2, SubSeqConcat
      <4> QED BY <4>1, <4>3, <4>4
    <3>7. Len(there) = Size(leaf.sizes)
      BY DEF Filling, there
    <3>8. InBlocks(vals, Len(there), m, dims, Len(leaf.sizes))
      BY <1>1, <2>4, <3>4, <3>5, <3>6, <3>7 DEF InBlocks
    <3>9. StoreComplex(vals, dims, Len(leaf.sizes)) # Stop <=> ~Has(vals, "na")
      BY <2>1, <3>8, ComplexAccepts
    <3> QED BY <2>5, <3>1, <3>9
  <2> QED BY <2>9, <2>10
<1>6. ~Good => LeafEntry(leaf) = Stop
  <2> HIDE DEF Good
  <2> QED BY <1>2
<1>7. Good <=> /\ there # <<>>
               /\ \A i \in DOMAIN there : Admitted(there[i], leaf.decl)
               /\ \A i \in DOMAIN there : PayloadShape(there[i]) = PayloadShape(there[1])
  <2> HIDE DEF shapes
  <2> QED BY <1>3, <1>4
<1> HIDE DEF Good
<1> QED BY <1>5, <1>6, <1>7

\* flatten_leaf() throws exactly where the slot is not regular.
LEMMA LeafRegular ==
  ASSUME NEW V, Closed(V), NEW leaf \in SlotType(V), leaf.decl.kind # "tuple", Filling(leaf),
         \A w \in V : w.tag = "atomic" => w.vals # <<>>, ~Taken(leaf.name)
  PROVE  LeafEntry(leaf) # Stop <=> RegularSlot(leaf)
<1> DEFINE column == Column(ToSet(leaf.there), leaf.decl)
<1>1. PICK there, decl : there = leaf.there /\ decl = leaf.decl
  OBVIOUS
<1>2. there \in Seq(V) /\ DOMAIN there = 1..Len(there) /\ decl \in Declarations /\ decl.kind # "tuple"
      /\ \A i \in DOMAIN there : there[i] \in V
  <2>1. there \in Seq(V) /\ decl \in Types
    BY <1>1 DEF SlotType
  <2>2. decl \in Declarations
    BY <2>1, TypesDeclare
  <2> QED BY <1>1, <2>1, <2>2
<1>3. LeafEntry(leaf) # Stop <=>
        /\ there # <<>>
        /\ \A i \in DOMAIN there : Admitted(there[i], decl) /\ ~Has(there[i].vals, "na")
        /\ \A i \in DOMAIN there : PayloadShape(there[i]) = PayloadShape(there[1])
  BY <1>1, LeafAccepts
<1>4. CASE there = <<>>
  BY <1>1, <1>3, <1>4 DEF RegularSlot
<1>5. CASE there # <<>>
  <2>1. 1 \in DOMAIN there
    BY <1>2, <1>5, EmptySeq
  <2>2. \A u : u \in ToSet(there) <=> \E i \in DOMAIN there : u = there[i]
    BY DEF ToSet
  <2>3. column.values = ToSet(there) /\ column.type = decl /\ IsColumn(column, V)
    <3>1. ToSet(there) \subseteq V /\ ToSet(there) # {}
      BY <1>2, <2>1, <2>2
    <3> QED BY <1>1, <1>2, <3>1 DEF Column, IsColumn
  <2> HIDE DEF column
  <2>4. ~IsArray(decl) /\ ~IsTuple(decl)
    BY <1>2 DEF IsArray, IsTuple
  <2>5. Parts(column) = {}
    BY <2>3, <2>4, Zenon DEF Parts
  <2>6. RegularColumn(column) <=> Sound(column)
    <3>1. RegularColumn(column) <=> Sound(column) /\ \A b \in Parts(column) : RegularColumn(b)
      BY <2>3, RegularParts
    <3> QED BY <2>5, <3>1
  <2>7. Sound(column) <=> /\ \A u \in ToSet(there) : Admitted(u, decl) /\ ~Has(u.vals, "na")
                          /\ \A u, w \in ToSet(there) : OwnShape(u) = OwnShape(w)
    <3>1. Sound(column) <=>
            /\ \A u \in ToSet(there) : u.tag = "atomic" /\ u.kind \in {"int", "real", decl.kind} /\ ~Has(u.vals, "na")
            /\ \A u, w \in ToSet(there) : OwnShape(u) = OwnShape(w)
      BY <1>2, <2>3, <2>4, Zenon DEF Sound
    <3>2. \A u : Admitted(u, decl) <=> u.tag = "atomic" /\ u.kind \in {"int", "real", decl.kind}
      BY Zenon DEF Admitted
    <3> QED BY <3>1, <3>2, Zenon
  <2>8. (\A u \in ToSet(there) : Admitted(u, decl) /\ ~Has(u.vals, "na"))
          <=> \A i \in DOMAIN there : Admitted(there[i], decl) /\ ~Has(there[i].vals, "na")
    BY <2>2
  <2>9. ASSUME \A i \in DOMAIN there : Admitted(there[i], decl)
        PROVE  (\A u, w \in ToSet(there) : OwnShape(u) = OwnShape(w))
                 <=> \A i \in DOMAIN there : PayloadShape(there[i]) = PayloadShape(there[1])
    <3>1. \A i \in DOMAIN there : there[i] \in V /\ there[i].tag = "atomic" /\ there[i].vals # <<>>
      BY <1>2, <2>9 DEF Admitted
    <3>2. \A i, j \in DOMAIN there :
            PayloadShape(there[i]) = PayloadShape(there[j]) <=> OwnShape(there[i]) = OwnShape(there[j])
      <4> SUFFICES ASSUME NEW i \in DOMAIN there, NEW j \in DOMAIN there
                   PROVE  PayloadShape(there[i]) = PayloadShape(there[j]) <=> OwnShape(there[i]) = OwnShape(there[j])
        OBVIOUS
      <4>1. PICK u, w : u = there[i] /\ w = there[j]
        OBVIOUS
      <4>2. u \in V /\ w \in V /\ u.tag = "atomic" /\ w.tag = "atomic" /\ u.vals # <<>> /\ w.vals # <<>>
        BY <3>1, <4>1
      <4> QED BY <4>1, <4>2, SameShape
    <3>3. (\A u, w \in ToSet(there) : OwnShape(u) = OwnShape(w))
            <=> \A i, j \in DOMAIN there : OwnShape(there[i]) = OwnShape(there[j])
      BY <2>2
    <3>4. (\A i, j \in DOMAIN there : OwnShape(there[i]) = OwnShape(there[j]))
            <=> \A i \in DOMAIN there : OwnShape(there[i]) = OwnShape(there[1])
      BY <2>1
    <3>5. (\A i \in DOMAIN there : OwnShape(there[i]) = OwnShape(there[1]))
            <=> \A i \in DOMAIN there : PayloadShape(there[i]) = PayloadShape(there[1])
      BY <2>1, <3>2
    <3> QED BY <3>3, <3>4, <3>5
  <2>10. RegularSlot(leaf) <=> RegularColumn(column)
    BY <1>1, <1>5 DEF RegularSlot, column
  <2> QED BY <1>3, <1>5, <2>6, <2>7, <2>8, <2>9, <2>10
<1> QED BY <1>4, <1>5

\* Names that part do so whatever is added to them, ...
LEMMA ApartAppend ==
  ASSUME NEW p \in Seq(Nat), NEW q, Apart(p, q), NEW s \in Nat
  PROVE  Apart(Append(p, s), q) /\ Apart(q, Append(p, s)) /\ Apart(q, p)
<1>1. PICK k \in DOMAIN p \cap DOMAIN q : p[k] # q[k]
  BY DEF Apart
<1>2. k \in DOMAIN Append(p, s) /\ Append(p, s)[k] = p[k]
  BY <1>1
<1> QED BY <1>1, <1>2 DEF Apart

\* ... two slots of a name part, ...
LEMMA ApartSlots ==
  ASSUME NEW p \in Seq(Nat), NEW s \in Nat, NEW t \in Nat, s # t
  PROVE  Apart(Append(p, s), Append(p, t))
<1>1. PICK q, r : q = Append(p, s) /\ r = Append(p, t)
  OBVIOUS
<1>2. Len(p) + 1 \in DOMAIN q \cap DOMAIN r /\ q[Len(p) + 1] = s /\ r[Len(p) + 1] = t
  BY <1>1
<1> QED BY <1>1, <1>2 DEF Apart

\* ... and the first name goes where it parts from the others, ...
LEMMA ApartTail ==
  ASSUME NEW D, NEW p \in Seq(D), p # <<>>, NEW stored, ApartNames(p, stored)
  PROVE  ApartNames(Tail(p), stored \cup {Head(p).name})
<1>1. /\ Head(p) = p[1] /\ Len(p) \in Nat \ {0} /\ DOMAIN p = 1..Len(p)
      /\ DOMAIN Tail(p) = 1..Len(p) - 1 /\ \A i \in 1..Len(p) - 1 : Tail(p)[i] = p[i + 1]
  BY EmptySeq
<1>2. PICK q : q = Tail(p)
  OBVIOUS
<1>3. \A i \in DOMAIN q : i + 1 \in DOMAIN p /\ i + 1 # 1 /\ 1 \in DOMAIN p /\ q[i] = p[i + 1]
  BY <1>1, <1>2
<1>4. \A i, j \in DOMAIN q : i # j => i + 1 # j + 1
  BY <1>1, <1>2
<1>5. \A i, j \in DOMAIN q : i # j => Apart(q[i].name.slots, q[j].name.slots)
  BY <1>3, <1>4 DEF ApartNames
<1>6. \A i \in DOMAIN q : Apart(Head(p).name.slots, q[i].name.slots)
  BY <1>1, <1>3 DEF ApartNames
<1>7. \A i \in DOMAIN q : \A n \in stored : Apart(n.slots, q[i].name.slots)
  BY <1>3 DEF ApartNames
<1> QED BY <1>2, <1>5, <1>6, <1>7 DEF ApartNames

\* ... or gives way to those of its slots.
LEMMA ApartDots ==
  ASSUME NEW D, NEW p \in Seq(D), p # <<>>, NEW stored, ApartNames(p, stored), Head(p).name \in Names,
         NEW slots \in Seq(D), \A s \in DOMAIN slots : slots[s].name = Dot(Head(p).name, s)
  PROVE  ApartNames(slots \o Tail(p), stored)
<1>1. PICK q, x, m, all : /\ q = Tail(p) /\ x = Head(p).name.slots /\ m = Len(slots) /\ all = slots \o Tail(p)
  OBVIOUS
<1>2. q \in Seq(D) /\ slots \in Seq(D) /\ m \in Nat /\ Len(q) \in Nat /\ x \in Seq(Nat)
  <2>1. q \in Seq(D)
    BY <1>1, HeadAndTail
  <2>2. x \in Seq(Nat)
    BY <1>1 DEF Names
  <2> QED BY <1>1, <2>1, <2>2
<1>3. ApartNames(q, stored \cup {Head(p).name})
  BY <1>1, ApartTail
<1>4. \A s \in 1..m : slots[s].name.slots = Append(x, s) /\ s \in Nat
  <2>1. \A s : Dot(Head(p).name, s).slots = Append(x, s)
    BY <1>1 DEF Dot, Names
  <2>2. DOMAIN slots = 1..m
    BY <1>1, <1>2
  <2> QED BY <2>1, <2>2
<1>5. /\ DOMAIN all = 1..m + Len(q)
      /\ \A i \in 1..m : all[i] = slots[i]
      /\ \A i \in DOMAIN all : i \in 1..m \/ (i - m \in DOMAIN q /\ all[i] = q[i - m])
  <2>1. all = slots \o q /\ DOMAIN q = 1..Len(q)
    BY <1>1, <1>2
  <2>2. /\ DOMAIN all = 1..m + Len(q)
        /\ \A i \in 1..m + Len(q) : all[i] = IF i <= m THEN slots[i] ELSE q[i - m]
    BY <1>1, <1>2, <2>1, ConcatProperties
  <2>3. \A i \in 1..m : i \in 1..m + Len(q) /\ i <= m
    BY <1>2
  <2>4. \A i \in 1..m + Len(q) : i \in 1..m \/ (~(i <= m) /\ i - m \in 1..Len(q))
    BY <1>2
  <2>5. \A i \in 1..m : all[i] = slots[i]
    BY <2>2, <2>3
  <2> QED BY <2>1, <2>2, <2>4, <2>5
<1>6. \A j \in DOMAIN q : Apart(x, q[j].name.slots)
  BY <1>1, <1>3 DEF ApartNames
<1>7. \A s \in 1..m : \A j \in DOMAIN q :
        Apart(slots[s].name.slots, q[j].name.slots) /\ Apart(q[j].name.slots, slots[s].name.slots)
  BY <1>2, <1>4, <1>6, ApartAppend
<1>8. \A s, t \in 1..m : s # t => Apart(slots[s].name.slots, slots[t].name.slots)
  BY <1>2, <1>4, ApartSlots
<1>9. ASSUME NEW i \in DOMAIN all, NEW j \in DOMAIN all, i # j
      PROVE  Apart(all[i].name.slots, all[j].name.slots)
  <2>1. CASE i \in 1..m /\ j \in 1..m
    BY <1>5, <1>8, <1>9, <2>1
  <2>2. CASE i \in 1..m /\ j \notin 1..m
    BY <1>5, <1>7, <2>2
  <2>3. CASE i \notin 1..m /\ j \in 1..m
    BY <1>5, <1>7, <2>3
  <2>4. CASE i \notin 1..m /\ j \notin 1..m
    <3>1. i - m \in DOMAIN q /\ j - m \in DOMAIN q /\ all[i] = q[i - m] /\ all[j] = q[j - m]
      BY <1>5, <2>4
    <3>2. i - m # j - m
      BY <1>2, <1>5, <1>9
    <3> QED BY <1>3, <3>1, <3>2 DEF ApartNames
  <2> QED BY <2>1, <2>2, <2>3, <2>4
<1>10. ASSUME NEW i \in DOMAIN all, NEW n \in stored PROVE Apart(n.slots, all[i].name.slots)
  <2>1. CASE i \in 1..m
    <3>1. 1 \in DOMAIN p /\ Head(p) = p[1]
      BY EmptySeq
    <3>2. Apart(n.slots, x)
      BY <1>1, <3>1 DEF ApartNames
    <3>3. PICK r : r = n.slots
      OBVIOUS
    <3>4. Apart(x, r)
      BY <3>2, <3>3 DEF Apart
    <3>5. Apart(r, Append(x, i))
      BY <1>2, <1>4, <2>1, <3>4, ApartAppend
    <3> QED BY <1>4, <1>5, <2>1, <3>3, <3>5
  <2>2. CASE i \notin 1..m
    BY <1>3, <1>5, <2>2 DEF ApartNames
  <2> QED BY <2>1, <2>2
<1> QED BY <1>1, <1>9, <1>10 DEF ApartNames

\* Once it throws, flatten_recurse() finds no slots.
LEMMA ThrowsUnpackNothing ==
  ASSUME FlattenTuple, status' = "stopped",
         NEW arrays, NEW inner, NEW elements, NEW slots, Unpacks(Head(pending), arrays, inner, elements, slots)
  PROVE  FALSE
<1>1. /\ arrays = [i \in DOMAIN Head(pending).there |-> Unnest(Head(pending).there[i], Head(pending).decl.dims)]
      /\ inner = IF arrays = <<>> THEN <<>> ELSE arrays[1].sizes
      /\ elements = FlattenSeq([i \in DOMAIN arrays |-> arrays[i].elements])
      /\ \A i \in DOMAIN arrays : arrays[i].regular /\ arrays[i].sizes = inner
      /\ \A i \in DOMAIN elements :
           IsUnnamedList(elements[i]) /\ Len(elements[i].items) = Len(Head(pending).decl.slots)
  BY Zenon DEF Unpacks
<1>2. status' = status
  BY <1>1, Zenon DEF FlattenTuple
<1>3. status = "adding"
  BY DEF FlattenTuple, Flattening
<1> QED BY <1>2, <1>3

\* A list that is the only element, and is taken up.
LEMMA SingleStart ==
  ASSUME TypeInv, NamesInv, Single, AddTuple
  PROVE  Accepting(pending', DOMAIN values_') /\ status' = "adding"
<1>1. More /\ status = "adding" /\ at + 1 \in 1..Len(input) /\ Len(input) = 1 /\ at \in Nat
  BY ElementFacts DEF AddTuple, More, Single
<1>2. at = 0 /\ Element = input[1]
  <2>1. at = 0
    BY <1>1
  <2> QED BY <2>1 DEF Element
<1>3. DOMAIN values_ = {}
  <2>1. \A n \in DOMAIN values_ : \E i \in 1..at : Owns(input[i], n)
    BY <1>1 DEF NamesInv
  <2> QED BY <1>2, <2>1
<1>4. PICK slot : slot = Slot(Element.name, <<Element.value>>, <<>>, Decls[Element.name])
  OBVIOUS
<1>5. pending' = <<slot>> /\ values_' = values_ /\ status' = "adding"
  BY <1>1, <1>4 DEF AddTuple
<1>6. slot.there = <<input[1].value>> /\ slot.decl = Decls[input[1].name]
  BY <1>2, <1>4 DEF Slot
<1>7. ApartNames(<<slot>>, {})
  <2>1. \A i, j \in DOMAIN <<slot>> : i = j
    OBVIOUS
  <2> QED BY <2>1 DEF ApartNames
<1>8. RegularSlot(slot) <=> RegularInput
  <2>1. \A x : ToSet(<<x>>) = {x} /\ <<x>> # <<>>
    BY DEF ToSet
  <2>2. slot.there # <<>> /\ ToSet(slot.there) = {input[1].value}
    BY <1>6, <2>1
  <2> QED BY <1>6, <2>2, Zenon DEF RegularSlot, RegularInput, Regular
<1>9. ToSet(<<slot>>) = {slot}
  BY DEF ToSet
<1> QED BY <1>3, <1>5, <1>7, <1>8, <1>9 DEF Accepting

\* The only list has been taken up and is being flattened.
LEMMA SingleFlattening ==
  ASSUME TypeInv, NamesInv, LengthsInv, Single, Flattening
  PROVE  /\ at = 1 /\ status = "adding" /\ pending # <<>> /\ pending \in Seq(SlotType(Values(at)))
         /\ Closed(Values(at)) /\ Head(pending) \in SlotType(Values(at))
         /\ ToSet(pending) = {Head(pending)} \cup ToSet(Tail(pending))
         /\ Filling(Head(pending)) /\ \A w \in Values(at) : w.tag = "atomic" => w.vals # <<>>
         /\ Head(pending).decl.kind # "tuple" => Head(pending).name \notin reserved_names_
<1>1. status = "adding" /\ pending # <<>>
  BY DEF Flattening
<1>2. /\ at \in DOMAIN input /\ Closed(Values(at)) /\ Head(pending) \in SlotType(Values(at))
      /\ ToSet(pending) = {Head(pending)} \cup ToSet(Tail(pending))
  BY <1>1, PendingSlots
<1>3. DOMAIN input = 1..1 /\ input[1].value.tag = "list" /\ input[1].name \in DOMAIN Decls /\ NoEmptyPayload
  BY InputLen DEF Single
<1>4. at = 1
  BY <1>2, <1>3
<1>5. \A w \in Values(at) : w.tag = "atomic" => w.vals # <<>>
  BY <1>2, <1>3, <1>4, NotEmpty
<1>6. Filling(Head(pending))
  BY <1>2 DEF LengthsInv
<1>7. ASSUME Head(pending).decl.kind # "tuple" PROVE Head(pending).name \notin reserved_names_
  <2>1. reserved_names_ = {input[i].name : i \in DOMAIN input}
    BY <1>1 DEF NamesInv
  <2>2. Dotted(Head(pending).name)
    BY <1>1, <1>2, <1>7 DEF NamesInv
  <2>3. ~Dotted(input[1].name)
    BY <1>3, DataAssumption
  <2>4. \A i \in DOMAIN input : i = 1
    BY <1>3
  <2> QED BY <2>1, <2>2, <2>3, <2>4
<1>8. pending \in Seq(SlotType(Values(at)))
  BY <1>1 DEF TypeInv
<1> QED BY <1>1, <1>2, <1>4, <1>5, <1>6, <1>7, <1>8

\* flatten_leaf() throws where the list is not regular, and decides on one slot.
LEMMA SingleLeaf ==
  ASSUME TypeInv, NamesInv, LengthsInv, Single, Accepting(pending, DOMAIN values_), FlattenLeaf
  PROVE  \/ status' = "stopped" /\ ~RegularInput
         \/ status' = "adding" /\ Accepting(pending', DOMAIN values_')
<1> PICK leaf, V : leaf = Head(pending) /\ V = Values(at)
  OBVIOUS
<1>1. /\ status = "adding" /\ pending # <<>> /\ pending \in Seq(SlotType(V))
      /\ Closed(V) /\ leaf \in SlotType(V) /\ ToSet(pending) = {leaf} \cup ToSet(Tail(pending))
      /\ Filling(leaf) /\ \A w \in V : w.tag = "atomic" => w.vals # <<>>
      /\ leaf.decl.kind # "tuple" /\ leaf.name \notin reserved_names_
  <2>1. Flattening /\ leaf.decl.kind # "tuple"
    BY DEF FlattenLeaf
  <2> QED BY <2>1, SingleFlattening
<1>2. ~Taken(leaf.name)
  <2>1. \A n \in DOMAIN values_ : Apart(n.slots, leaf.name.slots)
    <3>1. 1 \in DOMAIN pending /\ leaf = pending[1]
      BY <1>1, EmptySeq
    <3> QED BY <3>1 DEF Accepting, ApartNames
  <2>2. leaf.name \notin DOMAIN values_
    BY <2>1 DEF Apart
  <2> QED BY <1>1, <2>2 DEF Taken
<1>3. LeafEntry(leaf) # Stop <=> RegularSlot(leaf)
  BY <1>1, <1>2, LeafRegular
<1>4. PICK entry : entry = LeafEntry(leaf)
  OBVIOUS
<1>5. IF entry = Stop THEN Throw
      ELSE Emplace(leaf.name, entry) /\ pending' = Tail(pending) /\ UNCHANGED at
  BY <1>4, Zenon DEF FlattenLeaf
<1>6. CASE entry = Stop
  <2>1. status' = "stopped"
    BY <1>5, <1>6 DEF Throw
  <2>2. ~RegularInput
    BY <1>1, <1>3, <1>4, <1>6 DEF Accepting
  <2> QED BY <2>1, <2>2
<1>7. CASE entry # Stop
  <2>1. Emplace(leaf.name, entry) /\ pending' = Tail(pending)
    BY <1>5, <1>7
  <2>2. DOMAIN values_' = DOMAIN values_ \cup {leaf.name} /\ status' = status
    BY <2>1, Emplaced
  <2>3. ApartNames(Tail(pending), DOMAIN values_ \cup {leaf.name})
    BY <1>1, ApartTail DEF Accepting
  <2>4. RegularInput <=> \A slot \in ToSet(Tail(pending)) : RegularSlot(slot)
    BY <1>1, <1>3, <1>4, <1>7 DEF Accepting
  <2> QED BY <1>1, <2>1, <2>2, <2>3, <2>4 DEF Accepting
<1> QED BY <1>6, <1>7

\* The slots of the elements of a slot are named after it.
LEMMA SlotNames ==
  ASSUME NEW V, Closed(V), NEW slot \in SlotType(V), NEW arrays, NEW inner, NEW elements, NEW slots,
         Unpacks(slot, arrays, inner, elements, slots)
  PROVE  slots \in Seq(SlotType(V)) /\ \A s \in DOMAIN slots : slots[s].name = Dot(slot.name, s)
<1> DEFINE n == Len(slot.decl.slots)
<1> PICK pieces : pieces = [i \in DOMAIN arrays |-> arrays[i].elements]
  OBVIOUS
<1>1. slots \in Seq(SlotType(V)) /\ DOMAIN slots = 1..n
  BY Unpacked
<1>2. \A s \in 1..n : IsSlot(slots[s], s, slot, inner, elements, V)
  BY Unpacked
<1> HIDE DEF n
<1>3. \A s \in 1..n : slots[s].name = Dot(slot.name, s)
  BY <1>2 DEF IsSlot
<1> QED BY <1>1, <1>3

\* flatten_recurse() on a tuple throws only then, and passes the question on.
LEMMA SingleTuple ==
  ASSUME TypeInv, NamesInv, LengthsInv, Single, Accepting(pending, DOMAIN values_), FlattenTuple
  PROVE  \/ status' = "stopped" /\ ~RegularInput
         \/ status' = "adding" /\ Accepting(pending', DOMAIN values_')
<1> PICK slot, V : slot = Head(pending) /\ V = Values(at)
  OBVIOUS
<1>1. /\ status = "adding" /\ pending # <<>> /\ pending \in Seq(SlotType(V))
      /\ Closed(V) /\ slot \in SlotType(V) /\ ToSet(pending) = {slot} \cup ToSet(Tail(pending))
      /\ slot.decl.kind = "tuple"
  <2>1. Flattening /\ slot.decl.kind = "tuple"
    BY DEF FlattenTuple
  <2> QED BY <2>1, SingleFlattening
<1>2. CASE Throw
  <2>1. status' = "stopped"
    BY <1>2 DEF Throw
  <2>2. ~RegularSlot(slot)
    <3> SUFFICES ASSUME RegularSlot(slot) PROVE FALSE
      OBVIOUS
    <3>1. PICK arrays, inner, elements, slots : Unpacks(slot, arrays, inner, elements, slots)
      BY <1>1, RegularUnpacks
    <3> QED BY <2>1, <3>1, ThrowsUnpackNothing
  <2>3. ~RegularInput
    BY <1>1, <2>2 DEF Accepting
  <2> QED BY <2>1, <2>3
<1>3. ASSUME NEW arrays, NEW inner, NEW elements, NEW slots, Unpacks(slot, arrays, inner, elements, slots),
             pending' = slots \o Tail(pending), UNCHANGED <<input, at, reserved_names_, values_, status>>
      PROVE  status' = "adding" /\ Accepting(pending', DOMAIN values_')
  <2>1. RegularSlot(slot) <=> \A s \in DOMAIN slots : RegularSlot(slots[s])
    BY <1>1, <1>3, TupleRegular
  <2>2. slots \in Seq(SlotType(V)) /\ \A s \in DOMAIN slots : slots[s].name = Dot(slot.name, s)
    BY <1>1, <1>3, SlotNames
  <2>3. slot.name \in Names
    BY <1>1 DEF SlotType
  <2>4. ApartNames(slots \o Tail(pending), DOMAIN values_)
    <3>1. PICK D, p, stored : D = SlotType(V) /\ p = pending /\ stored = DOMAIN values_
      OBVIOUS
    <3>2. /\ p \in Seq(D) /\ p # <<>> /\ ApartNames(p, stored) /\ Head(p).name \in Names
          /\ slots \in Seq(D) /\ \A s \in DOMAIN slots : slots[s].name = Dot(Head(p).name, s)
      BY <1>1, <2>2, <2>3, <3>1 DEF Accepting
    <3>3. ApartNames(slots \o Tail(p), stored)
      BY <3>2, ApartDots
    <3> QED BY <3>1, <3>3
  <2>5. ToSet(slots \o Tail(pending)) = ToSet(slots) \cup ToSet(Tail(pending))
    BY <1>1, <2>2, NewSlots
  <2>6. (\A s \in DOMAIN slots : RegularSlot(slots[s])) <=> \A t \in ToSet(slots) : RegularSlot(t)
    BY DEF ToSet
  <2>7. RegularInput <=> \A t \in ToSet(slots \o Tail(pending)) : RegularSlot(t)
    BY <1>1, <2>1, <2>5, <2>6 DEF Accepting
  <2> QED BY <1>1, <1>3, <2>4, <2>7 DEF Accepting
<1>4. \/ Throw
      \/ \E arrays, inner, elements, slots :
           /\ Unpacks(Head(pending), arrays, inner, elements, slots)
           /\ pending' = slots \o Tail(pending)
           /\ UNCHANGED <<input, at, reserved_names_, values_, status>>
  BY UnpackStep
<1> QED BY <1>2, <1>3, <1>4, Zenon

\* What is declared and supplied alone stays so.
LEMMA SingleStays ==
  ASSUME input' = input
  PROVE  (Single' <=> Single) /\ (RegularInput' <=> RegularInput)
<1>1. Single' <=> Single
  BY DEF Single, NoEmptyPayload
<1>2. RegularInput' <=> RegularInput
  BY DEF RegularInput
<1> QED BY <1>1, <1>2

\* Steps that find something else than a list for a tuple.
LEMMA SingleIsList ==
  ASSUME TypeInv, Single
  PROVE  ~NamesThrow /\ ~AddPlain /\ ~ListThrows
<1>1. DOMAIN input = 1..1 /\ input[1].value.tag = "list" /\ input[1].name \in DOMAIN Decls
  BY InputLen DEF Single
<1>2. input[1].name.base # ""
  BY <1>1, TupleAssumption
<1>3. ~NamesThrow
  <2>1. \A i \in DOMAIN input : i = 1
    BY <1>1
  <2>2. \A i \in DOMAIN input : input[i].name.base # ""
    BY <1>2, <2>1, Zenon
  <2>3. \A i, j \in DOMAIN input : i = j
    BY <2>1, Zenon
  <2> QED BY <2>2, <2>3, Zenon DEF NamesThrow
<1>4. ASSUME More PROVE Element = input[1]
  <2>1. at + 1 \in DOMAIN input
    BY <1>4, ElementFacts
  <2>2. at + 1 = 1
    BY <1>1, <2>1
  <2> QED BY <2>2 DEF Element
<1>5. ~AddPlain
  BY <1>1, <1>4 DEF AddPlain
<1>6. ~ListThrows
  BY <1>1, <1>4 DEF ListThrows
<1> QED BY <1>3, <1>5, <1>6

\* No step throws for a regular list, or goes on to the end with another.
LEMMA AcceptNext ==
  ASSUME TypeInv, NamesInv, LengthsInv, AcceptInv, [Next]_vars
  PROVE  AcceptInv'
<1> SUFFICES ASSUME Single'
             PROVE  /\ status' = "adding" /\ at' = 1 => Accepting(pending, DOMAIN values_)'
                    /\ status' = "built" => RegularInput'
                    /\ status' = "stopped" => ~RegularInput'
  BY DEF AcceptInv
<1>1. input' = input
  BY DEF Next, CheckNames, NamesThrow, AddPlain, AddTuple, ListThrows, FlattenLeaf, FlattenTuple, Finish,
         Throw, Emplace, vars
<1>2. Single /\ (RegularInput' <=> RegularInput)
  BY <1>1, SingleStays
<1>3. /\ status = "adding" /\ at = 1 => Accepting(pending, DOMAIN values_)
      /\ status = "built" => RegularInput
      /\ status = "stopped" => ~RegularInput
  BY <1>2 DEF AcceptInv
<1>10. Accepting(pending, DOMAIN values_)' <=> Accepting(pending', DOMAIN values_')
  BY <1>2 DEF Accepting
<1>4. CASE UNCHANGED vars
  BY <1>2, <1>3, <1>4, <1>10 DEF vars
<1>5. CASE CheckNames
  <2>1. status' = "adding" /\ at' = 0
    <3>1. status = "names" /\ status' = "adding" /\ at' = at
      BY <1>5 DEF CheckNames
    <3>2. status = "names" => at = 0
      BY DEF TypeInv
    <3> QED BY <3>1, <3>2
  <2> QED BY <2>1
<1>6. CASE AddTuple
  BY <1>2, <1>10, <1>6, SingleStart
<1>7. CASE FlattenLeaf
  <2>1. status = "adding" /\ at = 1
    BY <1>2, <1>7, SingleFlattening DEF FlattenLeaf
  <2> QED BY <1>2, <1>10, <1>3, <1>7, <2>1, SingleLeaf
<1>8. CASE FlattenTuple
  <2>1. status = "adding" /\ at = 1
    BY <1>2, <1>8, SingleFlattening DEF FlattenTuple
  <2> QED BY <1>2, <1>10, <1>3, <1>8, <2>1, SingleTuple
<1>9. CASE Finish
  <2>1. status = "adding" /\ at = 1 /\ pending = <<>> /\ status' = "built"
    BY <1>2, <1>9 DEF Finish, Single
  <2>2. ToSet(pending) = {}
    BY <2>1 DEF ToSet
  <2>3. RegularInput
    BY <1>3, <2>1, <2>2 DEF Accepting
  <2> QED BY <1>2, <2>1, <2>3
<1> QED BY <1>2, <1>4, <1>5, <1>6, <1>7, <1>8, <1>9, SingleIsList DEF Next

\* The constructor accepts a list for a tuple that is supplied alone exactly when
\* it is a value of the declared type, however deep the arrays in it are nested:
\* tuple_array_shape(), flatten_recurse() and flatten_leaf() throw at the first
\* thing that is not, and at nothing else.
THEOREM AcceptTheorem == Spec => []AcceptedIffRegular
<1>1. Init => DataInv /\ AcceptInv
  <2> SUFFICES ASSUME Init, Single PROVE status = "names"
    BY DataInit DEF AcceptInv
  <2>1. input # <<>>
    <3>1. Len(input) = 1 /\ Len(<<>>) = 0
      BY DEF Single
    <3> QED BY <3>1
  <2> QED BY <2>1 DEF Init
<1>2. DataInv /\ AcceptInv /\ [Next]_vars => DataInv' /\ AcceptInv'
  BY DataNext, AcceptNext DEF DataInv
<1>3. AcceptInv => AcceptedIffRegular
  BY DEF AcceptInv, Single, RegularInput, Built, AcceptedIffRegular
<1> QED BY <1>1, <1>2, <1>3, PTL DEF Spec
=============================================================================
