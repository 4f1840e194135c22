-------------------------- MODULE StanliModelProofs --------------------------
(***************************************************************************)
(* What StanliModel promises, for any number of threads, points and        *)
(* columns.                                                                *)
(***************************************************************************)
EXTENDS StanliModel, FiniteSetTheorems, TLAPS

LEMMA CallType ==
  /\ NoCall \notin AllCalls
  /\ \A c \in AllCalls : c.op \in {"density", "write_array"} /\ c.q \in Points \cup {WrongSize}
  /\ \A c \in AllCalls \cup {NoCall} : PoolOf(c) \in Pools
BY DEF NoCall, AllCalls, Density, Rows, PoolOf, Pools

\* The variables of the calls, apart from the executors.
CallsOK ==
  /\ write_array \in {"interp", "graph", "none"} /\ variant \in 0..4
  /\ n_tp_start_ \in Nat /\ n_gq_start_ \in Nat /\ torn \in BOOLEAN
  /\ cols_ \in Seq(STRING) /\ columns_ \in Seq(STRING)
  /\ call \in [Threads -> AllCalls \cup {NoCall}]
  /\ pc \in [Threads -> {"idle", "acquire", "clone", "return"} \cup Holding]
  /\ \A t \in Threads : call[t] = NoCall <=> pc[t] = "idle"

LEMMA CallsStep ==
  ASSUME CallsOK, NEW t \in Threads, Begin(t) \/ Evaluate(t)
  PROVE  CallsOK'
<1>1. UNCHANGED buildVars
  BY DEF Begin, Evaluate, RefuseSize, TakeFree, NoneFree, Clone, Load, SizeThrows,
     Forward, ForwardThrows, GiveBack, Return
<1>2. CASE Begin(t)
  BY <1>1, <1>2, CallType DEF CallsOK, Begin, Goto, buildVars
<1>3. CASE Return(t)
  BY <1>1, <1>3, CallType DEF CallsOK, Return, Goto, buildVars
<1>4. CASE Evaluate(t) /\ ~Return(t)
  <2>1. call' = call
    BY <1>4 DEF Evaluate, RefuseSize, TakeFree, NoneFree, Clone, Load, SizeThrows,
       Forward, ForwardThrows, GiveBack
  <2>2. PICK to \in {"acquire", "clone", "return"} \cup Holding :
          pc[t] # "idle" /\ pc' = [pc EXCEPT ![t] = to]
    BY <1>4 DEF Evaluate, RefuseSize, TakeFree, NoneFree, Clone, Load, SizeThrows,
       Forward, ForwardThrows, GiveBack, Goto, Holding
  <2>3. QED
    BY <1>1, <2>1, <2>2 DEF CallsOK, buildVars, Holding
<1>5. QED
  BY <1>2, <1>3, <1>4
-----------------------------------------------------------------------------
(* The executors.                                                          *)

Index(p) == 1..Len(free_[p])

ExecutorsOK ==
  /\ arena \in [Pools -> Seq(Executor)]
  /\ free_ \in [Pools -> Seq(Nat \ {0})]
  /\ \A p \in Pools : \A i \in Index(p) : free_[p][i] \in DOMAIN arena[p]
  /\ held \in [Threads -> Nat]
  /\ \A t \in Threads :
       IF pc[t] \in Holding THEN held[t] \in DOMAIN arena[MyPool(t)] ELSE held[t] = 0

CloningFor(p) == {t \in Threads : pc[t] = "clone" /\ MyPool(t) = p}

\* Every executor of a pool is free or in use, and a clone is only under way
\* while the executors that exist are in use by other threads.
CountsOK ==
  \A p \in Pools :
    /\ Len(arena[p]) = Len(free_[p]) + Cardinality(UsersOf(p))
    /\ Len(arena[p]) + Cardinality(CloningFor(p)) <= Cardinality(Threads)

ExecInv == ExecutorsOK /\ ExclusiveLease /\ CountsOK

LEMMA SetsOfThreads ==
  ASSUME NEW p \in Pools
  PROVE  /\ IsFiniteSet(UsersOf(p)) /\ IsFiniteSet(CloningFor(p))
         /\ Cardinality(UsersOf(p)) \in Nat /\ Cardinality(CloningFor(p)) \in Nat
         /\ Cardinality(Threads) \in Nat
<1>1. UsersOf(p) \subseteq Threads /\ CloningFor(p) \subseteq Threads
  BY DEF UsersOf, CloningFor
<1>2. QED
  BY <1>1, StanliAssumption, FS_Subset, FS_CardinalityType

LEMMA PoolsOfSteps ==
  ASSUME UNCHANGED buildVars, NEW u \in Threads, call'[u] = call[u]
  PROVE  MyPool(u)' = MyPool(u) /\ MyPool(u) \in Pools
BY DEF buildVars, MyPool, PoolOf, Pools

\* A step that gives nobody an executor and takes none from anybody.
LEMMA QuietStep ==
  ASSUME ExecInv, UNCHANGED <<free_, held>>,
         arena' \in [Pools -> Seq(Executor)],
         \A p \in Pools : Len(arena'[p]) = Len(arena[p]),
         \A u \in Threads : pc'[u] \in Holding <=> pc[u] \in Holding,
         \A u \in Threads : pc'[u] = "clone" <=> pc[u] = "clone",
         UNCHANGED buildVars,
         \A u \in Threads : pc[u] \in Holding \cup {"clone"} => call'[u] = call[u]
  PROVE  ExecInv'
<1>0. \A u \in Threads : pc[u] \in Holding \cup {"clone"} => MyPool(u)' = MyPool(u)
  BY PoolsOfSteps
<1>1. \A p \in Pools : UsersOf(p)' = UsersOf(p) /\ CloningFor(p)' = CloningFor(p)
  BY <1>0 DEF UsersOf, CloningFor
<1>2. \A p \in Pools : DOMAIN (arena'[p]) = DOMAIN arena[p]
  BY DEF ExecInv, ExecutorsOK
<1>3. ExecutorsOK'
  <2>1. \A t \in Threads :
          IF pc'[t] \in Holding THEN held'[t] \in DOMAIN (arena'[MyPool(t)']) ELSE held'[t] = 0
    <3> TAKE t \in Threads
    <3>1. CASE pc[t] \in Holding
      <4>1. t \in UsersOf(MyPool(t))
        BY <3>1 DEF UsersOf
      <4>2. held[t] \in DOMAIN arena[MyPool(t)]
        BY <3>1 DEF ExecInv, ExecutorsOK
      <4>3. MyPool(t) \in Pools
        BY DEF MyPool, PoolOf, Pools
      <4>4. QED
        BY <3>1, <4>2, <4>3, <1>2, <1>0
    <3>2. CASE pc[t] \notin Holding
      BY <3>2 DEF ExecInv, ExecutorsOK
    <3>3. QED
      BY <3>1, <3>2
  <2>2. QED
    BY <2>1, <1>2 DEF ExecInv, ExecutorsOK, Index
<1>4. ExclusiveLease'
  BY <1>1, <1>2 DEF ExecInv, ExclusiveLease
<1>5. CountsOK'
  BY <1>1 DEF ExecInv, CountsOK
<1>6. QED
  BY <1>3, <1>4, <1>5 DEF ExecInv

LEMMA QuietActions ==
  ASSUME CallsOK, ExecInv, NEW t \in Threads,
         \/ Begin(t) \/ RefuseSize(t) \/ SizeThrows(t) \/ Forward(t) \/ ForwardThrows(t)
         \/ Return(t)
  PROVE  ExecInv'
<1>1. UNCHANGED buildVars /\ UNCHANGED <<free_, held, arena>>
  BY DEF Begin, RefuseSize, SizeThrows, Forward, ForwardThrows, Return, poolVars
<1>2. PICK from, to \in {"idle", "acquire", "return"} \cup Holding :
        /\ pc[t] = from /\ pc' = [pc EXCEPT ![t] = to]
        /\ from \in Holding <=> to \in Holding
  BY DEF Begin, RefuseSize, SizeThrows, Forward, ForwardThrows, Return, Goto, Holding
<1>3. \A u \in Threads : pc[u] \in Holding \cup {"clone"} => call'[u] = call[u]
  BY DEF Begin, RefuseSize, SizeThrows, Forward, ForwardThrows, Return, Goto, Holding, CallsOK
<1>4. \A u \in Threads : pc'[u] \in Holding <=> pc[u] \in Holding
  BY <1>2 DEF CallsOK
<1>5. \A u \in Threads : pc'[u] = "clone" <=> pc[u] = "clone"
  BY <1>2 DEF CallsOK, Holding
<1>6. arena' \in [Pools -> Seq(Executor)] /\ \A p \in Pools : Len(arena'[p]) = Len(arena[p])
  BY <1>1 DEF ExecInv, ExecutorsOK
<1>7. QED
  BY <1>1, <1>3, <1>4, <1>5, <1>6, QuietStep

LEMMA LoadStep ==
  ASSUME CallsOK, ExecInv, NEW t \in Threads, Load(t)
  PROVE  /\ ExecInv'
         /\ arena' = [arena EXCEPT ![MyPool(t)] = [@ EXCEPT ![held[t]] = call[t].q]]
         /\ arena'[MyPool(t)][held[t]] = call[t].q
         /\ call[t].q \in Points
<1> DEFINE p == MyPool(t)
<1>1. p \in Pools /\ held[t] \in DOMAIN arena[p] /\ t \in UsersOf(p)
  BY DEF Load, Goto, ExecInv, ExecutorsOK, Holding, MyPool, PoolOf, Pools, UsersOf
<1>2. call[t].q \in Points
  <2>1. call[t] \in AllCalls
    BY DEF Load, Goto, CallsOK
  <2>2. QED
    BY <2>1, CallType DEF Load
<1>3. arena' = [arena EXCEPT ![p] = [@ EXCEPT ![held[t]] = call[t].q]]
  BY DEF Load
<1>4. arena[p] \in Seq(Executor)
  BY <1>1 DEF ExecInv, ExecutorsOK
<1>5. [arena[p] EXCEPT ![held[t]] = call[t].q] \in Seq(Executor)
       /\ Len([arena[p] EXCEPT ![held[t]] = call[t].q]) = Len(arena[p])
  BY <1>1, <1>2, <1>4 DEF Executor
<1>6. arena' \in [Pools -> Seq(Executor)] /\ \A r \in Pools : Len(arena'[r]) = Len(arena[r])
  BY <1>1, <1>3, <1>5 DEF ExecInv, ExecutorsOK
<1>7. arena'[p][held[t]] = call[t].q
  BY <1>1, <1>3, <1>4 DEF ExecInv, ExecutorsOK
<1>8. UNCHANGED buildVars /\ UNCHANGED <<free_, held>> /\ call' = call
  BY DEF Load
<1>9. \A u \in Threads : pc'[u] \in Holding <=> pc[u] \in Holding
  BY DEF Load, Goto, CallsOK, Holding
<1>10. \A u \in Threads : pc'[u] = "clone" <=> pc[u] = "clone"
  BY DEF Load, Goto, CallsOK, Holding
<1>11. ExecInv'
  BY <1>6, <1>8, <1>9, <1>10, QuietStep
<1>12. QED
  BY <1>2, <1>3, <1>7, <1>11

\* What changes in the sets of threads when t comes to hold an executor, ...
LEMMA BeginsToHold ==
  ASSUME CallsOK, NEW t \in Threads, UNCHANGED buildVars, call' = call,
         pc[t] \notin Holding, pc' = [pc EXCEPT ![t] = "load"],
         NEW q \in Pools, q = MyPool(t)
  PROVE  /\ UsersOf(q)' = UsersOf(q) \cup {t} /\ t \notin UsersOf(q)
         /\ CloningFor(q)' = CloningFor(q) \ {t}
         /\ \A p \in Pools \ {q} :
              UsersOf(p)' = UsersOf(p) /\ CloningFor(p)' = CloningFor(p)
<1>1. \A u \in Threads : MyPool(u)' = MyPool(u)
  BY PoolsOfSteps
<1>2. QED
  BY <1>1 DEF CallsOK, UsersOf, CloningFor, Holding

\* ... or gives it back.
LEMMA EndsToHold ==
  ASSUME CallsOK, NEW t \in Threads, UNCHANGED buildVars, call' = call,
         pc[t] \in Holding, pc' = [pc EXCEPT ![t] = "return"],
         NEW q \in Pools, q = MyPool(t)
  PROVE  /\ UsersOf(q)' = UsersOf(q) \ {t} /\ t \in UsersOf(q)
         /\ \A p \in Pools : CloningFor(p)' = CloningFor(p)
         /\ \A p \in Pools \ {q} : UsersOf(p)' = UsersOf(p)
<1>1. \A u \in Threads : MyPool(u)' = MyPool(u)
  BY PoolsOfSteps
<1>2. QED
  BY <1>1 DEF CallsOK, UsersOf, CloningFor, Holding

LEMMA TakeFreeStep ==
  ASSUME CallsOK, ExecInv, NEW t \in Threads, TakeFree(t)
  PROVE  ExecInv'
<1>0. PICK q \in Pools : q = MyPool(t)
  BY DEF MyPool, PoolOf, Pools
<1> DEFINE s == free_[q]
           n == Len(s)
<1>1. /\ UNCHANGED buildVars /\ call' = call /\ arena' = arena
      /\ pc[t] = "acquire" /\ pc[t] \notin Holding /\ pc' = [pc EXCEPT ![t] = "load"]
      /\ s # <<>> /\ held' = [held EXCEPT ![t] = s[n]]
      /\ free_' = [free_ EXCEPT ![q] = SubSeq(s, 1, n - 1)]
  BY <1>0 DEF TakeFree, Goto, Holding
<1>2.  \A u \in Threads : MyPool(u)' = MyPool(u) /\ MyPool(u) \in Pools
  BY <1>1, PoolsOfSteps
<1>3. s \in Seq(Nat \ {0}) /\ n \in Nat \ {0} /\ n \in 1..n
  BY <1>1, <1>2 DEF ExecInv, ExecutorsOK
<1>4. PICK r \in Seq(Nat \ {0}) :
        /\ Len(r) = n - 1 /\ \A i \in 1..(n - 1) : r[i] = s[i]
        /\ free_' = [free_ EXCEPT ![q] = r]
  <2>1. /\ SubSeq(s, 1, n - 1) \in Seq(Nat \ {0}) /\ Len(SubSeq(s, 1, n - 1)) = n - 1
        /\ \A i \in 1..(n - 1) : SubSeq(s, 1, n - 1)[i] = s[i]
    BY <1>3
  <2>2. QED
    BY <1>1, <2>1
<1>5. /\ UsersOf(q)' = UsersOf(q) \cup {t} /\ t \notin UsersOf(q)
      /\ CloningFor(q)' = CloningFor(q) \ {t} /\ t \notin CloningFor(q)
      /\ \A p \in Pools \ {q} : UsersOf(p)' = UsersOf(p) /\ CloningFor(p)' = CloningFor(p)
  <2>1. t \notin CloningFor(q)
    BY <1>1 DEF CloningFor
  <2>2. QED
    BY <1>0, <1>1, <2>1, BeginsToHold
<1>6. s[n] \in DOMAIN arena[q] /\ s[n] \in Nat
  BY <1>2, <1>3 DEF ExecInv, ExecutorsOK, Index
<1>7. /\ free_' \in [Pools -> Seq(Nat \ {0})] /\ free_'[q] = r
      /\ \A p \in Pools \ {q} : free_'[p] = free_[p]
  BY <1>2, <1>4 DEF ExecInv, ExecutorsOK
<1>8. held' \in [Threads -> Nat] /\ held'[t] = s[n] /\ \A u \in Threads \ {t} : held'[u] = held[u]
  BY <1>1, <1>6 DEF ExecInv, ExecutorsOK
<1> DEFINE Rest == 1..(n - 1)
<1>30. Rest \subseteq 1..n /\ 1..n = Rest \cup {n} /\ n \notin Rest /\ 1..Len(r) = Rest
  BY <1>3, <1>4
<1>31. \A i \in Rest : free_'[q][i] = s[i]
  BY <1>4, <1>7
<1>32. \A i \in 1..n : s[i] \in DOMAIN arena[q]
  BY <1>2 DEF ExecInv, ExecutorsOK, Index
<1> HIDE DEF Rest
<1>9. ExecutorsOK'
  <2>1. \A p \in Pools : \A i \in 1..Len(free_'[p]) : free_'[p][i] \in DOMAIN arena[p]
    <3>1. \A i \in 1..Len(free_'[q]) : free_'[q][i] \in DOMAIN arena[q]
      BY <1>7, <1>30, <1>31, <1>32
    <3>2. QED
      BY <3>1, <1>7 DEF ExecInv, ExecutorsOK, Index
  <2>2. \A u \in Threads :
          IF pc'[u] \in Holding THEN held'[u] \in DOMAIN arena[MyPool(u)] ELSE held'[u] = 0
    BY <1>0, <1>1, <1>6, <1>8 DEF ExecInv, ExecutorsOK, CallsOK, Holding
  <2>3. QED
    BY <1>1, <1>2, <1>7, <1>8, <2>1, <2>2 DEF ExecInv, ExecutorsOK, Index
<1>10. ExclusiveLease'
  <2> SUFFICES ASSUME NEW p \in Pools
      PROVE
    /\ \A i, j \in 1..Len(free_'[p]) : free_'[p][i] = free_'[p][j] => i = j
    /\ \A u, v \in UsersOf(p)' : held'[u] = held'[v] => u = v
    /\ \A u \in UsersOf(p)', i \in 1..Len(free_'[p]) : free_'[p][i] # held'[u]
    /\ \A k \in DOMAIN (arena'[p]) :
         (\E i \in 1..Len(free_'[p]) : free_'[p][i] = k) \/ (\E u \in UsersOf(p)' : held'[u] = k)
    BY DEF ExclusiveLease
  <2>0. UsersOf(p) \subseteq Threads
    BY DEF UsersOf
  <2>1. CASE p # q
    <3>1. free_'[p] = free_[p] /\ UsersOf(p)' = UsersOf(p) /\ arena'[p] = arena[p]
      BY <1>1, <1>5, <1>7, <2>1
    <3>2. \A u \in UsersOf(p) : held'[u] = held[u]
      <4>1. t \notin UsersOf(p)
        BY <1>1 DEF UsersOf
      <4>2. QED
        BY <4>1, <2>0, <1>8
    <3>3. QED
      BY <3>1, <3>2 DEF ExecInv, ExclusiveLease
  <2>2. CASE p = q
    <3>1. \A i, j \in 1..n : s[i] = s[j] => i = j
      BY <1>2 DEF ExecInv, ExclusiveLease
    <3>2. \A u \in UsersOf(q), i \in 1..n : s[i] # held[u]
      BY <1>2 DEF ExecInv, ExclusiveLease
    <3>3. \A u, v \in UsersOf(q) : held[u] = held[v] => u = v
      BY <1>2 DEF ExecInv, ExclusiveLease
    <3>4. \A k \in DOMAIN arena[q] :
            (\E i \in 1..n : s[i] = k) \/ (\E u \in UsersOf(q) : held[u] = k)
      BY <1>2 DEF ExecInv, ExclusiveLease
    <3>5. \A u \in UsersOf(q) : held'[u] = held[u]
      BY <1>5, <1>8, <2>0, <2>2
    <3>6. \A u, v \in UsersOf(q) \cup {t} : held'[u] = held'[v] => u = v
      BY <3>2, <3>3, <3>5, <1>3, <1>8
    <3>7. \A u \in UsersOf(q) \cup {t}, i \in Rest : s[i] # held'[u]
      BY <3>1, <3>2, <3>5, <1>3, <1>8, <1>30
    <3>8. \A k \in DOMAIN arena[q] :
            (\E i \in Rest : s[i] = k) \/ (\E u \in UsersOf(q) \cup {t} : held'[u] = k)
      BY <3>4, <3>5, <1>8, <1>30
    <3>9. 1..Len(free_'[q]) = Rest /\ UsersOf(q)' = UsersOf(q) \cup {t} /\ arena'[q] = arena[q]
      BY <1>1, <1>5, <1>7, <1>30
    <3>10. \A i, j \in Rest : free_'[q][i] = free_'[q][j] => i = j
      BY <3>1, <1>30, <1>31
    <3>11. \A i, j \in 1..Len(free_'[q]) : free_'[q][i] = free_'[q][j] => i = j
      BY <3>9, <3>10
    <3>12. \A u, v \in UsersOf(q)' : held'[u] = held'[v] => u = v
      BY <3>6, <3>9
    <3>13. \A u \in UsersOf(q)', i \in 1..Len(free_'[q]) : free_'[q][i] # held'[u]
      BY <3>7, <3>9, <1>31
    <3>14. \A k \in DOMAIN (arena'[q]) :
             (\E i \in 1..Len(free_'[q]) : free_'[q][i] = k) \/ (\E u \in UsersOf(q)' : held'[u] = k)
      BY <3>8, <3>9, <1>31
    <3>15. QED
      BY <2>2, <3>11, <3>12, <3>13, <3>14
  <2>3. QED
    BY <2>1, <2>2
<1>11. CountsOK'
  <2>1. Cardinality(UsersOf(q)') = Cardinality(UsersOf(q)) + 1
    BY <1>2, <1>5, SetsOfThreads, FS_AddElement
  <2>2. CloningFor(q)' = CloningFor(q)
    BY <1>5
  <2>3. Len(free_'[q]) = Len(free_[q]) - 1 /\ Len(free_[q]) \in Nat
    BY <1>3, <1>4, <1>7
  <2>4. \A p \in Pools \ {q} : free_'[p] = free_[p] /\ UsersOf(p)' = UsersOf(p)
    BY <1>5, <1>7
  <2>5. arena' = arena /\ \A p \in Pools : CloningFor(p)' = CloningFor(p)
    <3>1. \A p \in Pools \ {q} : CloningFor(p)' = CloningFor(p)
      BY <1>5
    <3>2. QED
      BY <1>1, <2>2, <3>1
  <2>6. Len(arena'[q]) = Len(free_'[q]) + Cardinality(UsersOf(q)')
    BY <1>2, <2>1, <2>3, <2>5, SetsOfThreads DEF ExecInv, CountsOK
  <2>7. \A p \in Pools : Len(arena'[p]) = Len(free_'[p]) + Cardinality(UsersOf(p)')
    BY <2>4, <2>5, <2>6 DEF ExecInv, CountsOK
  <2>8. \A p \in Pools : Len(arena'[p]) + Cardinality(CloningFor(p)') <= Cardinality(Threads)
    BY <2>5 DEF ExecInv, CountsOK
  <2>9. QED
    BY <2>7, <2>8 DEF CountsOK
<1>12. QED
  BY <1>9, <1>10, <1>11 DEF ExecInv

LEMMA GiveBackStep ==
  ASSUME CallsOK, ExecInv, NEW t \in Threads, GiveBack(t)
  PROVE  ExecInv'
<1>0. PICK q \in Pools : q = MyPool(t)
  BY DEF MyPool, PoolOf, Pools
<1> DEFINE s == free_[q]
           n == Len(s)
           h == held[t]
<1>1. /\ UNCHANGED buildVars /\ call' = call /\ arena' = arena
      /\ pc[t] = "release" /\ pc[t] \in Holding /\ pc' = [pc EXCEPT ![t] = "return"]
      /\ held' = [held EXCEPT ![t] = 0]
      /\ free_' = [free_ EXCEPT ![q] = Append(s, h)]
  BY <1>0 DEF GiveBack, Goto, Holding
<1>2. \A u \in Threads : MyPool(u)' = MyPool(u) /\ MyPool(u) \in Pools
  BY <1>1, PoolsOfSteps
<1>3. s \in Seq(Nat \ {0}) /\ n \in Nat /\ arena[q] \in Seq(Executor)
  BY DEF ExecInv, ExecutorsOK
<1>4. h \in DOMAIN arena[q] /\ h \in Nat \ {0}
  BY <1>0, <1>1, <1>3 DEF ExecInv, ExecutorsOK
<1>5. PICK r \in Seq(Nat \ {0}) :
        /\ Len(r) = n + 1 /\ r[n + 1] = h /\ \A i \in 1..n : r[i] = s[i]
        /\ free_' = [free_ EXCEPT ![q] = r]
  <2>1. /\ Append(s, h) \in Seq(Nat \ {0}) /\ Len(Append(s, h)) = n + 1
        /\ Append(s, h)[n + 1] = h /\ \A i \in 1..n : Append(s, h)[i] = s[i]
    BY <1>3, <1>4
  <2>2. QED
    BY <1>1, <2>1
<1>6. /\ UsersOf(q)' = UsersOf(q) \ {t} /\ t \in UsersOf(q)
      /\ \A p \in Pools : CloningFor(p)' = CloningFor(p)
      /\ \A p \in Pools \ {q} : UsersOf(p)' = UsersOf(p)
  BY <1>0, <1>1, EndsToHold
<1>7. /\ free_' \in [Pools -> Seq(Nat \ {0})] /\ free_'[q] = r
      /\ \A p \in Pools \ {q} : free_'[p] = free_[p]
  BY <1>5 DEF ExecInv, ExecutorsOK
<1>8. held' \in [Threads -> Nat] /\ held'[t] = 0 /\ \A u \in Threads \ {t} : held'[u] = held[u]
  BY <1>1 DEF ExecInv, ExecutorsOK
<1>9. 1..Len(r) = 1..n \cup {n + 1} /\ n + 1 \notin 1..n
  BY <1>3, <1>5
<1>10. ExecutorsOK'
  <2>1. \A i \in 1..n : s[i] \in DOMAIN arena[q]
    BY DEF ExecInv, ExecutorsOK, Index
  <2>2. \A i \in 1..Len(free_'[q]) : free_'[q][i] \in DOMAIN arena[q]
    BY <1>4, <1>5, <1>7, <1>9, <2>1
  <2>3. \A p \in Pools : \A i \in 1..Len(free_'[p]) : free_'[p][i] \in DOMAIN arena[p]
    BY <1>7, <2>2 DEF ExecInv, ExecutorsOK, Index
  <2>4. \A u \in Threads :
          IF pc'[u] \in Holding THEN held'[u] \in DOMAIN arena[MyPool(u)] ELSE held'[u] = 0
    BY <1>1, <1>8 DEF ExecInv, ExecutorsOK, CallsOK, Holding
  <2>5. QED
    BY <1>1, <1>2, <1>7, <1>8, <2>3, <2>4 DEF ExecInv, ExecutorsOK, Index
<1>11. ExclusiveLease'
  <2> SUFFICES ASSUME NEW p \in Pools
      PROVE
    /\ \A i, j \in 1..Len(free_'[p]) : free_'[p][i] = free_'[p][j] => i = j
    /\ \A u, v \in UsersOf(p)' : held'[u] = held'[v] => u = v
    /\ \A u \in UsersOf(p)', i \in 1..Len(free_'[p]) : free_'[p][i] # held'[u]
    /\ \A k \in DOMAIN (arena'[p]) :
         (\E i \in 1..Len(free_'[p]) : free_'[p][i] = k) \/ (\E u \in UsersOf(p)' : held'[u] = k)
    BY DEF ExclusiveLease
  <2>0. UsersOf(p) \subseteq Threads /\ UsersOf(q) \subseteq Threads
    BY DEF UsersOf
  <2>1. CASE p # q
    <3>1. free_'[p] = free_[p] /\ UsersOf(p)' = UsersOf(p) /\ arena'[p] = arena[p]
      BY <1>1, <1>6, <1>7, <2>1
    <3>2. \A u \in UsersOf(p) : held'[u] = held[u]
      <4>1. t \notin UsersOf(p)
        BY <1>0, <2>1 DEF UsersOf
      <4>2. QED
        BY <4>1, <2>0, <1>8
    <3>3. QED
      BY <3>1, <3>2 DEF ExecInv, ExclusiveLease
  <2>2. CASE p = q
    <3>1. \A i, j \in 1..n : s[i] = s[j] => i = j
      BY DEF ExecInv, ExclusiveLease
    <3>2. \A u \in UsersOf(q), i \in 1..n : s[i] # held[u]
      BY DEF ExecInv, ExclusiveLease
    <3>3. \A u, v \in UsersOf(q) : held[u] = held[v] => u = v
      BY DEF ExecInv, ExclusiveLease
    <3>4. \A k \in DOMAIN arena[q] :
            (\E i \in 1..n : s[i] = k) \/ (\E u \in UsersOf(q) : held[u] = k)
      BY DEF ExecInv, ExclusiveLease
    <3>5. \A u \in UsersOf(q) \ {t} : held'[u] = held[u]
      BY <1>8, <2>0
    <3>6. \A i \in 1..n : s[i] # h
      BY <1>6, <3>2
    <3>7. \A i, j \in 1..Len(r) : r[i] = r[j] => i = j
      BY <3>1, <3>6, <1>5, <1>9
    <3>8. \A u, v \in UsersOf(q) \ {t} : held'[u] = held'[v] => u = v
      BY <3>3, <3>5
    <3>9. \A u \in UsersOf(q) \ {t}, i \in 1..Len(r) : r[i] # held'[u]
      BY <3>2, <3>3, <3>5, <1>5, <1>6, <1>9
    <3>10. \A k \in DOMAIN arena[q] :
            (\E i \in 1..Len(r) : r[i] = k) \/ (\E u \in UsersOf(q) \ {t} : held'[u] = k)
      <4> TAKE k \in DOMAIN arena[q]
      <4>1. CASE k = h
        BY <4>1, <1>5, <1>9
      <4>2. CASE k # h
        BY <4>2, <3>4, <3>5, <1>5, <1>9
      <4>3. QED
        BY <4>1, <4>2
    <3>11. free_'[q] = r /\ UsersOf(q)' = UsersOf(q) \ {t} /\ arena'[q] = arena[q]
      BY <1>1, <1>6, <1>7
    <3>12. \A u \in UsersOf(q)', i \in 1..Len(free_'[q]) : free_'[q][i] # held'[u]
      BY <3>9, <3>11
    <3>13. \A k \in DOMAIN (arena'[q]) :
             (\E i \in 1..Len(free_'[q]) : free_'[q][i] = k) \/ (\E u \in UsersOf(q)' : held'[u] = k)
      BY <3>10, <3>11
    <3>14. \A i, j \in 1..Len(free_'[q]) : free_'[q][i] = free_'[q][j] => i = j
      BY <3>7, <3>11
    <3>15. QED
      BY <2>2, <3>8, <3>11, <3>12, <3>13, <3>14
  <2>3. QED
    BY <2>1, <2>2
<1>12. CountsOK'
  <2>1. Cardinality(UsersOf(q)') = Cardinality(UsersOf(q)) - 1
    BY <1>6, SetsOfThreads, FS_RemoveElement
  <2>2. Len(free_'[q]) = Len(free_[q]) + 1 /\ Len(free_[q]) \in Nat
    BY <1>3, <1>5, <1>7
  <2>3. \A p \in Pools \ {q} : free_'[p] = free_[p] /\ UsersOf(p)' = UsersOf(p)
    BY <1>6, <1>7
  <2>4. Len(arena'[q]) = Len(free_'[q]) + Cardinality(UsersOf(q)')
    BY <1>1, <2>1, <2>2, SetsOfThreads DEF ExecInv, CountsOK
  <2>5. \A p \in Pools : Len(arena'[p]) = Len(free_'[p]) + Cardinality(UsersOf(p)')
    BY <1>1, <2>3, <2>4 DEF ExecInv, CountsOK
  <2>6. \A p \in Pools : Len(arena'[p]) + Cardinality(CloningFor(p)') <= Cardinality(Threads)
    BY <1>1, <1>6 DEF ExecInv, CountsOK
  <2>7. QED
    BY <2>5, <2>6 DEF CountsOK
<1>13. QED
  BY <1>10, <1>11, <1>12 DEF ExecInv

LEMMA NoneFreeStep ==
  ASSUME CallsOK, ExecInv, NEW t \in Threads, NoneFree(t)
  PROVE  ExecInv'
<1>0. PICK q \in Pools : q = MyPool(t)
  BY DEF MyPool, PoolOf, Pools
<1>1. /\ UNCHANGED buildVars /\ call' = call /\ UNCHANGED <<held, free_, arena>>
      /\ pc[t] = "acquire" /\ pc' = [pc EXCEPT ![t] = "clone"] /\ free_[q] = <<>>
  BY <1>0 DEF NoneFree, Goto, poolVars
<1>2. \A u \in Threads : MyPool(u)' = MyPool(u)
  BY <1>1, PoolsOfSteps
<1>3. \A p \in Pools : UsersOf(p)' = UsersOf(p)
  BY <1>1, <1>2 DEF UsersOf, CallsOK, Holding
<1>4. /\ CloningFor(q)' = CloningFor(q) \cup {t} /\ t \notin CloningFor(q)
      /\ \A p \in Pools \ {q} : CloningFor(p)' = CloningFor(p)
  BY <1>0, <1>1, <1>2 DEF CloningFor, CallsOK
<1>5. ExecutorsOK'
  BY <1>1, <1>2 DEF ExecInv, ExecutorsOK, Index, CallsOK, Holding
<1>6. ExclusiveLease'
  BY <1>1, <1>3 DEF ExecInv, ExclusiveLease
<1>7. Len(arena[q]) + Cardinality(CloningFor(q)') <= Cardinality(Threads)
  <2>1. /\ UsersOf(q) \cup CloningFor(q)' \subseteq Threads
        /\ UsersOf(q) \cap (CloningFor(q)') = {}
    BY <1>1, <1>4 DEF UsersOf, CloningFor, Holding
  <2>2. IsFiniteSet(CloningFor(q)')
    BY <1>4, SetsOfThreads, FS_AddElement
  <2>3. Cardinality(UsersOf(q) \cup CloningFor(q)') = Cardinality(UsersOf(q)) + Cardinality(CloningFor(q)')
    <3>1. PICK c : c = CloningFor(q)'
      OBVIOUS
    <3>2. IsFiniteSet(c) /\ UsersOf(q) \cap c = {}
      BY <2>1, <2>2, <3>1
    <3>3. Cardinality(UsersOf(q) \cap c) = 0 /\ Cardinality(c) \in Nat
      BY <3>2, FS_EmptySet, FS_CardinalityType
    <3> DEFINE d == UsersOf(q)
    <3>31. IsFiniteSet(d) /\ Cardinality(d) \in Nat
      BY SetsOfThreads
    <3>32. Cardinality(d \cup c) = Cardinality(d) + Cardinality(c) - Cardinality(d \cap c)
      <4> HIDE DEF d
      <4> QED BY <3>2, <3>31, FS_Union
    <3>4. Cardinality(d \cup c) = Cardinality(d) + Cardinality(c)
      <4> HIDE DEF d
      <4>1. Cardinality(d \cap c) = 0
        BY <3>3 DEF d
      <4> QED BY <4>1, <3>3, <3>31, <3>32
    <3>5. QED
      BY <3>1, <3>4
  <2>4. Cardinality(UsersOf(q) \cup CloningFor(q)') <= Cardinality(Threads)
    BY <2>1, StanliAssumption, FS_Subset
  <2>5. Len(arena[q]) = Cardinality(UsersOf(q))
    BY <1>1, SetsOfThreads DEF ExecInv, CountsOK
  <2>6. QED
    BY <2>3, <2>4, <2>5
<1>8. CountsOK'
  <2>1. \A p \in Pools : Len(arena[p]) + Cardinality(CloningFor(p)') <= Cardinality(Threads)
    BY <1>4, <1>7 DEF ExecInv, CountsOK
  <2>2. QED
    BY <1>1, <1>3, <2>1 DEF ExecInv, CountsOK
<1>9. QED
  BY <1>5, <1>6, <1>8 DEF ExecInv

LEMMA CloneStep ==
  ASSUME CallsOK, ExecInv, NEW t \in Threads, Clone(t)
  PROVE  ExecInv'
<1>0. PICK q \in Pools : q = MyPool(t)
  BY DEF MyPool, PoolOf, Pools
<1> DEFINE a == arena[q]
           n == Len(a)
<1>1. /\ UNCHANGED buildVars /\ call' = call /\ free_' = free_
      /\ pc[t] = "clone" /\ pc[t] \notin Holding /\ pc' = [pc EXCEPT ![t] = "load"]
      /\ held' = [held EXCEPT ![t] = n + 1]
      /\ arena' = [arena EXCEPT ![q] = Append(a, NewExecutor)]
  BY <1>0 DEF Clone, Goto, Holding
<1>2. \A u \in Threads : MyPool(u)' = MyPool(u) /\ MyPool(u) \in Pools
  BY <1>1, PoolsOfSteps
<1>3. a \in Seq(Executor) /\ n \in Nat /\ DOMAIN a = 1..n /\ n + 1 \notin 1..n
  BY DEF ExecInv, ExecutorsOK
<1>4. PICK b \in Seq(Executor) :
        Len(b) = n + 1 /\ DOMAIN b = 1..n \cup {n + 1} /\ arena' = [arena EXCEPT ![q] = b]
  <2>1. /\ Append(a, NewExecutor) \in Seq(Executor) /\ Len(Append(a, NewExecutor)) = n + 1
        /\ DOMAIN Append(a, NewExecutor) = 1..n \cup {n + 1}
    BY <1>3 DEF NewExecutor, Executor
  <2>2. QED
    BY <1>1, <2>1
<1>5. /\ arena' \in [Pools -> Seq(Executor)] /\ arena'[q] = b
      /\ \A p \in Pools \ {q} : arena'[p] = arena[p]
  BY <1>4 DEF ExecInv, ExecutorsOK
<1>6. \A p \in Pools : DOMAIN arena[p] \subseteq DOMAIN (arena'[p])
  BY <1>3, <1>4, <1>5
<1>7. held' \in [Threads -> Nat] /\ held'[t] = n + 1 /\ \A u \in Threads \ {t} : held'[u] = held[u]
  BY <1>1, <1>3 DEF ExecInv, ExecutorsOK
<1>8. /\ UsersOf(q)' = UsersOf(q) \cup {t} /\ t \notin UsersOf(q)
      /\ CloningFor(q)' = CloningFor(q) \ {t} /\ t \in CloningFor(q)
      /\ \A p \in Pools \ {q} : UsersOf(p)' = UsersOf(p) /\ CloningFor(p)' = CloningFor(p)
  <2>1. t \in CloningFor(q)
    BY <1>0, <1>1 DEF CloningFor
  <2>2. QED
    BY <1>0, <1>1, <2>1, BeginsToHold
<1>9. ExecutorsOK'
  <2>1. \A p \in Pools : \A i \in Index(p) : free_[p][i] \in DOMAIN (arena'[p])
    BY <1>6 DEF ExecInv, ExecutorsOK
  <2>2. \A u \in Threads :
          IF pc'[u] \in Holding THEN held'[u] \in DOMAIN (arena'[MyPool(u)]) ELSE held'[u] = 0
    <3> TAKE u \in Threads
    <3>1. CASE u = t
      BY <3>1, <1>0, <1>1, <1>4, <1>5, <1>7 DEF CallsOK, Holding
    <3>2. CASE u # t
      BY <3>2, <1>1, <1>2, <1>6, <1>7 DEF ExecInv, ExecutorsOK, CallsOK
    <3>3. QED
      BY <3>1, <3>2
  <2>3. QED
    BY <1>1, <1>2, <1>5, <1>7, <2>1, <2>2 DEF ExecInv, ExecutorsOK, Index
<1>10. ExclusiveLease'
  <2> SUFFICES ASSUME NEW p \in Pools
      PROVE
    /\ \A i, j \in 1..Len(free_'[p]) : free_'[p][i] = free_'[p][j] => i = j
    /\ \A u, v \in UsersOf(p)' : held'[u] = held'[v] => u = v
    /\ \A u \in UsersOf(p)', i \in 1..Len(free_'[p]) : free_'[p][i] # held'[u]
    /\ \A k \in DOMAIN (arena'[p]) :
         (\E i \in 1..Len(free_'[p]) : free_'[p][i] = k) \/ (\E u \in UsersOf(p)' : held'[u] = k)
    BY DEF ExclusiveLease
  <2>0. UsersOf(p) \subseteq Threads /\ t \notin UsersOf(p)
    BY <1>1 DEF UsersOf
  <2>1. \A u \in UsersOf(p) : held'[u] = held[u]
    BY <2>0, <1>7
  <2>2. CASE p # q
    <3>1. free_'[p] = free_[p] /\ UsersOf(p)' = UsersOf(p) /\ arena'[p] = arena[p]
      BY <1>1, <1>5, <1>8, <2>2
    <3>2. QED
      BY <3>1, <2>1 DEF ExecInv, ExclusiveLease
  <2>3. CASE p = q
    <3>1. \A u \in UsersOf(q) : held[u] \in 1..n
      BY <1>0, <1>3 DEF ExecInv, ExecutorsOK, UsersOf
    <3>2. \A i \in 1..Len(free_[q]) : free_[q][i] \in 1..n
      BY <1>3 DEF ExecInv, ExecutorsOK, Index
    <3>3. \A u, v \in UsersOf(q) : held[u] = held[v] => u = v
      BY DEF ExecInv, ExclusiveLease
    <3>4. \A u, v \in UsersOf(q) \cup {t} : held'[u] = held'[v] => u = v
      BY <3>1, <3>3, <2>1, <2>3, <1>3, <1>7
    <3>5. \A u \in UsersOf(q), i \in 1..Len(free_[q]) : free_[q][i] # held[u]
      BY DEF ExecInv, ExclusiveLease
    <3>6. \A u \in UsersOf(q) \cup {t}, i \in 1..Len(free_[q]) : free_[q][i] # held'[u]
      BY <3>2, <3>5, <2>1, <2>3, <1>3, <1>7
    <3>7. \A k \in 1..n :
            (\E i \in 1..Len(free_[q]) : free_[q][i] = k) \/ (\E u \in UsersOf(q) : held[u] = k)
      BY <1>3 DEF ExecInv, ExclusiveLease
    <3>8. \A k \in DOMAIN b :
            (\E i \in 1..Len(free_[q]) : free_[q][i] = k) \/ (\E u \in UsersOf(q) \cup {t} : held'[u] = k)
      BY <3>7, <2>1, <2>3, <1>4, <1>7
    <3>9. \A i, j \in 1..Len(free_[q]) : free_[q][i] = free_[q][j] => i = j
      BY DEF ExecInv, ExclusiveLease
    <3>10. UsersOf(q)' = UsersOf(q) \cup {t} /\ free_' = free_ /\ arena'[q] = b
      BY <1>1, <1>5, <1>8
    <3>11. QED
      BY <2>3, <3>4, <3>6, <3>8, <3>9, <3>10
  <2>4. QED
    BY <2>2, <2>3
<1>11. CountsOK'
  <2>1. Cardinality(UsersOf(q)') = Cardinality(UsersOf(q)) + 1
    BY <1>8, SetsOfThreads, FS_AddElement
  <2>2. Cardinality(CloningFor(q)') = Cardinality(CloningFor(q)) - 1
    BY <1>8, SetsOfThreads, FS_RemoveElement
  <2>3. Len(arena'[q]) = n + 1
    BY <1>4, <1>5
  <2>4. Len(arena'[q]) = Len(free_[q]) + Cardinality(UsersOf(q)')
    <3>1. Len(free_[q]) \in Nat
      BY DEF ExecInv, ExecutorsOK
    <3>2. n = Len(free_[q]) + Cardinality(UsersOf(q))
      BY DEF ExecInv, CountsOK
    <3>3. Cardinality(UsersOf(q)) \in Nat
      BY SetsOfThreads
    <3>4. QED
      BY <2>1, <2>3, <3>1, <3>2, <3>3
  <2>5. Len(arena'[q]) + Cardinality(CloningFor(q)') <= Cardinality(Threads)
    BY <1>3, <2>2, <2>3, SetsOfThreads DEF ExecInv, CountsOK
  <2>6. \A p \in Pools : Len(arena'[p]) = Len(free_'[p]) + Cardinality(UsersOf(p)')
    BY <1>1, <1>5, <1>8, <2>4 DEF ExecInv, CountsOK
  <2>7. \A p \in Pools : Len(arena'[p]) + Cardinality(CloningFor(p)') <= Cardinality(Threads)
    BY <1>5, <1>8, <2>5 DEF ExecInv, CountsOK
  <2>8. QED
    BY <2>6, <2>7 DEF CountsOK
<1>12. QED
  BY <1>9, <1>10, <1>11 DEF ExecInv

\* Nothing is called while the model is built.
ConstructInv == Constructed \/ \A t \in Threads : pc[t] = "idle"

LEMMA ConstructStep ==
  ASSUME CallsOK, ExecInv, ConstructInv, Construct
  PROVE  CallsOK' /\ ExecInv' /\ ConstructInv' /\ UNCHANGED <<callVars, poolVars>>
<1>1. UNCHANGED <<pc, call, held, reply, free_, arena>>
  BY DEF Construct, ProbeThrows, ProbeSucceeds, NoWriteArray, GraphColumns, callVars, poolVars
<1>2. ~Constructed
  BY DEF Construct, ProbeThrows, ProbeSucceeds, NoWriteArray, GraphColumns, Probing, Constructed
<1>3. \A t \in Threads : pc[t] = "idle"
  BY <1>2 DEF ConstructInv
<1>4. \A n \in 0..Len(Columns) : First(n) \in Seq(STRING)
  BY StanliAssumption DEF First
<1>5. CallsOK'
  <2>1. CASE ProbeThrows \/ ProbeSucceeds
    <3>1. PICK n \in 0..Len(Columns) : Discover(n)
      BY <2>1, StanliAssumption DEF ProbeThrows, ProbeSucceeds
    <3>2. cols_' \in Seq(STRING) /\ Len(cols_) \in Nat
      BY <3>1, <1>4 DEF Discover, CallsOK
    <3>3. n_tp_start_' \in Nat /\ n_gq_start_' \in Nat
      BY <3>1, <3>2, StanliAssumption DEF Discover, CallsOK
    <3>4. columns_' \in Seq(STRING) /\ torn' \in BOOLEAN /\ write_array' = write_array
      BY <2>1, <3>2 DEF ProbeThrows, ProbeSucceeds, CallsOK
    <3>5. variant' \in 0..4
      BY <2>1 DEF ProbeThrows, ProbeSucceeds, Probing, CallsOK
    <3>6. QED
      BY <1>1, <3>2, <3>3, <3>4, <3>5 DEF CallsOK
  <2>2. CASE NoWriteArray \/ GraphColumns
    <3>1. First(NumParams) \in Seq(STRING)
      BY <1>4, StanliAssumption
    <3>2. cols_' \in Seq(STRING) /\ columns_' \in Seq(STRING)
      <4>1. <<>> \in Seq(STRING) /\ Columns \in Seq(STRING) /\ cols_ \in Seq(STRING)
        BY StanliAssumption DEF CallsOK
      <4>2. QED
        BY <2>2, <3>1, <4>1 DEF NoWriteArray, GraphColumns
    <3>3. n_tp_start_' \in Nat /\ n_gq_start_' \in Nat /\ variant' \in 0..4
      BY <2>2, StanliAssumption DEF NoWriteArray, GraphColumns
    <3>4. torn' \in BOOLEAN /\ write_array' \in {"interp", "graph", "none"}
      BY <2>2 DEF NoWriteArray, GraphColumns, CallsOK
    <3>5. QED
      BY <1>1, <3>2, <3>3, <3>4 DEF CallsOK
  <2>3. QED
    BY <2>1, <2>2 DEF Construct
<1>6. \A p \in Pools : /\ UsersOf(p) = {} /\ UsersOf(p)' = {}
                       /\ CloningFor(p) = {} /\ CloningFor(p)' = {}
  BY <1>1, <1>3 DEF UsersOf, CloningFor, Holding
<1>7. ExecutorsOK'
  BY <1>1, <1>3 DEF ExecInv, ExecutorsOK, Index, Holding
<1>8. ExclusiveLease'
  BY <1>1, <1>6 DEF ExecInv, ExclusiveLease
<1>9. CountsOK'
  BY <1>1, <1>6 DEF ExecInv, CountsOK
<1>10. QED
  BY <1>1, <1>3, <1>5, <1>7, <1>8, <1>9 DEF ExecInv, ConstructInv, callVars, poolVars

ModelInv == CallsOK /\ ExecInv /\ ConstructInv

LEMMA ModelInvInit == Init => ModelInv
<1> SUFFICES ASSUME Init PROVE ModelInv
  OBVIOUS
<1>1. CallsOK
  <2>1. call \in [Threads -> AllCalls \cup {NoCall}]
    BY DEF Init
  <2>2. \A t \in Threads : call[t] = NoCall /\ pc[t] = "idle"
    BY DEF Init
  <2>3. cols_ \in Seq(STRING) /\ columns_ \in Seq(STRING)
    BY DEF Init
  <2>4. pc \in [Threads -> {"idle", "acquire", "clone", "return"} \cup Holding]
    BY DEF Init
  <2>5. variant \in 0..4 /\ n_tp_start_ \in Nat /\ n_gq_start_ \in Nat
    BY DEF Init
  <2>6. write_array \in {"interp", "graph", "none"} /\ torn \in BOOLEAN
    BY Zenon DEF Init
  <2>7. QED
    BY <2>1, <2>2, <2>3, <2>4, <2>5, <2>6 DEF CallsOK
<1>2. \A p \in Pools : UsersOf(p) = {} /\ CloningFor(p) = {} /\ arena[p] = <<>> /\ free_[p] = <<>>
  BY DEF Init, UsersOf, CloningFor, Holding
<1>3. ExecutorsOK
  BY <1>2 DEF Init, ExecutorsOK, Index, Holding
<1>4. ExclusiveLease
  BY <1>2 DEF ExclusiveLease
<1>5. CountsOK
  <2>1. Cardinality(Threads) \in Nat /\ Cardinality({}) = 0
    BY StanliAssumption, FS_EmptySet, FS_CardinalityType
  <2>2. \A p \in Pools : /\ Len(arena[p]) = 0 /\ Len(free_[p]) = 0
                         /\ Cardinality(UsersOf(p)) = 0 /\ Cardinality(CloningFor(p)) = 0
    <3>1. Len(<<>>) = 0
      OBVIOUS
    <3>2. QED
      BY <1>2, <2>1, <3>1, Zenon
  <2>3. QED
    BY <2>1, <2>2 DEF CountsOK
<1>6. QED
  BY <1>1, <1>3, <1>4, <1>5 DEF Init, ModelInv, ExecInv, ConstructInv

LEMMA ThreadStep ==
  ASSUME ModelInv, NEW t \in Threads, Begin(t) \/ Evaluate(t)
  PROVE  ModelInv'
<1>1. CallsOK'
  BY CallsStep DEF ModelInv
<1>2. ExecInv'
  BY QuietActions, LoadStep, TakeFreeStep, NoneFreeStep, CloneStep, GiveBackStep
     DEF ModelInv, Evaluate
<1>3. ConstructInv'
  <2>1. Constructed
    BY DEF ModelInv, ConstructInv, Begin, Evaluate, RefuseSize, TakeFree, NoneFree, Clone,
       Load, SizeThrows, Forward, ForwardThrows, GiveBack, Return, Goto
  <2>2. UNCHANGED variant
    BY DEF Begin, Evaluate, RefuseSize, TakeFree, NoneFree, Clone, Load, SizeThrows,
       Forward, ForwardThrows, GiveBack, Return, buildVars
  <2>3. QED
    BY <2>1, <2>2 DEF ConstructInv, Constructed
<1>4. QED
  BY <1>1, <1>2, <1>3 DEF ModelInv

LEMMA Stutter == ModelInv /\ UNCHANGED vars => ModelInv'
<1> SUFFICES ASSUME ModelInv, UNCHANGED vars PROVE ModelInv'
  OBVIOUS
<1> USE DEF vars, buildVars, callVars, poolVars
<1>1. \A u \in Threads : MyPool(u)' = MyPool(u)
  BY PoolsOfSteps
<1>2. \A p \in Pools : UsersOf(p)' = UsersOf(p) /\ CloningFor(p)' = CloningFor(p)
  BY <1>1 DEF UsersOf, CloningFor
<1>3. CallsOK' /\ ConstructInv'
  BY DEF ModelInv, CallsOK, ConstructInv, Constructed
<1>4. ExecutorsOK'
  BY <1>1 DEF ModelInv, ExecInv, ExecutorsOK, Index
<1>5. ExclusiveLease' /\ CountsOK'
  BY <1>2 DEF ModelInv, ExecInv, ExclusiveLease, CountsOK
<1>6. QED
  BY <1>3, <1>4, <1>5 DEF ModelInv, ExecInv

LEMMA ModelInvStep == ModelInv /\ [Next]_vars => ModelInv'
BY ConstructStep, ThreadStep, Stutter DEF Next, ModelInv

\* No two calls use one executor and none is lost (executor_pool.hpp), for any
\* number of threads.
THEOREM LeaseTheorem == Spec => []ExclusiveLease
<1>1. ModelInv => ExclusiveLease
  BY DEF ModelInv, ExecInv
<1>2. QED
  BY <1>1, ModelInvInit, ModelInvStep, PTL DEF Spec, Safety

\* A pool never holds more clones than there are threads, although acquire()
\* clones outside its mutex.
THEOREM ClonesTheorem == Spec => []ClonesBounded
<1>1. ModelInv => ClonesBounded
  <2> SUFFICES ASSUME ModelInv, NEW p \in Pools
      PROVE  Len(arena[p]) <= Cardinality(Threads)
    BY DEF ClonesBounded
  <2>1. Len(arena[p]) + Cardinality(CloningFor(p)) <= Cardinality(Threads) /\ Len(arena[p]) \in Nat
    BY DEF ModelInv, ExecInv, CountsOK, ExecutorsOK
  <2>2. QED
    BY <2>1, SetsOfThreads
<1>2. QED
  BY <1>1, ModelInvInit, ModelInvStep, PTL DEF Spec, Safety
-----------------------------------------------------------------------------
(* Each call is answered for its own point.                                *)

\* What is true of a thread between the steps of its call: what it loaded is
\* still there when it sweeps.
ThreadInv(t) ==
  /\ pc[t] = "run" => call[t].q # WrongSize /\ Mine(t) = call[t].q
  /\ IF pc[t] \in {"release", "return"} THEN Visible(reply[t]) \in AnswersTo(call[t])
     ELSE reply[t] = NoCall

IsolationInv == DOMAIN reply = Threads /\ \A t \in Threads : ThreadInv(t)

\* The threads that do not move keep what they loaded.
LEMMA OthersKeep ==
  ASSUME ModelInv, IsolationInv, NEW t \in Threads, Begin(t) \/ Evaluate(t),
         NEW u \in Threads, u # t
  PROVE  /\ ThreadInv(u)'
         /\ pc'[u] = pc[u] /\ call'[u] = call[u] /\ reply'[u] = reply[u]
<1>1. UNCHANGED buildVars
  BY DEF Begin, Evaluate, RefuseSize, TakeFree, NoneFree, Clone, Load, SizeThrows,
     Forward, ForwardThrows, GiveBack, Return
<1>2. pc'[u] = pc[u]
  BY DEF Begin, Evaluate, RefuseSize, TakeFree, NoneFree, Clone, Load, SizeThrows,
     Forward, ForwardThrows, GiveBack, Return, Goto, ModelInv, CallsOK
<1>3. call'[u] = call[u]
  BY DEF Begin, Evaluate, RefuseSize, TakeFree, NoneFree, Clone, Load, SizeThrows,
     Forward, ForwardThrows, GiveBack, Return, ModelInv, CallsOK
<1>4. reply'[u] = reply[u]
  BY DEF Begin, Evaluate, RefuseSize, TakeFree, NoneFree, Clone, Load, SizeThrows,
     Forward, ForwardThrows, GiveBack, Return, IsolationInv, poolVars
<1>5. held'[u] = held[u]
  BY DEF Begin, Evaluate, RefuseSize, TakeFree, NoneFree, Clone, Load, SizeThrows,
     Forward, ForwardThrows, GiveBack, Return, ModelInv, ExecInv, ExecutorsOK
<1>6. MyPool(u)' = MyPool(u) /\ MyPool(u) \in Pools
  BY <1>1, <1>3, PoolsOfSteps
<1>7. ASSUME pc[u] = "run" PROVE arena'[MyPool(u)][held[u]] = arena[MyPool(u)][held[u]]
  <2>0. PICK p \in Pools : p = MyPool(u)
    BY <1>6
  <2>1. u \in UsersOf(p) /\ held[u] \in DOMAIN arena[p]
    BY <1>7, <2>0 DEF UsersOf, Holding, ModelInv, ExecInv, ExecutorsOK
  <2>2. arena[p] \in Seq(Executor) /\ arena \in [Pools -> Seq(Executor)]
    BY DEF ModelInv, ExecInv, ExecutorsOK
  <2>3. CASE Load(t)
    <3>1. ~(MyPool(t) = p /\ held[t] = held[u])
      <4>1. MyPool(t) = p => t \in UsersOf(p)
        BY <2>3 DEF Load, Goto, UsersOf, Holding
      <4>2. QED
        BY <4>1, <2>1 DEF ModelInv, ExecInv, ExclusiveLease
    <3>2. arena' = [arena EXCEPT ![MyPool(t)] = [@ EXCEPT ![held[t]] = call[t].q]]
      BY <2>3 DEF Load
    <3>3. QED
      BY <2>0, <2>1, <2>2, <3>1, <3>2
  <2>4. CASE Clone(t)
    <3>1. arena' = [arena EXCEPT ![MyPool(t)] = Append(@, NewExecutor)]
      BY <2>4 DEF Clone
    <3>2. Append(arena[p], NewExecutor)[held[u]] = arena[p][held[u]]
      BY <2>1, <2>2
    <3>3. QED
      BY <2>0, <2>2, <3>1, <3>2
  <2>5. CASE ~Load(t) /\ ~Clone(t)
    BY <2>5 DEF Begin, Evaluate, RefuseSize, TakeFree, NoneFree, SizeThrows,
       Forward, ForwardThrows, GiveBack, Return, poolVars
  <2>6. QED
    BY <2>3, <2>4, <2>5
<1>8. pc[u] = "run" => Mine(u)' = Mine(u)
  BY <1>5, <1>6, <1>7 DEF Mine
<1>9. ThreadInv(u)
  BY DEF IsolationInv
<1>10. ThreadInv(u)'
  BY <1>2, <1>3, <1>4, <1>8, <1>9 DEF ThreadInv
<1>11. QED
  BY <1>2, <1>3, <1>4, <1>10

\* The thread that moves gets an answer to its own call.
LEMMA MoverKeeps ==
  ASSUME ModelInv, IsolationInv, NEW t \in Threads, Begin(t) \/ Evaluate(t)
  PROVE  ThreadInv(t)' /\ DOMAIN (reply') = Threads
<1>1. /\ ThreadInv(t) /\ DOMAIN reply = Threads /\ pc \in [Threads -> {"idle", "acquire", "clone", "return"} \cup Holding]
      /\ call \in [Threads -> AllCalls \cup {NoCall}] /\ (call[t] = NoCall <=> pc[t] = "idle")
  BY DEF ModelInv, IsolationInv, CallsOK
<1>2. DOMAIN (reply') = Threads
  BY <1>1 DEF Begin, Evaluate, RefuseSize, TakeFree, NoneFree, Clone, Load, SizeThrows,
     Forward, ForwardThrows, GiveBack, Return
<1>3. CASE Begin(t) \/ TakeFree(t) \/ NoneFree(t) \/ Clone(t)
  <2>1. reply' = reply /\ pc[t] \in {"idle", "acquire", "clone"} /\ pc'[t] \in {"acquire", "clone", "load"}
    BY <1>1, <1>3 DEF Begin, TakeFree, NoneFree, Clone, Goto
  <2>2. QED
    BY <1>1, <1>2, <2>1 DEF ThreadInv
<1>4. CASE RefuseSize(t) \/ SizeThrows(t)
  <2>1. call' = call /\ call[t].q = WrongSize /\ pc'[t] \in {"release", "return"} /\ reply'[t] = Failed
    BY <1>1, <1>4 DEF RefuseSize, SizeThrows, Goto
  <2>2. Visible(Failed) \in AnswersTo(call[t])
    BY <2>1 DEF Visible, Failed, AnswersTo
  <2>3. QED
    BY <1>2, <2>1, <2>2 DEF ThreadInv
<1>5. CASE Load(t)
  <2>1. call' = call /\ reply' = reply /\ pc[t] = "load" /\ pc'[t] = "run" /\ call[t].q # WrongSize
    BY <1>1, <1>5 DEF Load, Goto
  <2>2. Mine(t)' = call[t].q
    <3>1. MyPool(t)' = MyPool(t) /\ held' = held
      BY <1>5, PoolsOfSteps DEF Load
    <3>2. QED
      BY <1>5, <3>1, LoadStep DEF Mine, ModelInv
  <2>3. QED
    BY <1>1, <1>2, <2>1, <2>2 DEF ThreadInv
<1>6. CASE Forward(t) \/ ForwardThrows(t)
  <2>1. call' = call /\ pc[t] = "run" /\ pc'[t] = "release" /\ call[t].q # WrongSize /\ Mine(t) = call[t].q
    BY <1>1, <1>6 DEF Forward, ForwardThrows, Goto, ThreadInv
  <2>2. Visible(reply'[t]) \in AnswersTo(call[t])
    <3>1. CASE Forward(t)
      <4>1. reply'[t] = IF call[t].op = "density" THEN ValueAt(call[t].q) ELSE RowAt(call[t], call[t].q)
        BY <1>1, <2>1, <3>1 DEF Forward
      <4>2. Visible(ValueAt(call[t].q)) = ValueAt(call[t].q)
        BY DEF Visible, ValueAt
      <4>3. Visible(RowAt(call[t], call[t].q)) = [op |-> "row", at |-> call[t].q]
        BY DEF Visible, RowAt
      <4>4. QED
        BY <2>1, <4>1, <4>2, <4>3 DEF AnswersTo
    <3>2. CASE ForwardThrows(t)
      <4>1. reply'[t] = IF call[t].op = "density" THEN Rejected ELSE Failed
        BY <1>1, <3>2 DEF ForwardThrows
      <4>2. Visible(Rejected) = Rejected /\ Visible(Failed) = Failed
        BY DEF Visible, Rejected, Failed
      <4>3. QED
        BY <2>1, <4>1, <4>2 DEF AnswersTo
    <3>3. QED
      BY <1>6, <3>1, <3>2
  <2>3. QED
    BY <1>2, <2>1, <2>2 DEF ThreadInv
<1>7. CASE GiveBack(t)
  <2>1. reply' = reply /\ call' = call /\ pc[t] = "release" /\ pc'[t] = "return"
    BY <1>1, <1>7 DEF GiveBack, Goto
  <2>2. QED
    BY <1>1, <1>2, <2>1 DEF ThreadInv
<1>8. CASE Return(t)
  <2>1. reply'[t] = NoCall /\ pc'[t] = "idle"
    BY <1>1, <1>8 DEF Return, Goto
  <2>2. QED
    BY <1>2, <2>1 DEF ThreadInv
<1>9. QED
  BY <1>3, <1>4, <1>5, <1>6, <1>7, <1>8 DEF Evaluate

LEMMA IsolationInvInit == Init => IsolationInv
BY DEF Init, IsolationInv, ThreadInv

LEMMA IsolationInvStep == ModelInv /\ IsolationInv /\ [Next]_vars => IsolationInv'
<1> SUFFICES ASSUME ModelInv, IsolationInv, [Next]_vars PROVE IsolationInv'
  OBVIOUS
<1>1. CASE Construct \/ UNCHANGED vars
  <2>1. UNCHANGED <<callVars, poolVars>>
    BY <1>1, ConstructStep DEF ModelInv, vars
  <2>2. \A t \in Threads : pc[t] = "run" => MyPool(t)' = MyPool(t)
    <3>1. CASE UNCHANGED vars
      BY <3>1 DEF vars, buildVars, callVars, MyPool, PoolOf
    <3>2. CASE Construct
      <4>1. ~Constructed
        BY <3>2 DEF Construct, ProbeThrows, ProbeSucceeds, NoWriteArray, GraphColumns, Probing, Constructed
      <4>2. QED
        BY <4>1 DEF ModelInv, ConstructInv
    <3>3. QED
      BY <1>1, <3>1, <3>2
  <2>3. ASSUME NEW t \in Threads PROVE ThreadInv(t)'
    <3>1. pc[t] = "run" => Mine(t)' = Mine(t)
      BY <2>1, <2>2 DEF Mine, callVars, poolVars
    <3>2. ThreadInv(t)
      BY DEF IsolationInv
    <3>3. QED
      BY <2>1, <3>1, <3>2 DEF ThreadInv, callVars
  <2>4. QED
    BY <2>1, <2>3 DEF IsolationInv, callVars
<1>2. CASE \E t \in Threads : Begin(t) \/ Evaluate(t)
  <2>1. PICK t \in Threads : Begin(t) \/ Evaluate(t)
    BY <1>2
  <2>2. \A u \in Threads \ {t} : ThreadInv(u)'
    BY <2>1, OthersKeep
  <2>3. QED
    BY <2>1, <2>2, MoverKeeps DEF IsolationInv
<1>3. QED
  BY <1>1, <1>2 DEF Next

\* The answers as ModelCalls sees them.
Seen == [t \in Threads |-> IF pc[t] = "return" THEN Visible(reply[t]) ELSE NoCall]

LEMMA AnswersAreNotNoCall == \A c \in AllCalls : NoCall \notin AnswersTo(c)
BY DEF NoCall, AnswersTo, Failed, ValueAt, Rejected

LEMMA IsolatedStep ==
  ASSUME ModelInv, IsolationInv, [Next]_vars
  PROVE  [Isolated!Next]_(Isolated!callVars)
<1>0. /\ call \in [Threads -> AllCalls \cup {NoCall}]
      /\ pc \in [Threads -> {"idle", "acquire", "clone", "return"} \cup Holding]
      /\ DOMAIN reply = Threads
  BY DEF ModelInv, CallsOK, IsolationInv
<1>1. CASE Construct \/ UNCHANGED vars
  <2>1. UNCHANGED callVars
    BY <1>1, ConstructStep DEF ModelInv, vars
  <2>2. QED
    BY <2>1 DEF Isolated!callVars, callVars
<1>2. ASSUME NEW t \in Threads, Begin(t) \/ Evaluate(t) PROVE [Isolated!Next]_(Isolated!callVars)
  <2>1. \A u \in Threads \ {t} : Seen'[u] = Seen[u] /\ call'[u] = call[u]
    BY <1>2, OthersKeep DEF Seen
  <2>2. Seen \in [Threads -> {Seen[u] : u \in Threads}] /\ DOMAIN Seen = Threads /\ DOMAIN Seen' = Threads
    BY DEF Seen
  <2>3. ASSUME NEW a, Seen'[t] = a PROVE Seen' = [Seen EXCEPT ![t] = a]
    BY <2>1, <2>3 DEF Seen
  <2>4. call[t] = NoCall <=> pc[t] = "idle"
    BY DEF ModelInv, CallsOK
  <2>5. CASE Begin(t)
    <3>1. PICK c \in AllCalls : call' = [call EXCEPT ![t] = c]
      BY <2>5 DEF Begin
    <3>2. Seen'[t] = Seen[t]
      BY <2>5, <1>0 DEF Seen, Begin, Goto
    <3>3. Seen' = Seen
      BY <2>1, <3>2 DEF Seen
    <3>4. Isolated!Ask(t)
      BY <2>4, <2>5, <3>1, <3>3 DEF Isolated!Ask, Seen, Begin, Goto
    <3>5. QED
      BY <3>4 DEF Isolated!Next
  <2>6. CASE GiveBack(t) \/ RefuseSize(t)
    <3>1. call' = call /\ pc[t] \notin {"idle", "return"} /\ pc'[t] = "return"
      BY <2>6, <1>0 DEF GiveBack, RefuseSize, Goto
    <3>2. call[t] \in AllCalls
      BY <1>0, <2>4, <3>1
    <3>3. Visible(reply'[t]) \in AnswersTo(call[t])
      BY <1>2, <3>1, MoverKeeps DEF ThreadInv
    <3>4. Seen[t] = NoCall /\ Seen'[t] = Visible(reply'[t])
      BY <3>1 DEF Seen
    <3>5. Seen' = [Seen EXCEPT ![t] = Visible(reply'[t])]
      BY <2>3, <3>4
    <3>6. Isolated!Answer(t)
      BY <2>4, <3>1, <3>2, <3>3, <3>4, <3>5 DEF Isolated!Answer, Seen
    <3>7. QED
      BY <3>6 DEF Isolated!Next
  <2>7. CASE Return(t)
    <3>1. call' = [call EXCEPT ![t] = NoCall] /\ pc[t] = "return" /\ pc'[t] = "idle"
      BY <2>7, <1>0 DEF Return, Goto
    <3>2. call[t] \in AllCalls
      BY <1>0, <2>4, <3>1
    <3>3. Seen[t] \in AnswersTo(call[t])
      BY <3>1 DEF Seen, IsolationInv, ThreadInv
    <3>4. Seen[t] # NoCall /\ Seen'[t] = NoCall
      BY <3>1, <3>2, <3>3, AnswersAreNotNoCall DEF Seen
    <3>5. Seen' = [Seen EXCEPT ![t] = NoCall]
      BY <2>3, <3>4
    <3>6. Isolated!Take(t)
      BY <3>1, <3>4, <3>5 DEF Isolated!Take, Seen
    <3>7. QED
      BY <3>6 DEF Isolated!Next
  <2>8. CASE TakeFree(t) \/ NoneFree(t) \/ Clone(t) \/ Load(t) \/ SizeThrows(t)
             \/ Forward(t) \/ ForwardThrows(t)
    <3>1. call' = call /\ pc[t] # "return" /\ pc'[t] # "return"
      BY <2>8, <1>0 DEF TakeFree, NoneFree, Clone, Load, SizeThrows, Forward, ForwardThrows, Goto
    <3>2. Seen'[t] = Seen[t]
      BY <3>1 DEF Seen
    <3>3. Seen' = Seen
      BY <2>1, <3>2 DEF Seen
    <3>4. QED
      BY <3>1, <3>3 DEF Isolated!callVars, Seen
  <2>9. QED
    BY <1>2, <2>5, <2>6, <2>7, <2>8 DEF Evaluate
<1>3. QED
  BY <1>1, <1>2 DEF Next

\* Threads that share executors cannot be told from threads that do not: each
\* call is answered for its own point, or fails.
THEOREM IsolationTheorem == Spec => Isolated!Safety
<1>1. Init => Isolated!Init
  BY DEF Init, Isolated!Init
<1>2. QED
  BY <1>1, ModelInvInit, ModelInvStep, IsolationInvInit, IsolationInvStep, IsolatedStep, PTL
     DEF Spec, Safety, Isolated!Safety

\* The types of the state; an executor in a list or a lease exists.
THEOREM TypeCorrect == Spec => []TypeOK
<1>1. ModelInv /\ IsolationInv => TypeOK
  <2> SUFFICES ASSUME ModelInv, IsolationInv PROVE TypeOK
    OBVIOUS
  <2>1. \A t \in Threads : reply[t] \in Replies \/ reply[t].op = "row"
    <3> SUFFICES ASSUME NEW t \in Threads, reply[t].op # "row" PROVE reply[t] \in Replies
      OBVIOUS
    <3>1. CASE pc[t] \in {"release", "return"}
      <4>1. Visible(reply[t]) = reply[t] /\ reply[t] \in AnswersTo(call[t])
        BY <3>1 DEF IsolationInv, ThreadInv, Visible
      <4>2. call[t] \in AllCalls
        BY <3>1 DEF ModelInv, CallsOK
      <4>3. call[t].q \in Points \cup {WrongSize}
        BY <4>2, CallType
      <4>4. \/ reply[t] \in {Failed, Rejected}
            \/ reply[t] = [op |-> "value", at |-> call[t].q] /\ call[t].q # WrongSize
            \/ reply[t] = [op |-> "row", at |-> call[t].q]
        BY <4>1 DEF AnswersTo, ValueAt
      <4>5. reply[t] # [op |-> "row", at |-> call[t].q]
        OBVIOUS
      <4>6. QED
        BY <4>3, <4>4, <4>5 DEF Replies
    <3>2. CASE pc[t] \notin {"release", "return"}
      BY <3>2 DEF IsolationInv, ThreadInv, Replies
    <3>3. QED
      BY <3>1, <3>2
  <2>2. QED
    BY <2>1 DEF ModelInv, CallsOK, ExecInv, ExecutorsOK, Index, TypeOK
<1>2. QED
  BY <1>1, ModelInvInit, ModelInvStep, IsolationInvInit, IsolationInvStep, PTL DEF Spec, Safety
-----------------------------------------------------------------------------
(* Rows and their names.                                                   *)

\* The sections of an interpreter no probe has torn are those of Columns.
LabelInv ==
  ~torn =>
    /\ ~Constructed => cols_ = <<>>
    /\ Constructed => /\ columns_ = Row
                      /\ n_tp_start_ = NumParams
                      /\ n_gq_start_ = IF write_array = "none" THEN NumParams
                                       ELSE NumParams + NumTParams

RowInv ==
  \A t \in Threads : pc[t] \in {"release", "return"} /\ reply[t].op = "row" =>
    reply[t].names = Selected(columns_, call[t]) /\ reply[t].values = Copied(call[t])

LEMMA Concatenated ==
  ASSUME NEW s, s \in Seq(STRING), NEW i \in Nat, NEW j \in Nat, i + j <= Len(s)
  PROVE  SubSeq(s, 1, i + j) = SubSeq(s, 1, i) \o SubSeq(s, i + 1, i + j)
OBVIOUS

LEMMA Whole ==
  ASSUME NEW s, s \in Seq(STRING)
  PROVE  /\ SubSeq(s, 1, Len(s)) = s /\ SubSeq(s, Len(s) + 1, Len(s)) = <<>> /\ s \o <<>> = s
         /\ [i \in 1..Len(s) |-> IF i <= Len(s) THEN s[i] ELSE Blank] = s
<1>1. SubSeq(s, 1, Len(s)) = s
  OBVIOUS
<1>2. SubSeq(s, Len(s) + 1, Len(s)) = <<>>
  OBVIOUS
<1>3. s \o <<>> = s
  OBVIOUS
<1>4. [i \in 1..Len(s) |-> IF i <= Len(s) THEN s[i] ELSE Blank] = s
  OBVIOUS
<1>5. QED
  BY <1>1, <1>2, <1>3, <1>4

LEMMA LabelsWanted ==
  ASSUME NEW c, Constructed, ~torn, LabelInv
  PROVE  Selected(columns_, c) = Wanted(c) /\ Copied(c) = Wanted(c)
<1>1. /\ columns_ = Row /\ n_tp_start_ = NumParams
      /\ n_gq_start_ = IF write_array = "none" THEN NumParams ELSE NumParams + NumTParams
  BY DEF LabelInv
<1>2. First(NumParams) \in Seq(STRING) /\ Len(First(NumParams)) = NumParams
  BY StanliAssumption DEF First
<1>3. Row \in Seq(STRING)
  BY <1>2, StanliAssumption DEF Row
<1>4. Copied(c) = Selected(columns_, c)
  <2>1. [i \in 1..Len(columns_) |-> IF i <= Len(Row) THEN Row[i] ELSE Blank] = columns_
    BY <1>1, <1>3, Whole
  <2>2. QED
    BY <2>1 DEF Copied
<1>5. CASE write_array = "none"
  <2>1. columns_ = First(NumParams) /\ n_tp_start_ = Len(columns_) /\ n_gq_start_ = Len(columns_)
    BY <1>1, <1>2, <1>5 DEF Row
  <2>2. Selected(columns_, c) = columns_
    BY <1>2, <2>1, Whole DEF Selected
  <2>3. QED
    BY <1>4, <1>5, <2>1, <2>2 DEF Wanted
<1>6. CASE write_array # "none"
  <2>1. columns_ = Columns /\ n_gq_start_ = NumParams + NumTParams
    BY <1>1, <1>6 DEF Row
  <2>2. SubSeq(Columns, 1, NumParams + NumTParams)
          = First(NumParams) \o SubSeq(Columns, NumParams + 1, NumParams + NumTParams)
    BY StanliAssumption, Concatenated DEF First
  <2>3. First(NumParams) \o <<>> = First(NumParams)
    BY <1>2, Whole
  <2>4. Selected(columns_, c) = Wanted(c)
    BY <1>1, <1>6, <2>1, <2>2, <2>3 DEF Selected, Wanted, First
  <2>5. QED
    BY <1>4, <2>4
<1>7. QED
  BY <1>5, <1>6

LEMMA LabelInvStep ==
  ASSUME ModelInv, LabelInv, [Next]_vars
  PROVE  LabelInv'
<1>1. CASE Construct
  <2>0. ~Constructed
    BY <1>1 DEF Construct, ProbeThrows, ProbeSucceeds, NoWriteArray, GraphColumns, Probing, Constructed
  <2>1. CASE ProbeThrows
    <3>1. PICK n \in ProbeStops : Discover(n) /\ torn' = (torn \/ n > 0) /\ variant' = variant + 1
                                 /\ variant < 3
      BY <2>1 DEF ProbeThrows, Probing
    <3>2. ~Constructed'
      BY <3>1 DEF Constructed, ModelInv, CallsOK
    <3>3. ASSUME ~torn' PROVE cols_' = <<>>
      <4>1. ~torn /\ n = 0
        <5>1. ~torn /\ ~(n > 0)
          BY <3>1, <3>3, Zenon
        <5>2. n \in 0..Len(Columns)
          BY StanliAssumption
        <5>3. QED
          BY <5>1, <5>2, StanliAssumption
      <4>2. cols_ = <<>>
        BY <4>1, <2>0 DEF LabelInv
      <4>3. First(0) = <<>>
        BY StanliAssumption DEF First
      <4>4. QED
        BY <3>1, <4>1, <4>2, <4>3 DEF Discover
    <3>4. QED
      BY <3>2, <3>3 DEF LabelInv
  <2>2. CASE ProbeSucceeds
    <3>1. /\ Discover(Len(Columns)) /\ columns_' = cols_' /\ variant' = 4 /\ torn' = torn
          /\ write_array' = write_array /\ write_array = "interp"
      BY <2>2 DEF ProbeSucceeds, Probing
    <3>2. ASSUME ~torn
          PROVE  columns_' = Columns /\ n_tp_start_' = NumParams /\ n_gq_start_' = NumParams + NumTParams
      <4>1. cols_ = <<>>
        BY <3>2, <2>0 DEF LabelInv
      <4>2. First(Len(Columns)) = Columns /\ <<>> \o Columns = Columns
        BY StanliAssumption, Whole DEF First
      <4>3. Len(Columns) >= NumParams /\ Len(Columns) >= NumParams + NumTParams
        BY StanliAssumption
      <4>4. QED
        BY <3>1, <4>1, <4>2, <4>3, StanliAssumption DEF Discover
    <3>3. QED
      BY <3>1, <3>2 DEF LabelInv, Constructed, Row
  <2>3. CASE NoWriteArray
    BY <2>3 DEF NoWriteArray, LabelInv, Constructed, Row
  <2>4. CASE GraphColumns
    BY <2>4 DEF GraphColumns, LabelInv, Constructed, Row
  <2>5. QED
    BY <1>1, <2>1, <2>2, <2>3, <2>4 DEF Construct
<1>2. CASE UNCHANGED buildVars
  BY <1>2 DEF buildVars, LabelInv, Constructed, Row
<1>3. QED
  BY <1>1, <1>2 DEF Next, vars, Begin, Evaluate, RefuseSize, TakeFree, NoneFree, Clone, Load,
     SizeThrows, Forward, ForwardThrows, GiveBack, Return

LEMMA RowInvStep ==
  ASSUME ModelInv, IsolationInv, RowInv, [Next]_vars
  PROVE  RowInv'
<1> SUFFICES ASSUME NEW t \in Threads, pc'[t] \in {"release", "return"}, reply'[t].op = "row"
    PROVE reply'[t].names = Selected(columns_, call[t])' /\ reply'[t].values = Copied(call[t])'
  BY DEF RowInv
<1>1. CASE Construct
  BY <1>1, ConstructStep DEF ModelInv, ConstructInv, Construct, ProbeThrows, ProbeSucceeds,
     NoWriteArray, GraphColumns, Probing, Constructed, callVars
<1>2. CASE UNCHANGED vars
  BY <1>2 DEF vars, buildVars, callVars, RowInv, Selected, Copied, Row
<1>3. ASSUME NEW u \in Threads, Begin(u) \/ Evaluate(u)
      PROVE  reply'[t].names = Selected(columns_, call[t])' /\ reply'[t].values = Copied(call[t])'
  <2>1. UNCHANGED buildVars
    BY <1>3 DEF Begin, Evaluate, RefuseSize, TakeFree, NoneFree, Clone, Load, SizeThrows,
       Forward, ForwardThrows, GiveBack, Return
  <2>2. CASE u # t
    <3>1. pc'[t] = pc[t] /\ call'[t] = call[t] /\ reply'[t] = reply[t]
      BY <1>3, <2>2, OthersKeep
    <3>2. QED
      BY <2>1, <3>1 DEF RowInv, buildVars, Selected, Copied, Row
  <2>3. CASE u = t /\ Forward(t)
    <3>1. call' = call /\ call[t].op # "density" /\ reply'[t] = RowAt(call[t], Mine(t))
      BY <2>3 DEF Forward, IsolationInv, ValueAt
    <3>2. reply'[t].names = Selected(columns_, call[t]) /\ reply'[t].values = Copied(call[t])
      BY <3>1 DEF RowAt
    <3>3. QED
      BY <2>1, <3>1, <3>2 DEF buildVars, Selected, Copied, Row
  <2>4. CASE u = t /\ GiveBack(t)
    <3>1. pc[t] = "release" /\ call' = call /\ reply' = reply
      BY <2>4 DEF GiveBack, Goto
    <3>2. QED
      BY <2>1, <3>1 DEF RowInv, buildVars, Selected, Copied, Row
  <2>5. CASE u = t /\ ~Forward(t) /\ ~GiveBack(t)
    <3>1. pc \in [Threads -> {"idle", "acquire", "clone", "return"} \cup Holding] /\ DOMAIN reply = Threads
      BY DEF ModelInv, CallsOK, IsolationInv
    <3>2. CASE RefuseSize(t) \/ SizeThrows(t) \/ ForwardThrows(t)
      BY <3>1, <3>2 DEF RefuseSize, SizeThrows, ForwardThrows, Failed, Rejected
    <3>3. CASE Begin(t) \/ TakeFree(t) \/ NoneFree(t) \/ Clone(t) \/ Load(t) \/ Return(t)
      BY <3>1, <3>3 DEF Begin, TakeFree, NoneFree, Clone, Load, Return, Goto
    <3>4. QED
      BY <1>3, <2>5, <3>2, <3>3 DEF Evaluate
  <2>6. QED
    BY <1>3, <2>2, <2>3, <2>4, <2>5
<1>4. QED
  BY <1>1, <1>2, <1>3 DEF Next

\* A row of write_array() has the sections its caller asks for and the names
\* of its values, unless a probe threw after its first column.
THEOREM RowsTheorem == Spec => []RowsLabelledUnlessTorn
<1> DEFINE All == ModelInv /\ IsolationInv /\ LabelInv /\ RowInv
<1>1. Init => All
  BY ModelInvInit, IsolationInvInit DEF Init, LabelInv, RowInv, Constructed
<1>2. All /\ [Next]_vars => All'
  BY ModelInvStep, IsolationInvStep, LabelInvStep, RowInvStep
<1>3. All => RowsLabelledUnlessTorn
  <2> SUFFICES ASSUME All, ~torn, NEW t \in Threads,
                      pc[t] \in {"release", "return"}, reply[t].op = "row"
      PROVE  reply[t].names = Wanted(call[t]) /\ reply[t].values = Wanted(call[t])
    BY DEF RowsLabelledUnlessTorn, RowsAreLabelled, RowIsWanted
  <2>1. Constructed
    BY DEF ModelInv, ConstructInv
  <2>2. QED
    BY <2>1, LabelsWanted DEF RowInv
<1>4. QED
  BY <1>1, <1>2, <1>3, PTL DEF Spec, Safety
=============================================================================
