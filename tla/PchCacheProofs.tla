--------------------------- MODULE PchCacheProofs ---------------------------
(***************************************************************************)
(* The safety of the cache of precompiled headers for every number of      *)
(* sessions and fingerprints, and however often sessions die and headers   *)
(* change.                                                                 *)
(*                                                                         *)
(* That a good model compiles needs to know when GCC finds the header      *)
(* beside its PCH: wherever there is a PCH (Staged), and from when a       *)
(* session has made its flags until somebody removes the entry (Usable).   *)
(* The bound on the cache is of one state, but a session removes what it   *)
(* listed some steps before.  What is inductive (Tidied) counts the        *)
(* entries that would be left if any of the sessions that have a list      *)
(* were done removing it.                                                  *)
(***************************************************************************)
EXTENDS PchCache, FiniteSetTheorems, TLAPS

Staged ==
  compiler = "gcc" =>
    \A f \in Fingerprints : gch[f] # "none" => dir[f] = "staged"

Usable ==
  compiler = "gcc" =>
    \A s \in Sessions : pc[s] \in {"touch", "list", "prune", "compile"} =>
      dir[fp[s]] = "staged" \/ lost[s]

Untidy == {s \in Sessions : pc[s] \in {"building", "built", "touch", "list", "prune"}}
Pruning == {s \in Sessions : pc[s] = "prune"}

\* The entries that are left when the sessions of S have removed what they
\* listed, but for those of the sessions that have yet to tidy up.
Extra(S) ==
  {f \in Present : /\ \A s \in S : f \notin old[s]
                   /\ \A s \in Untidy \ S : fp[s] # f}

Tidied == \A S \in SUBSET Pruning : Cardinality(Extra(S)) <= Keep + crashes
-----------------------------------------------------------------------------
(* The order of the mtimes.                                                *)

LEMMA WriteOrders ==
  ASSUME TypeOK, NEW f \in Fingerprints, newer' = Touched(f), Present' = Present \cup {f}
  PROVE  MtimesOrdered'
BY SMTT(30) DEF TypeOK, MtimesOrdered, Touched, Without

LEMMA RemovalOrders ==
  ASSUME TypeOK, NEW fs \in SUBSET Fingerprints, newer' = Without(fs), Present' = Present \ fs
  PROVE  MtimesOrdered'
BY SMTT(30) DEF TypeOK, MtimesOrdered, Without

LEMMA NothingOrders ==
  ASSUME TypeOK, newer' = newer, Present' = Present
  PROVE  MtimesOrdered'
BY DEF TypeOK, MtimesOrdered

\* What each step does to the PCHs and their mtimes.
LEMMA DiskSteps ==
  ASSUME TypeOK, Next
  PROVE  \/ \E f \in Fingerprints : newer' = Touched(f) /\ Present' = Present \cup {f}
         \/ \E fs \in SUBSET Fingerprints : newer' = Without(fs) /\ Present' = Present \ fs
         \/ newer' = newer /\ Present' = Present
<1>1. ASSUME NEW f \in Fingerprints, NEW state \in {"partial", "good"}, WritePch(f, state)
      PROVE  newer' = Touched(f) /\ Present' = Present \cup {f}
  BY <1>1 DEF TypeOK, WritePch, Present
<1>2. ASSUME NEW f \in Fingerprints, UnlinkPch(f)
      PROVE  newer' = Without({f}) /\ Present' = Present \ {f}
  BY <1>2 DEF TypeOK, UnlinkPch, Present
<1>3. ASSUME gch' = gch PROVE Present' = Present
  BY <1>3 DEF Present
<1>4. ASSUME NEW s \in Sessions, Flags(s)
      PROVE  \/ \E f \in Fingerprints : newer' = Touched(f) /\ Present' = Present \cup {f}
             \/ \E fs \in SUBSET Fingerprints : newer' = Without(fs) /\ Present' = Present \ fs
             \/ newer' = newer /\ Present' = Present
  <2> fp[s] \in Fingerprints
    BY DEF TypeOK
  <2>1. CASE Unlink(s)
    BY <2>1, <1>2 DEF Unlink
  <2>2. CASE LookFound(s) \/ LookMissing(s) \/ Built(s) \/ ListOld(s)
    BY <2>2, <1>3 DEF LookFound, LookMissing, Built, ListOld, disk
  <2>3. CASE BuildStart(s)
    BY <2>3, <1>1, <1>3 DEF BuildStart, disk
  <2>4. CASE BuildDone(s)
    <3>1. PICK state \in {"partial", "good"} : WritePch(fp[s], state)
      BY <2>4 DEF BuildDone
    <3> QED BY <3>1, <1>1
  <2>5. CASE BuildFails(s)
    BY <2>5, <1>2, <1>3 DEF BuildFails, disk
  <2>6. CASE Touch(s)
    <3>1. CASE gch[fp[s]] = "none"
      BY <2>6, <3>1, <1>3 DEF Touch
    <3>2. CASE gch[fp[s]] # "none"
      BY <2>6, <3>2 DEF Touch, Present
    <3> QED BY <3>1, <3>2
  <2>7. CASE Prune(s)
    <3>1. old[s] \in SUBSET Fingerprints
      BY DEF TypeOK
    <3>2. Present' = Present \ old[s]
      BY <2>7 DEF Prune, Present
    <3> QED BY <2>7, <3>1, <3>2 DEF Prune
  <2> QED BY <1>4, <2>1, <2>2, <2>3, <2>4, <2>5, <2>6, <2>7 DEF Flags
<1>5. ASSUME NEW s \in Sessions,
             Begin(s) \/ CompileWorks(s) \/ CompileFails(s) \/ CompilePlain(s) \/ Crash(s)
      PROVE  newer' = newer /\ Present' = Present
  BY <1>5, <1>3 DEF Begin, CompileWorks, CompileFails, CompilePlain, Crash, disk
<1>6. ASSUME NEW f \in Fingerprints, Outdate(f)
      PROVE  newer' = newer /\ Present' = Present
  BY <1>6 DEF Outdate, Present, TypeOK
<1> QED BY <1>4, <1>5, <1>6, Zenon DEF Next
-----------------------------------------------------------------------------
(* The types.                                                              *)

LEMMA TypeInit == Init => TypeOK
<1> SUFFICES ASSUME Init PROVE TypeOK
  OBVIOUS
<1>1. MtimesOrdered
  BY DEF Init, MtimesOrdered, Present
<1>2. /\ model_ok \in [Sessions -> BOOLEAN] /\ rebuild \in [Sessions -> BOOLEAN]
      /\ lost \in [Sessions -> BOOLEAN]
  BY DEF Init
<1>3. requests \in [Sessions -> 0..MaxRequests] /\ crashes \in 0..MaxCrashes /\ outdated \in 0..MaxOutdated
  BY PchAssumption DEF Init
<1> QED BY <1>1, <1>2, <1>3 DEF Init, TypeOK, PCs

LEMMA TypeFlags ==
  ASSUME TypeOK, MtimesOrdered', NEW s \in Sessions, Flags(s)
  PROVE  TypeOK'
<1> USE DEF TypeOK, PCs, Goto, disk, session, bounds
<1>1. CASE Unlink(s)
  BY <1>1 DEF Unlink, UnlinkPch
<1>2. CASE LookFound(s)
  BY <1>2 DEF LookFound
<1>3. CASE LookMissing(s)
  BY <1>3 DEF LookMissing
<1>4. CASE BuildStart(s)
  BY <1>4 DEF BuildStart, WritePch
<1>5. CASE BuildDone(s)
  BY <1>5 DEF BuildDone, WritePch
<1>6. CASE BuildFails(s)
  BY <1>6 DEF BuildFails, UnlinkPch
<1>7. CASE Built(s)
  BY <1>7 DEF Built
<1>8. CASE Touch(s)
  BY <1>8 DEF Touch
<1>9. CASE ListOld(s)
  <2>1. OldEntries \in SUBSET Fingerprints
    BY DEF OldEntries, Present
  <2> QED BY <1>9, <2>1 DEF ListOld
<1>10. CASE Prune(s)
  <2>1. lost' \in [Sessions -> BOOLEAN]
    BY <1>10 DEF Prune
  <2>2. /\ dir' \in [Fingerprints -> {"absent", "empty", "staged"}]
        /\ gch' \in [Fingerprints -> {"none", "partial", "stale", "good"}]
    BY <1>10 DEF Prune
  <2>3. old' \in [Sessions -> SUBSET Fingerprints] /\ pc' \in [Sessions -> PCs]
    BY <1>10 DEF Prune
  <2> QED BY <1>10, <2>1, <2>2, <2>3 DEF Prune
<1> QED BY <1>1, <1>2, <1>3, <1>4, <1>5, <1>6, <1>7, <1>8, <1>9, <1>10 DEF Flags

LEMMA TypeSession ==
  ASSUME TypeOK, MtimesOrdered', NEW s \in Sessions,
         Begin(s) \/ CompileWorks(s) \/ CompileFails(s) \/ CompilePlain(s) \/ Crash(s)
  PROVE  TypeOK'
<1> USE DEF TypeOK, PCs, Goto, Finish, disk, session, bounds
<1>1. CASE Begin(s)
  <2>1. requests' \in [Sessions -> 0..MaxRequests]
    BY <1>1, PchAssumption DEF Begin
  <2>2. fp' \in [Sessions -> Fingerprints] /\ model_ok' \in [Sessions -> BOOLEAN]
    BY <1>1 DEF Begin
  <2>3. rebuild' \in [Sessions -> BOOLEAN] /\ lost' \in [Sessions -> BOOLEAN]
    BY <1>1 DEF Begin
  <2>4. /\ pc' \in [Sessions -> PCs]
        /\ reason' \in [Sessions -> {"none", "pch", "model"}]
        /\ result' \in [Sessions -> {"none", "compiled", "failed"}]
    BY <1>1 DEF Begin
  <2> QED BY <1>1, <2>1, <2>2, <2>3, <2>4 DEF Begin
<1>2. CASE CompileWorks(s)
  BY <1>2 DEF CompileWorks
<1>3. CASE CompileFails(s)
  <2>1. rebuild' \in [Sessions -> BOOLEAN]
    BY <1>3 DEF CompileFails
  <2>2. reason' \in [Sessions -> {"none", "pch", "model"}]
    BY <1>3 DEF CompileFails
  <2>3. pc' \in [Sessions -> PCs] /\ result' \in [Sessions -> {"none", "compiled", "failed"}]
    BY <1>3 DEF CompileFails
  <2> QED BY <1>3, <2>1, <2>2, <2>3 DEF CompileFails
<1>4. CASE CompilePlain(s)
  BY <1>4 DEF CompilePlain
<1>5. CASE Crash(s)
  <2>1. crashes' \in 0..MaxCrashes
    BY <1>5, PchAssumption DEF Crash
  <2> QED BY <1>5, <2>1 DEF Crash
<1> QED BY <1>1, <1>2, <1>3, <1>4, <1>5

LEMMA TypeStep == TypeOK /\ [Next]_vars => TypeOK'
<1> SUFFICES ASSUME TypeOK, [Next]_vars PROVE TypeOK'
  OBVIOUS
<1>1. ASSUME Next PROVE MtimesOrdered'
  BY <1>1, DiskSteps, WriteOrders, RemovalOrders, NothingOrders
<1>2. CASE \E s \in Sessions : Flags(s)
  BY <1>1, <1>2, TypeFlags DEF Next
<1>3. CASE \E s \in Sessions :
             Begin(s) \/ CompileWorks(s) \/ CompileFails(s) \/ CompilePlain(s) \/ Crash(s)
  BY <1>1, <1>3, TypeSession DEF Next
<1>4. CASE \E f \in Fingerprints : Outdate(f)
  <2>1. outdated' \in 0..MaxOutdated
    BY <1>4, PchAssumption DEF Outdate, TypeOK
  <2>2. gch' \in [Fingerprints -> {"none", "partial", "stale", "good"}]
    BY <1>4 DEF Outdate, TypeOK
  <2>3. UNCHANGED <<compiler, dir, pc, session, old, lost, crashes>>
    BY <1>4 DEF Outdate
  <2>4. MtimesOrdered'
    BY <1>1, <1>4, Zenon DEF Next
  <2>5. UNCHANGED <<fp, model_ok, rebuild, reason, result, requests>>
    BY <2>3 DEF session
  <2> QED BY <2>1, <2>2, <2>3, <2>4, <2>5 DEF TypeOK, PCs
<1>5. CASE UNCHANGED vars
  BY <1>5 DEF TypeOK, MtimesOrdered, Present, PCs, vars, disk, session, bounds
<1> QED BY <1>2, <1>3, <1>4, <1>5, Zenon DEF Next

\* In every reachable state the mtimes order exactly the entries that have a
\* PCH, whatever the sessions build, remove and touch at once (pch.R:94 sorts by them).
THEOREM TypeCorrect == Spec => []TypeOK
BY TypeInit, TypeStep, PTL DEF Spec
-----------------------------------------------------------------------------
(* A good model compiles.                                                  *)

Found == TypeOK /\ Staged /\ Usable /\ GoodModelsCompile

LEMMA FoundFlags ==
  ASSUME Found, NEW s \in Sessions, Flags(s)
  PROVE  Staged' /\ Usable' /\ GoodModelsCompile'
<1> USE DEF Found, TypeOK, Staged, Usable, GoodModelsCompile, Goto, disk, session, bounds
<1>1. CASE Unlink(s)
  BY <1>1 DEF Unlink, UnlinkPch
<1>2. CASE LookFound(s)
  BY <1>2 DEF LookFound
<1>3. CASE LookMissing(s)
  BY <1>3 DEF LookMissing
<1>4. CASE BuildStart(s)
  BY <1>4 DEF BuildStart, WritePch
<1>5. CASE BuildDone(s)
  BY <1>5 DEF BuildDone, WritePch
<1>6. CASE BuildFails(s)
  BY <1>6 DEF BuildFails, UnlinkPch
<1>7. CASE Built(s)
  BY <1>7 DEF Built
<1>8. CASE Touch(s)
  BY <1>8 DEF Touch
<1>9. CASE ListOld(s)
  BY <1>9 DEF ListOld
<1>10. CASE Prune(s)
  BY <1>10 DEF Prune
<1> QED BY <1>1, <1>2, <1>3, <1>4, <1>5, <1>6, <1>7, <1>8, <1>9, <1>10 DEF Flags

LEMMA FoundSession ==
  ASSUME Found, NEW s \in Sessions,
         Begin(s) \/ CompileWorks(s) \/ CompileFails(s) \/ CompilePlain(s) \/ Crash(s)
  PROVE  Staged' /\ Usable' /\ GoodModelsCompile'
<1> USE DEF Found, TypeOK, Staged, Usable, GoodModelsCompile, Goto, Finish, disk, session, bounds
<1>1. CASE Begin(s)
  BY <1>1 DEF Begin
<1>2. CASE CompileWorks(s)
  BY <1>2 DEF CompileWorks
<1>3. CASE CompileFails(s)
  BY <1>3 DEF CompileFails, Compiler, IsPchDiagnostic
<1>4. CASE CompilePlain(s)
  BY <1>4 DEF CompilePlain
<1>5. CASE Crash(s)
  BY <1>5 DEF Crash
<1> QED BY <1>1, <1>2, <1>3, <1>4, <1>5

LEMMA FoundStep == Found /\ [Next]_vars => Found'
<1> SUFFICES ASSUME Found, [Next]_vars PROVE Found'
  OBVIOUS
<1>1. TypeOK'
  BY TypeStep DEF Found
<1>2. CASE \E s \in Sessions : Flags(s)
  BY <1>1, <1>2, FoundFlags DEF Found
<1>3. CASE \E s \in Sessions :
             Begin(s) \/ CompileWorks(s) \/ CompileFails(s) \/ CompilePlain(s) \/ Crash(s)
  BY <1>1, <1>3, FoundSession DEF Found
<1>4. CASE \E f \in Fingerprints : Outdate(f)
  BY <1>1, <1>4 DEF Outdate, Found, TypeOK, Staged, Usable, GoodModelsCompile, session
<1>5. CASE UNCHANGED vars
  BY <1>1, <1>5 DEF Found, Staged, Usable, GoodModelsCompile, vars, disk, session
<1> QED BY <1>2, <1>3, <1>4, <1>5, Zenon DEF Next

\* Whatever other sessions build, build again and remove meanwhile, and whoever
\* dies, .stanr_compile_with_pch_retry() compiles every model that compiles;
\* only GCC can fail, and only if the entry was removed after the flags were made.
THEOREM GoodModelsTheorem == Spec => []GoodModelsCompile
<1>1. Init => Found
  BY TypeInit DEF Init, Found, Staged, Usable, GoodModelsCompile
<1>2. Found => GoodModelsCompile
  BY DEF Found
<1> QED BY <1>1, <1>2, FoundStep, PTL DEF Spec
-----------------------------------------------------------------------------
(* The size of the cache.                                                  *)

\* Three entries have an oldest one, and two are newer than it.
LEMMA OnlyTwoAreSpared ==
  ASSUME TypeOK
  PROVE  Cardinality(Present \ OldEntries) <= Keep
<1> DEFINE spared == Present \ OldEntries
<1>1. IsFiniteSet(spared) /\ Cardinality(spared) \in Nat
  BY PchAssumption, FS_Subset, FS_CardinalityType DEF Present
<1>2. \A f \in spared : Cardinality(NewerThan(f)) < 2
  <2>1. ASSUME NEW f \in Present PROVE Cardinality(NewerThan(f)) \in Nat
    BY PchAssumption, FS_Subset, FS_CardinalityType DEF Present, NewerThan
  <2> QED BY <2>1 DEF OldEntries, Keep
<1>3. ASSUME NEW f \in spared, NEW g \in Present, NEW h \in Present, g # h,
             <<g, f>> \in newer, <<h, f>> \in newer
      PROVE  FALSE
  <2>1. {g, h} \in SUBSET NewerThan(f)
    BY <1>3 DEF NewerThan
  <2>2. IsFiniteSet(NewerThan(f))
    BY PchAssumption, FS_Subset DEF Present, NewerThan
  <2>3. Cardinality({g, h}) = 2
    <3>1. Cardinality({g} \cup {h}) = 2
      <4>1. IsFiniteSet({g}) /\ Cardinality({g}) = 1 /\ h \notin {g}
        BY <1>3, FS_Singleton
      <4> HIDE DEF spared
      <4>2. Cardinality({g} \cup {h}) = Cardinality({g}) + 1
        BY <4>1, FS_AddElement, Zenon
      <4> QED BY <4>1, <4>2
    <3>2. {g} \cup {h} = {g, h}
      OBVIOUS
    <3> QED BY <3>1, <3>2
  <2>4. Cardinality(NewerThan(f)) \in Nat /\ 2 <= Cardinality(NewerThan(f))
    BY <2>1, <2>2, <2>3, FS_Subset, FS_CardinalityType
  <2> QED BY <1>2, <2>4
<1>4. SUFFICES ASSUME Cardinality(spared) >= 3 PROVE FALSE
  BY <1>1 DEF Keep
<1>5. PICK a \in spared, b \in spared, c \in spared : a # b /\ a # c /\ b # c
  <2> HIDE DEF spared
  <2>1. PICK a \in spared : TRUE
    BY <1>1, <1>4, FS_EmptySet
  <2>2. IsFiniteSet(spared \ {a}) /\ Cardinality(spared \ {a}) = Cardinality(spared) - 1
    BY <1>1, <2>1, FS_RemoveElement
  <2>3. PICK b \in spared \ {a} : TRUE
    BY <1>1, <1>4, <2>2, FS_EmptySet
  <2>4. IsFiniteSet((spared \ {a}) \ {b}) /\ Cardinality((spared \ {a}) \ {b}) = Cardinality(spared) - 2
    BY <1>1, <2>2, <2>3, FS_RemoveElement
  <2>5. PICK c \in (spared \ {a}) \ {b} : TRUE
    BY <1>1, <1>4, <2>4, FS_EmptySet
  <2> QED BY <2>1, <2>3, <2>5
<1>6. {a, b, c} \subseteq Present
  OBVIOUS
<1> QED BY <1>3, <1>5, <1>6 DEF TypeOK, MtimesOrdered

LEMMA ExtraFinite ==
  ASSUME NEW S PROVE IsFiniteSet(Extra(S)) /\ Cardinality(Extra(S)) \in Nat
BY PchAssumption, FS_Subset, FS_CardinalityType DEF Extra, Present

\* A step that makes a set of entries no larger keeps the bound.
LEMMA NoMoreExtra ==
  ASSUME TypeOK, Tidied, NEW T \in SUBSET Pruning, NEW E, E \subseteq Extra(T)
  PROVE  Cardinality(E) <= Keep + crashes
<1>1. Cardinality(Extra(T)) <= Keep + crashes /\ crashes \in Nat
  BY PchAssumption DEF Tidied, TypeOK
<1>2. IsFiniteSet(Extra(T)) /\ Cardinality(Extra(T)) \in Nat
  BY ExtraFinite
<1>3. Cardinality(E) <= Cardinality(Extra(T)) /\ Cardinality(E) \in Nat
  BY <1>2, FS_Subset, FS_CardinalityType
<1> QED BY <1>1, <1>2, <1>3 DEF Keep

LEMMA TidiedFlags ==
  ASSUME TypeOK, Tidied, NEW s \in Sessions, Flags(s)
  PROVE  Tidied'
<1> SUFFICES ASSUME NEW S \in SUBSET Pruning'
             PROVE  Cardinality(Extra(S)') <= Keep + crashes'
  BY DEF Tidied
<1>0. crashes' = crashes
  BY DEF Flags, Unlink, LookFound, LookMissing, BuildStart, BuildDone, BuildFails, Built,
         Touch, ListOld, Prune, bounds
<1>1. SUFFICES ASSUME ~ListOld(s)
               PROVE  \E T \in SUBSET Pruning : Extra(S)' \subseteq Extra(T)
  <2>1. CASE ListOld(s)
    <3>1. CASE s \in S
      <4>1. Extra(S)' \subseteq Present \ OldEntries
        BY <2>1, <3>1 DEF ListOld, Extra, Present, disk, TypeOK
      <4>2. IsFiniteSet(Present \ OldEntries) /\ Cardinality(Present \ OldEntries) \in Nat
        BY PchAssumption, FS_Subset, FS_CardinalityType DEF Present
      <4>3. Cardinality(Extra(S)') <= Cardinality(Present \ OldEntries) /\ Cardinality(Extra(S)') \in Nat
        BY <4>1, <4>2, FS_Subset, FS_CardinalityType
      <4> QED BY <1>0, <4>2, <4>3, OnlyTwoAreSpared, PchAssumption DEF TypeOK, Keep
    <3>2. CASE s \notin S
      <4>1. S \in SUBSET Pruning
        BY <2>1, <3>2 DEF ListOld, Pruning, Goto, TypeOK
      <4>2. Extra(S)' \subseteq Extra(S)
        BY <2>1, <3>2, <4>1 DEF ListOld, Extra, Present, Untidy, Pruning, Goto, disk, session, TypeOK
      <4> QED BY <1>0, <4>1, <4>2, NoMoreExtra
    <3> QED BY <3>1, <3>2
  <2>2. CASE ~ListOld(s)
    BY <1>0, <1>1, <2>2, NoMoreExtra
  <2> QED BY <2>1, <2>2
<1> USE DEF Extra, Present, Untidy, Pruning, Goto, disk, session, TypeOK
<1>2. CASE Unlink(s)
  <2>1. S \in SUBSET Pruning
    BY <1>2 DEF Unlink, UnlinkPch
  <2>2. Extra(S)' \subseteq Extra(S)
    BY <1>2 DEF Unlink, UnlinkPch
  <2> QED BY <2>1, <2>2
<1>3. CASE LookFound(s)
  <2>1. S \in SUBSET Pruning
    BY <1>3 DEF LookFound
  <2>2. Extra(S)' \subseteq Extra(S)
    BY <1>3 DEF LookFound
  <2> QED BY <2>1, <2>2
<1>4. CASE LookMissing(s)
  <2>1. S \in SUBSET Pruning
    BY <1>4 DEF LookMissing
  <2>2. Extra(S)' \subseteq Extra(S)
    BY <1>4 DEF LookMissing
  <2> QED BY <2>1, <2>2
<1>5. CASE BuildStart(s)
  <2>1. S \in SUBSET Pruning
    BY <1>5 DEF BuildStart, WritePch
  <2>2. Extra(S)' \subseteq Extra(S)
    BY <1>5 DEF BuildStart, WritePch
  <2> QED BY <2>1, <2>2
<1>6. CASE BuildDone(s)
  <2>1. S \in SUBSET Pruning
    BY <1>6 DEF BuildDone, WritePch
  <2>2. Extra(S)' \subseteq Extra(S)
    BY <1>6 DEF BuildDone, WritePch
  <2> QED BY <2>1, <2>2
<1>7. CASE BuildFails(s)
  <2>1. S \in SUBSET Pruning
    BY <1>7 DEF BuildFails, UnlinkPch
  <2>2. Extra(S)' \subseteq Extra(S)
    BY <1>7 DEF BuildFails, UnlinkPch
  <2> QED BY <2>1, <2>2
<1>8. CASE Built(s)
  <2>1. S \in SUBSET Pruning
    BY <1>8 DEF Built
  <2>2. Extra(S)' \subseteq Extra(S)
    BY <1>8 DEF Built
  <2> QED BY <2>1, <2>2
<1>9. CASE Touch(s)
  <2>1. S \in SUBSET Pruning
    BY <1>9 DEF Touch
  <2>2. Extra(S)' \subseteq Extra(S)
    BY <1>9 DEF Touch
  <2> QED BY <2>1, <2>2
<1>10. CASE Prune(s)
  <2>1. S \cup {s} \in SUBSET Pruning
    BY <1>10 DEF Prune
  <2>2. Extra(S)' \subseteq Extra(S \cup {s})
    BY <1>10, <2>1 DEF Prune
  <2> QED BY <2>1, <2>2
<1> QED BY <1>1, <1>2, <1>3, <1>4, <1>5, <1>6, <1>7, <1>8, <1>9, <1>10 DEF Flags

LEMMA TidiedSession ==
  ASSUME TypeOK, Tidied, NEW s \in Sessions,
         Begin(s) \/ CompileWorks(s) \/ CompileFails(s) \/ CompilePlain(s)
  PROVE  Tidied'
<1> SUFFICES ASSUME NEW S \in SUBSET Pruning'
             PROVE  Cardinality(Extra(S)') <= Keep + crashes'
  BY DEF Tidied
<1>1. crashes' = crashes
  BY DEF Begin, CompileWorks, CompileFails, CompilePlain, bounds
<1>2. S \in SUBSET Pruning
  BY DEF Pruning, Begin, CompileWorks, CompileFails, CompilePlain, Goto, Finish, TypeOK
<1>3. Extra(S)' \subseteq Extra(S)
  BY DEF Extra, Present, Untidy, Begin, CompileWorks, CompileFails, CompilePlain, Goto, Finish,
         TypeOK, disk
<1> QED BY <1>1, <1>2, <1>3, NoMoreExtra

\* The entry of a session that dies may be left, but the death is counted.
LEMMA TidiedCrash ==
  ASSUME TypeOK, Tidied, NEW s \in Sessions, Crash(s)
  PROVE  Tidied'
<1> SUFFICES ASSUME NEW S \in SUBSET Pruning'
             PROVE  Cardinality(Extra(S)') <= Keep + crashes'
  BY DEF Tidied
<1>1. crashes' = crashes + 1 /\ crashes \in Nat
  BY PchAssumption DEF Crash, TypeOK
<1>2. S \in SUBSET Pruning
  BY DEF Pruning, Crash, Goto, TypeOK
<1>3. Extra(S)' \subseteq Extra(S) \cup {fp[s]}
  BY DEF Extra, Present, Untidy, Pruning, Crash, Goto, TypeOK, disk, session
<1>4. Cardinality(Extra(S)) <= Keep + crashes
  BY <1>2 DEF Tidied
<1>5. /\ IsFiniteSet(Extra(S) \cup {fp[s]})
      /\ Cardinality(Extra(S) \cup {fp[s]}) <= Cardinality(Extra(S)) + 1
      /\ Cardinality(Extra(S)) \in Nat /\ Cardinality(Extra(S) \cup {fp[s]}) \in Nat
  <2>1. IsFiniteSet(Extra(S)) /\ Cardinality(Extra(S)) \in Nat
    BY ExtraFinite
  <2>2. /\ IsFiniteSet(Extra(S) \cup {fp[s]})
        /\ Cardinality(Extra(S) \cup {fp[s]}) =
             IF fp[s] \in Extra(S) THEN Cardinality(Extra(S)) ELSE Cardinality(Extra(S)) + 1
    BY <2>1, FS_AddElement
  <2> QED BY <2>1, <2>2
<1>6. Cardinality(Extra(S)') <= Cardinality(Extra(S) \cup {fp[s]}) /\ Cardinality(Extra(S)') \in Nat
  BY <1>3, <1>5, FS_Subset, FS_CardinalityType
<1> QED BY <1>1, <1>4, <1>5, <1>6 DEF Keep

LEMMA TidiedStep == TypeOK /\ Tidied /\ [Next]_vars => Tidied'
<1> SUFFICES ASSUME TypeOK, Tidied, [Next]_vars PROVE Tidied'
  OBVIOUS
<1>1. CASE \E s \in Sessions : Flags(s)
  BY <1>1, TidiedFlags
<1>2. CASE \E s \in Sessions : Begin(s) \/ CompileWorks(s) \/ CompileFails(s) \/ CompilePlain(s)
  BY <1>2, TidiedSession
<1>3. CASE \E s \in Sessions : Crash(s)
  BY <1>3, TidiedCrash
<1>4. CASE (\E f \in Fingerprints : Outdate(f)) \/ UNCHANGED vars
  <2>1. Present' = Present
    BY <1>4 DEF Present, Outdate, TypeOK, vars, disk
  <2>2. Untidy' = Untidy /\ Pruning' = Pruning /\ old' = old /\ fp' = fp /\ crashes' = crashes
    BY <1>4 DEF Untidy, Pruning, Outdate, vars, session, bounds
  <2> QED BY <2>1, <2>2 DEF Tidied, Extra
<1> QED BY <1>1, <1>2, <1>3, <1>4, Zenon DEF Next

\* Each session that has yet to tidy up accounts for one entry.
LEMMA TidiedBounds == TypeOK /\ Tidied => CacheBounded
<1> SUFFICES ASSUME TypeOK, Tidied PROVE Cardinality(Present) <= Keep + Cardinality(Untidy) + crashes
  BY DEF CacheBounded, Untidy
<1> DEFINE theirs == {fp[s] : s \in Untidy}
<1>1. IsFiniteSet(Untidy) /\ Cardinality(Untidy) \in Nat
  BY PchAssumption, FS_Subset, FS_CardinalityType DEF Untidy
<1>2. IsFiniteSet(theirs) /\ Cardinality(theirs) <= Cardinality(Untidy) /\ Cardinality(theirs) \in Nat
  <2>1. [s \in Untidy |-> fp[s]] \in Surjection(Untidy, theirs)
    BY DEF Surjection
  <2> HIDE DEF theirs
  <2> QED BY <1>1, <2>1, FS_Surjection, FS_CardinalityType
<1>3. Cardinality(Extra({})) <= Keep + crashes /\ crashes \in Nat
  BY PchAssumption DEF Tidied, TypeOK
<1>4. Present \subseteq Extra({}) \cup theirs
  BY DEF Extra
<1> HIDE DEF theirs
<1>5. IsFiniteSet(Extra({})) /\ Cardinality(Extra({})) \in Nat
  BY ExtraFinite
<1>6. /\ IsFiniteSet(Extra({}) \cup theirs)
      /\ Cardinality(Extra({}) \cup theirs) = Cardinality(Extra({})) + Cardinality(theirs)
                                              - Cardinality(Extra({}) \cap theirs)
      /\ Cardinality(Extra({}) \cap theirs) \in Nat
  BY <1>2, <1>5, FS_Union, FS_Intersection, FS_CardinalityType
<1>7. Cardinality(Present) <= Cardinality(Extra({}) \cup theirs) /\ Cardinality(Present) \in Nat
  BY <1>4, <1>6, FS_Subset, FS_CardinalityType
<1> QED BY <1>1, <1>2, <1>3, <1>5, <1>6, <1>7 DEF Keep

\* However stale its list is when a session removes the old entries
\* (.stanr_prune_pch_cache()), there are never more PCHs than two, one for each
\* session that has yet to tidy up and one for each that died before it could.
THEOREM CacheBoundedTheorem == Spec => []CacheBounded
<1>1. Init => Tidied
  <2> SUFFICES ASSUME Init PROVE Tidied
    OBVIOUS
  <2>1. \A S : Extra(S) = {}
    BY DEF Init, Extra, Present
  <2> QED BY <2>1, FS_EmptySet DEF Tidied, Init, Keep
<1>2. TypeOK /\ Tidied /\ [Next]_vars => (TypeOK /\ Tidied)'
  BY TypeStep, TidiedStep
<1> QED BY <1>1, <1>2, TypeInit, TidiedBounds, PTL DEF Spec
=============================================================================
