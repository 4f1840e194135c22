-------------------------- MODULE BuildCacheProofs --------------------------
(***************************************************************************)
(* The safety of the build cache for every number of sessions, texts and   *)
(* setups, and however often sessions die, copies fail and the file is     *)
(* edited: what a request is served carries its hash, and was compiled     *)
(* from what the hash says unless an edit fell between the two reads.      *)
(*                                                                         *)
(* Neither is inductive.  A memo may only hold whole libraries under their *)
(* own hash (MemoSound); a session that is compiling knows its hash        *)
(* (Hashed), finds the C++ file as it hashed it (Unedited) and so compiles *)
(* what it hashed (Translated), unless there was a race.                   *)
(***************************************************************************)
EXTENDS BuildCache, TLAPS

Hashed ==
  \A s \in Sessions : pc[s] # "idle" =>
    model_hash[s] \in Hash /\ model_hash[s].setup = request[s].setup

Translated ==
  \A s \in Sessions : pc[s] \in {"compile", "unlink", "rename"} =>
    cpp_code[s] \in Hash /\ (~raced => cpp_code[s] = model_hash[s])

Unedited ==
  \A s \in Sessions : pc[s] \in {"restore", "stanc"} /\ ~raced =>
    model_hash[s].external_cpp = external_cpp

MemoSound ==
  \A s \in Sessions, h \in Hash : memo[s][h] # NoLibrary =>
    memo[s][h].whole /\ memo[s][h].key = h

CacheInv ==
  /\ TypeOK
  /\ Hashed
  /\ Unedited
  /\ Translated
  /\ MemoSound
  /\ ServedCarriesTheHash
  /\ FaithfulUnlessRaced
-----------------------------------------------------------------------------
LEMMA InitEstablishes == Init => CacheInv
<1> SUFFICES ASSUME Init PROVE CacheInv
  OBVIOUS
<1>1. TypeOK
  <2>1. edits \in 0..MaxEdits
    BY BuildAssumption DEF Init
  <2>0. /\ external_cpp \in Contents /\ raced \in BOOLEAN
        /\ cache_file \in Library \cup {NoLibrary} /\ request \in [Sessions -> Request]
    BY Zenon DEF Init
  <2>2. pc \in [Sessions -> PCs] /\ requests \in [Sessions -> 0..MaxRequests]
    BY BuildAssumption DEF Init, PCs
  <2>3. /\ model_hash \in [Sessions -> Hash \cup {NoLibrary}]
        /\ cpp_code \in [Sessions -> Hash \cup {NoLibrary}]
        /\ tmp_out \in [Sessions -> Library \cup {NoLibrary}]
        /\ served \in [Sessions -> Served \cup {NoLibrary}]
    BY DEF Init
  <2>4. memo \in [Sessions -> [Hash -> Library \cup {NoLibrary}]]
    BY DEF Init
  <2> QED BY <2>0, <2>1, <2>2, <2>3, <2>4 DEF TypeOK
<1>2. Hashed /\ Unedited /\ Translated
  BY DEF Init, Hashed, Unedited, Translated
<1>3. MemoSound /\ ServedCarriesTheHash /\ FaithfulUnlessRaced
  BY DEF Init, MemoSound, ServedCarriesTheHash, FaithfulUnlessRaced
<1> QED BY <1>1, <1>2, <1>3 DEF CacheInv

LEMMA BuiltLibrary ==
  ASSUME CacheInv, NEW s \in Sessions, pc[s] \in {"compile", "unlink", "rename"}
  PROVE  /\ Built(s) \in Library
         /\ Built(s).whole
         /\ Built(s).key = model_hash[s]
         /\ ~raced => Built(s).code = model_hash[s]
         /\ model_hash[s] \in Hash
  BY DEF CacheInv, Hashed, Unedited, Translated, Built, Library

LEMMA BeginPreserves ==
  ASSUME CacheInv, NEW s \in Sessions, BeginCompile(s)
  PROVE  CacheInv'
<1> USE DEF CacheInv
<1>1. PICK r \in Request :
        LET hash == HashOf(r)
        IN  /\ request' = [request EXCEPT ![s] = r]
            /\ model_hash' = [model_hash EXCEPT ![s] = hash]
            /\ IF ~r.force_recompile /\ memo[s][hash] # NoLibrary
               THEN Serve(s, hash, memo[s][hash])
               ELSE /\ Goto(s, IF r.force_recompile THEN "stanc" ELSE "restore")
                    /\ UNCHANGED served
  BY DEF BeginCompile
<1> DEFINE hash == HashOf(r)
<1>2. hash \in Hash /\ hash.setup = r.setup /\ hash.external_cpp = external_cpp
  BY DEF HashOf, Hash, Request, TypeOK
<1> HIDE DEF hash
<1>3. TypeOK'
  <2>0. requests' \in [Sessions -> 0..MaxRequests] /\ pc' \in [Sessions -> PCs]
    <3>1. requests' = [requests EXCEPT ![s] = @ + 1] /\ requests[s] < MaxRequests
      BY DEF BeginCompile
    <3>2. \E to \in PCs : pc' = [pc EXCEPT ![s] = to]
      BY <1>1 DEF PCs, Serve, Goto
    <3>3. requests' \in [Sessions -> 0..MaxRequests]
      BY <3>1, BuildAssumption DEF TypeOK
    <3>4. pc' \in [Sessions -> PCs]
      BY <3>2 DEF TypeOK
    <3> QED BY <3>3, <3>4
  <2>1. /\ request' \in [Sessions -> Request]
        /\ model_hash' \in [Sessions -> Hash \cup {NoLibrary}]
    BY <1>1, <1>2 DEF hash, TypeOK
  <2>2. served' \in [Sessions -> Served \cup {NoLibrary}]
    <3>1. CASE ~r.force_recompile /\ memo[s][hash] # NoLibrary
      <4>1. memo[s][hash] \in Library
        BY <1>2, <3>1 DEF TypeOK
      <4>2. [hash |-> hash, lib |-> memo[s][hash]] \in Served
        BY <1>2, <4>1 DEF Served
      <4>3. served' = [served EXCEPT ![s] = [hash |-> hash, lib |-> memo[s][hash]]]
        BY <1>1, <3>1 DEF Serve, hash
      <4> QED BY <4>2, <4>3 DEF TypeOK
    <3>2. CASE ~(~r.force_recompile /\ memo[s][hash] # NoLibrary)
      BY <1>1, <3>2 DEF hash, TypeOK
    <3> QED BY <3>1, <3>2
  <2> QED BY <2>0, <2>1, <2>2 DEF TypeOK, BeginCompile
<1>4. Hashed' /\ Unedited' /\ Translated'
  <2>1. request'[s] = r /\ model_hash'[s] = hash /\ pc'[s] \notin {"compile", "unlink", "rename"}
    BY <1>1 DEF hash, TypeOK, Serve, Goto
  <2>2. \A t \in Sessions \ {s} :
          request'[t] = request[t] /\ model_hash'[t] = model_hash[t] /\ pc'[t] = pc[t]
    BY <1>1 DEF TypeOK, PCs, Serve, Goto
  <2> QED BY <1>2, <2>1, <2>2 DEF Hashed, Unedited, Translated, BeginCompile
<1>5. MemoSound'
  BY DEF MemoSound, BeginCompile
<1>6. ServedCarriesTheHash' /\ FaithfulUnlessRaced'
  <2>1. CASE ~r.force_recompile /\ memo[s][hash] # NoLibrary
    <3>1. served' = [served EXCEPT ![s] = [hash |-> hash, lib |-> memo[s][hash]]]
      BY <1>1, <2>1 DEF Serve, hash
    <3>2. memo[s][hash].whole /\ memo[s][hash].key = hash
      BY <1>2, <2>1 DEF MemoSound
    <3>3. ~raced => memo[s][hash].code = hash
      BY <1>2, <2>1, <3>2 DEF FaithfulUnlessRaced
    <3> QED BY <3>1, <3>2, <3>3, SMTT(30) DEF ServedCarriesTheHash, FaithfulUnlessRaced, TypeOK, BeginCompile
  <2>2. CASE ~(~r.force_recompile /\ memo[s][hash] # NoLibrary)
    <3>1. served' = served
      BY <1>1, <2>2, Zenon DEF hash
    <3>2. UNCHANGED <<cache_file, tmp_out, memo, raced>>
      BY DEF BeginCompile
    <3> QED BY <3>1, <3>2 DEF ServedCarriesTheHash, FaithfulUnlessRaced
  <2> QED BY <2>1, <2>2
<1> QED BY <1>3, <1>4, <1>5, <1>6

LEMMA RestorePreserves ==
  ASSUME CacheInv, NEW s \in Sessions, RestoreHit(s)
  PROVE  CacheInv'
<1> USE DEF CacheInv
<1>1. /\ model_hash[s] \in Hash
      /\ cache_file \in Library
      /\ cache_file.whole /\ cache_file.key = model_hash[s]
      /\ ~raced => cache_file.code = model_hash[s]
  BY DEF RestoreHit, Accepts, Hashed, TypeOK, FaithfulUnlessRaced
<1>2. TypeOK'
  BY <1>1, SMTT(30) DEF TypeOK, PCs, RestoreHit, Serve, Goto, Served
<1>3. Hashed' /\ Unedited' /\ Translated'
  BY DEF Hashed, Unedited, Translated, TypeOK, RestoreHit, Serve, Goto
<1>4. MemoSound'
  BY <1>1, SMTT(30) DEF MemoSound, RestoreHit, TypeOK
<1>5. ServedCarriesTheHash' /\ FaithfulUnlessRaced'
  BY <1>1, SMTT(30) DEF ServedCarriesTheHash, FaithfulUnlessRaced, TypeOK, RestoreHit, Serve
<1> QED BY <1>2, <1>3, <1>4, <1>5

LEMMA StancPreserves ==
  ASSUME CacheInv, NEW s \in Sessions, Stanc(s)
  PROVE  CacheInv'
<1> USE DEF CacheInv
<1> DEFINE code == [external_cpp |-> external_cpp, setup |-> request[s].setup]
<1>1. /\ code \in Hash
      /\ ~raced => code = model_hash[s]
  BY DEF Hash, TypeOK, Request, Hashed, Unedited, Stanc
<1>2. cpp_code' = [cpp_code EXCEPT ![s] = code]
  BY DEF Stanc
<1> HIDE DEF code
<1>3. TypeOK'
  BY <1>1, <1>2 DEF TypeOK, PCs, Stanc, Goto
<1>4. Hashed' /\ Unedited' /\ Translated'
  BY <1>1, <1>2 DEF Hashed, Unedited, Translated, TypeOK, Stanc, Goto
<1>5. MemoSound' /\ ServedCarriesTheHash' /\ FaithfulUnlessRaced'
  BY DEF MemoSound, ServedCarriesTheHash, FaithfulUnlessRaced, Stanc
<1> QED BY <1>3, <1>4, <1>5

LEMMA CompilePreserves ==
  ASSUME CacheInv, NEW s \in Sessions, CompileAndCopy(s)
  PROVE  CacheInv'
<1> USE DEF CacheInv
<1>1. PICK out \in {Built(s), [Built(s) EXCEPT !.whole = FALSE], NoLibrary} :
        tmp_out' = [tmp_out EXCEPT ![s] = out]
  BY DEF CompileAndCopy
<1>2. /\ out \in Library \cup {NoLibrary}
      /\ out # NoLibrary /\ ~raced => out.code = out.key
  <2>1. /\ Built(s) \in Library
        /\ ~raced => Built(s).code = Built(s).key
    BY BuiltLibrary DEF CompileAndCopy
  <2>2. CASE out = [Built(s) EXCEPT !.whole = FALSE]
    BY <2>1, <2>2 DEF Library
  <2> QED BY <1>1, <2>1, <2>2
<1>3. TypeOK'
  BY <1>1, <1>2 DEF TypeOK, PCs, CompileAndCopy, Goto
<1>4. Hashed' /\ Unedited' /\ Translated'
  BY DEF Hashed, Unedited, Translated, TypeOK, CompileAndCopy, Goto
<1>5. MemoSound' /\ ServedCarriesTheHash'
  BY DEF MemoSound, ServedCarriesTheHash, CompileAndCopy
<1>6. FaithfulUnlessRaced'
  BY <1>1, <1>2 DEF FaithfulUnlessRaced, TypeOK, CompileAndCopy
<1> QED BY <1>3, <1>4, <1>5, <1>6

LEMMA RenamePreserves ==
  ASSUME CacheInv, NEW s \in Sessions, RenameAndServe(s)
  PROVE  CacheInv'
<1> USE DEF CacheInv
<1>1. /\ Built(s) \in Library /\ Built(s).whole
      /\ Built(s).key = model_hash[s]
      /\ ~raced => Built(s).code = model_hash[s]
      /\ model_hash[s] \in Hash
  BY BuiltLibrary DEF RenameAndServe
<1> DEFINE lib == Built(s)
<1>2. /\ memo' = [memo EXCEPT ![s][model_hash[s]] = lib]
      /\ served' = [served EXCEPT
                      ![s] = [hash |-> model_hash[s], lib |-> lib]]
  BY DEF RenameAndServe, Serve
<1>3. UNCHANGED <<external_cpp, edits, request, model_hash, cpp_code, requests, raced>>
  BY DEF RenameAndServe
<1> HIDE DEF lib
<1>4. TypeOK'
  BY <1>1, <1>2, <1>3, SMTT(30) DEF lib, TypeOK, PCs, RenameAndServe, Serve, Goto, Served
<1>5. Hashed' /\ Unedited' /\ Translated'
  BY DEF Hashed, Unedited, Translated, TypeOK, RenameAndServe, Serve, Goto
<1>6. MemoSound'
  BY <1>1, <1>2, SMTT(30) DEF lib, MemoSound, TypeOK
<1>7. ServedCarriesTheHash' /\ FaithfulUnlessRaced'
  BY <1>1, <1>2, <1>3, SMTT(30)
  DEF lib, ServedCarriesTheHash, FaithfulUnlessRaced, TypeOK, RenameAndServe
<1> QED BY <1>4, <1>5, <1>6, <1>7

LEMMA CrashPreserves ==
  ASSUME CacheInv, NEW s \in Sessions, Crash(s)
  PROVE  CacheInv'
<1> USE DEF CacheInv
<1>1. TypeOK'
  BY BuildAssumption, SMTT(30) DEF TypeOK, PCs, Crash, Goto
<1>2. Hashed' /\ Unedited' /\ Translated'
  BY DEF Hashed, Unedited, Translated, TypeOK, Crash, Goto
<1>3. MemoSound' /\ ServedCarriesTheHash' /\ FaithfulUnlessRaced'
  BY SMTT(30) DEF MemoSound, ServedCarriesTheHash, FaithfulUnlessRaced, TypeOK, Crash
<1> QED BY <1>1, <1>2, <1>3

\* The steps that touch none of the libraries a session holds.
LEMMA OtherPreserves ==
  ASSUME CacheInv, NEW s \in Sessions,
         RestoreMiss(s) \/ CompileFails(s) \/ UnlinkCache(s)
  PROVE  CacheInv'
<1> USE DEF CacheInv
<1>1. CASE RestoreMiss(s)
  BY <1>1 DEF RestoreMiss, Goto, PCs, TypeOK, Hashed, Unedited, Translated, MemoSound,
              ServedCarriesTheHash, FaithfulUnlessRaced
<1>2. CASE CompileFails(s)
  BY <1>2 DEF CompileFails, Goto, PCs, TypeOK, Hashed, Unedited, Translated, MemoSound,
              ServedCarriesTheHash, FaithfulUnlessRaced
<1>3. CASE UnlinkCache(s)
  BY <1>3 DEF UnlinkCache, Goto, PCs, TypeOK, Hashed, Unedited, Translated, MemoSound,
              ServedCarriesTheHash, FaithfulUnlessRaced
<1> QED BY <1>1, <1>2, <1>3

LEMMA EditPreserves == CacheInv /\ Edit => CacheInv'
<1> SUFFICES ASSUME CacheInv, Edit PROVE CacheInv'
  OBVIOUS
<1> USE DEF CacheInv
<1>1. /\ UNCHANGED <<cache_file, pc, request, model_hash, cpp_code, tmp_out, memo, served, requests>>
      /\ external_cpp' \in Contents /\ edits' = edits + 1 /\ edits < MaxEdits
      /\ raced' = (raced \/ \E s \in Sessions : pc[s] \in {"restore", "stanc"})
  BY DEF Edit, sessionVars
<1>2. raced' \in BOOLEAN /\ (~raced' => ~raced)
  <2>1. (raced \/ \E s \in Sessions : pc[s] \in {"restore", "stanc"}) \in BOOLEAN
    BY Zenon
  <2> QED BY <1>1, <2>1, Zenon DEF TypeOK
<1>3. edits' \in 0..MaxEdits
  BY <1>1, BuildAssumption DEF TypeOK
<1>4. TypeOK'
  BY <1>1, <1>2, <1>3 DEF TypeOK
<1>5. Hashed' /\ Unedited' /\ Translated'
  BY <1>1, <1>2 DEF Hashed, Unedited, Translated
<1>6. MemoSound' /\ ServedCarriesTheHash' /\ FaithfulUnlessRaced'
  BY <1>1, <1>2 DEF MemoSound, ServedCarriesTheHash, FaithfulUnlessRaced
<1> QED BY <1>4, <1>5, <1>6

LEMMA StutterPreserves == CacheInv /\ UNCHANGED vars => CacheInv'
  BY DEF CacheInv, vars, sessionVars, TypeOK, PCs, Hashed, Unedited, Translated, MemoSound,
         ServedCarriesTheHash, FaithfulUnlessRaced

LEMMA CacheInductive == Spec => []CacheInv
<1>1. Init => CacheInv
  BY InitEstablishes
<1>2. CacheInv /\ [Next]_vars => CacheInv'
  <2> SUFFICES ASSUME CacheInv, [Next]_vars PROVE CacheInv'
    OBVIOUS
  <2>1. ASSUME NEW s \in Sessions, Session(s) PROVE CacheInv'
    BY <2>1, BeginPreserves, RestorePreserves, StancPreserves, CompilePreserves,
       RenamePreserves, OtherPreserves DEF Session
  <2>2. ASSUME NEW s \in Sessions, Crash(s) PROVE CacheInv'
    BY <2>2, CrashPreserves
  <2> QED BY <2>1, <2>2, EditPreserves, StutterPreserves DEF Next
<1> QED BY <1>1, <1>2, PTL DEF Spec
-----------------------------------------------------------------------------
\* The variables of the cache keep their types.
THEOREM TypeCorrect == Spec => []TypeOK
  BY CacheInductive, PTL DEF CacheInv

\* Whatever sessions do to the file next to the Stan program, a request is
\* served a whole library that carries the hash of the request
\* (stan_model.R: .stanr_restore_build_cache(), memo).
THEOREM ServedTheorem == Spec => []ServedCarriesTheHash
  BY CacheInductive, PTL DEF CacheInv

\* As long as no edit falls between the hash and stanc(), nothing in the
\* cache was compiled from anything but what its hash says: the second read
\* of the C++ file is the only way for a wrong library to get in.
THEOREM FaithfulTheorem == Spec => []FaithfulUnlessRaced
  BY CacheInductive, PTL DEF CacheInv
=============================================================================
