----------------------------- MODULE BuildCache -----------------------------
(***************************************************************************)
(* The compiled-model cache of stan_model() (R/stan_model.R): R sessions   *)
(* that compile the same Stan file share one library on disk next to it,   *)
(* and each keeps a memo of the environments it has compiled or restored.  *)
(*                                                                         *)
(* What a library is reused for is decided by a hash: of the text of the   *)
(* external C++ file as it was read when the hash was taken, and of        *)
(* everything else a request can vary, its setup (cpp_options, use_opencl, *)
(* versions of stanr, Stan and the compiler).  stanc() reads the C++ file  *)
(* a second time, later.  The C++ file may be edited, a session may die    *)
(* and a copy on disk may fail at any time.                                *)
(***************************************************************************)
EXTENDS Naturals

CONSTANTS
  Sessions,      \* R sessions that compile the same Stan file
  Contents,      \* the texts of the external C++ file
  Setups,        \* everything else that goes into the hash
  NoLibrary,     \* no library, no file
  MaxEdits,      \* bound: edits of the C++ file
  MaxRequests    \* bound: requests and crashes of a session

ASSUME BuildAssumption == MaxEdits \in Nat /\ MaxRequests \in Nat

VARIABLES
  external_cpp,   \* the C++ file
  edits,          \* how often it was edited (for the bound)
  cache_file,     \* the library on disk
  pc,             \* what each session is doing
  request,        \* the request it is working on
  model_hash,     \* .. and its hash
  cpp_code,       \* what stanc() translated
  tmp_out,        \* the session's temporary file next to the cache file
  memo,           \* .stanr_memo$compiled_envs
  served,         \* the environment the last request got
  requests,       \* requests and crashes so far (for the bound)
  raced           \* an edit fell between a session's hash and stanc() (not in the code)

sessionVars == <<pc, request, model_hash, cpp_code, tmp_out, memo, served, requests>>
vars == <<external_cpp, edits, cache_file, sessionVars, raced>>
-----------------------------------------------------------------------------
\* .stanr_hash(): one hash for each text and setup.
Hash == [external_cpp : Contents, setup : Setups]

\* Fault: the setup is left out of the hash.
FaultyHashOf(r) == [external_cpp |-> external_cpp, setup |-> CHOOSE x \in Setups : TRUE]

HashOf(r) == [external_cpp |-> external_cpp, setup |-> r.setup]

\* What a library was compiled from, and the hash it carries; a library that
\* was copied in part cannot be loaded.
Library == [key : Hash, code : Hash, whole : BOOLEAN]

Request == [setup : Setups, force_recompile : BOOLEAN]

\* An environment handed to the user, for the request with that hash.
Served == [hash : Hash, lib : Library]

Init ==
  /\ external_cpp \in Contents
  /\ edits = 0
  /\ cache_file = NoLibrary
  /\ pc = [s \in Sessions |-> "idle"]
  /\ request \in [Sessions -> Request]
  /\ model_hash = [s \in Sessions |-> NoLibrary]
  /\ cpp_code = [s \in Sessions |-> NoLibrary]
  /\ tmp_out = [s \in Sessions |-> NoLibrary]
  /\ memo = [s \in Sessions |-> [h \in Hash |-> NoLibrary]]
  /\ served = [s \in Sessions |-> NoLibrary]
  /\ requests = [s \in Sessions |-> 0]
  /\ raced = FALSE
-----------------------------------------------------------------------------
Goto(s, to) == pc' = [pc EXCEPT ![s] = to]

\* The session's request is answered with that library.
Serve(s, hash, lib) ==
  /\ served' = [served EXCEPT ![s] = [hash |-> hash, lib |-> lib]]
  /\ Goto(s, "idle")

\* Reads the C++ file for the hash; the memo answers unless told not to.
BeginCompile(s) ==
  /\ pc[s] = "idle"
  /\ requests[s] < MaxRequests
  /\ requests' = [requests EXCEPT ![s] = @ + 1]
  /\ \E r \in Request :
       LET hash == HashOf(r)
       IN  /\ request' = [request EXCEPT ![s] = r]
           /\ model_hash' = [model_hash EXCEPT ![s] = hash]
           /\ IF ~r.force_recompile /\ memo[s][hash] # NoLibrary
              THEN Serve(s, hash, memo[s][hash])
              ELSE /\ Goto(s, IF r.force_recompile THEN "stanc" ELSE "restore")
                   /\ UNCHANGED served
  /\ UNCHANGED <<external_cpp, edits, cache_file, cpp_code, tmp_out, memo, raced>>

\* Fault: whatever can be loaded is taken.
FaultyAccepts(s, lib) == lib.whole

\* dyn.load() of the private copy works and the hash in it is the right one.
Accepts(s, lib) == lib.whole /\ lib.key = model_hash[s]

\* .stanr_restore_build_cache(): copies the cache file, loads the copy.  The
\* file may be gone when it is copied, and the copy may fail.
RestoreHit(s) ==
  /\ pc[s] = "restore"
  /\ cache_file # NoLibrary
  /\ Accepts(s, cache_file)
  /\ memo' = [memo EXCEPT ![s][model_hash[s]] = cache_file]
  /\ Serve(s, model_hash[s], cache_file)
  /\ UNCHANGED <<external_cpp, edits, cache_file, request, model_hash, cpp_code,
                 tmp_out, requests, raced>>

RestoreMiss(s) ==
  /\ pc[s] = "restore"
  /\ Goto(s, "stanc")
  /\ UNCHANGED <<external_cpp, edits, cache_file, request, model_hash, cpp_code,
                 tmp_out, memo, served, requests, raced>>

\* stanc() reads the C++ file again.
Stanc(s) ==
  /\ pc[s] = "stanc"
  /\ cpp_code' = [cpp_code EXCEPT
                    ![s] = [external_cpp |-> external_cpp, setup |-> request[s].setup]]
  /\ Goto(s, "compile")
  /\ UNCHANGED <<external_cpp, edits, cache_file, request, model_hash, tmp_out,
                 memo, served, requests, raced>>

\* The compiler may refuse the code.
CompileFails(s) ==
  /\ pc[s] = "compile"
  /\ Goto(s, "idle")
  /\ UNCHANGED <<external_cpp, edits, cache_file, request, model_hash, cpp_code,
                 tmp_out, memo, served, requests, raced>>

Built(s) == [key |-> model_hash[s], code |-> cpp_code[s], whole |-> TRUE]

\* Compiles, loads the library from its scratch directory and copies it next
\* to the cache file; nobody looks at what file.copy() returns.
CompileAndCopy(s) ==
  /\ pc[s] = "compile"
  /\ \E out \in {Built(s), [Built(s) EXCEPT !.whole = FALSE], NoLibrary} :
       tmp_out' = [tmp_out EXCEPT ![s] = out]
  /\ Goto(s, "unlink")
  /\ UNCHANGED <<external_cpp, edits, cache_file, request, model_hash, cpp_code,
                 memo, served, requests, raced>>

\* unlink(cache_file)
UnlinkCache(s) ==
  /\ pc[s] = "unlink"
  /\ cache_file' = NoLibrary
  /\ Goto(s, "rename")
  /\ UNCHANGED <<external_cpp, edits, request, model_hash, cpp_code, tmp_out,
                 memo, served, requests, raced>>

\* Fault: what was written next to the cache file is served and remembered.
FaultyRenameAndServe(s) ==
  /\ pc[s] = "rename"
  /\ cache_file' = IF tmp_out[s] # NoLibrary THEN tmp_out[s] ELSE cache_file
  /\ tmp_out' = [tmp_out EXCEPT ![s] = NoLibrary]
  /\ memo' = [memo EXCEPT ![s][model_hash[s]] = tmp_out[s]]
  /\ Serve(s, model_hash[s], tmp_out[s])
  /\ UNCHANGED <<external_cpp, edits, request, model_hash, cpp_code, requests, raced>>

\* file.rename(tmp_out, cache_file), then the memo.
RenameAndServe(s) ==
  /\ pc[s] = "rename"
  /\ cache_file' = IF tmp_out[s] # NoLibrary THEN tmp_out[s] ELSE cache_file
  /\ tmp_out' = [tmp_out EXCEPT ![s] = NoLibrary]
  /\ memo' = [memo EXCEPT ![s][model_hash[s]] = Built(s)]
  /\ Serve(s, model_hash[s], Built(s))
  /\ UNCHANGED <<external_cpp, edits, request, model_hash, cpp_code, requests, raced>>
-----------------------------------------------------------------------------
\* The session dies and is started again with an empty memo.
Crash(s) ==
  /\ pc[s] # "idle"
  /\ requests[s] < MaxRequests
  /\ requests' = [requests EXCEPT ![s] = @ + 1]
  /\ Goto(s, "idle")
  /\ tmp_out' = [tmp_out EXCEPT ![s] = NoLibrary]
  /\ memo' = [memo EXCEPT ![s] = [h \in Hash |-> NoLibrary]]
  /\ served' = [served EXCEPT ![s] = NoLibrary]
  /\ UNCHANGED <<external_cpp, edits, cache_file, request, model_hash, cpp_code, raced>>

Edit ==
  /\ edits < MaxEdits
  /\ edits' = edits + 1
  /\ \E text \in Contents \ {external_cpp} : external_cpp' = text
  /\ raced' = (raced \/ \E s \in Sessions : pc[s] \in {"restore", "stanc"})
  /\ UNCHANGED <<cache_file, sessionVars>>

Session(s) ==
  \/ BeginCompile(s) \/ RestoreHit(s) \/ RestoreMiss(s)
  \/ Stanc(s) \/ CompileFails(s) \/ CompileAndCopy(s)
  \/ UnlinkCache(s) \/ RenameAndServe(s)

Next == (\E s \in Sessions : Session(s) \/ Crash(s)) \/ Edit

Spec == Init /\ [][Next]_vars
-----------------------------------------------------------------------------
PCs == {"idle", "restore", "stanc", "compile", "unlink", "rename"}

TypeOK ==
  /\ external_cpp \in Contents
  /\ edits \in 0..MaxEdits
  /\ cache_file \in Library \cup {NoLibrary}
  /\ pc \in [Sessions -> PCs]
  /\ request \in [Sessions -> Request]
  /\ model_hash \in [Sessions -> Hash \cup {NoLibrary}]
  /\ cpp_code \in [Sessions -> Hash \cup {NoLibrary}]
  /\ tmp_out \in [Sessions -> Library \cup {NoLibrary}]
  /\ memo \in [Sessions -> [Hash -> Library \cup {NoLibrary}]]
  /\ served \in [Sessions -> Served \cup {NoLibrary}]
  /\ requests \in [Sessions -> 0..MaxRequests]
  /\ raced \in BOOLEAN

\* Whatever the sessions do to the shared file, however a write of it fails
\* and whoever dies, a request gets a whole library that carries its hash.
ServedCarriesTheHash ==
  \A s \in Sessions : served[s] # NoLibrary =>
    served[s].lib.whole /\ served[s].lib.key = served[s].hash

\* As long as the C++ file was never edited while a session was between its
\* two reads of it, no library anywhere - served, in a memo, on disk or about
\* to be renamed - was compiled from anything but what its hash says, whatever
\* was edited, copied in part or left by a dead session at other times.  With
\* an edit in that window a wrong library does get in; that case is excluded
\* here and not caught.
FaithfulUnlessRaced ==
  ~raced =>
    LET Faithful(lib) == lib # NoLibrary => lib.code = lib.key
    IN  /\ Faithful(cache_file)
        /\ \A s \in Sessions :
             /\ Faithful(tmp_out[s])
             /\ \A h \in Hash : Faithful(memo[s][h])
             /\ served[s] # NoLibrary =>
                  served[s].lib.code = served[s].hash
=============================================================================
