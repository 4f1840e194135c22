------------------------------ MODULE PchCache ------------------------------
(***************************************************************************)
(* The cache of precompiled headers (R/pch.R): R sessions share a directory *)
(* with one subdirectory for each fingerprint of compiler and flags.  A    *)
(* session that compiles a model builds the PCH of its fingerprint if it   *)
(* is missing, makes it the most recently used one, removes all but the    *)
(* two most recently used and compiles; when the compiler complains about  *)
(* the PCH it builds it again, and then does without.                      *)
(*                                                                         *)
(* Clang writes a PCH to a temporary file that it renames and fails when   *)
(* it cannot use the PCH it is told to.  GCC writes it in place, wants the *)
(* header staged beside it, and quietly reads that header when there is no *)
(* PCH or one that does not fit.                                           *)
(***************************************************************************)
EXTENDS Naturals, FiniteSets

CONSTANTS
  Sessions,      \* R sessions of one user
  Fingerprints,  \* compilers and flags
  MaxRequests,   \* bound: models a session compiles
  MaxCrashes,    \* bound: sessions that die
  MaxOutdated    \* bound: PCHs that no longer fit the headers they include

ASSUME PchAssumption ==
  /\ IsFiniteSet(Sessions) /\ IsFiniteSet(Fingerprints)
  /\ {MaxRequests, MaxCrashes, MaxOutdated} \subseteq Nat

VARIABLES
  compiler,   \* compiler_type: "clang" or "gcc"
  dir,        \* the subdirectory: "absent", "empty", or with a "staged" header
  gch,        \* the PCH in it: "none", "partial", "stale" or "good"
  newer,      \* the mtimes: <<f, g>> if the PCH of f is newer than that of g
  pc,         \* what each session is doing
  fp,         \* its fingerprint
  model_ok,   \* the compiler will accept its model
  rebuild,    \* it is in the retry
  old,        \* old_entries, what it is about to remove
  reason,     \* why a compile with the PCH failed: "none", "pch" or "model"
  lost,       \* its entry was removed under its hands (not in the code)
  result,     \* how its last request ended
  requests, crashes, outdated   \* counters (for the bounds)

disk == <<dir, gch, newer>>
session == <<fp, model_ok, rebuild, reason, result, requests>>
bounds == <<crashes, outdated>>
vars == <<compiler, disk, pc, session, old, lost, bounds>>

\* .stanr_prune_pch_cache(keep = 2L)
Keep == 2

Init ==
  /\ compiler \in {"clang", "gcc"}
  /\ dir = [f \in Fingerprints |-> "absent"]
  /\ gch = [f \in Fingerprints |-> "none"]
  /\ newer = {}
  /\ pc = [s \in Sessions |-> "idle"]
  /\ fp \in [Sessions -> Fingerprints]
  /\ model_ok = [s \in Sessions |-> TRUE]
  /\ rebuild = [s \in Sessions |-> FALSE]
  /\ old = [s \in Sessions |-> {}]
  /\ reason = [s \in Sessions |-> "none"]
  /\ lost = [s \in Sessions |-> FALSE]
  /\ result = [s \in Sessions |-> "none"]
  /\ requests = [s \in Sessions |-> 0]
  /\ crashes = 0
  /\ outdated = 0
-----------------------------------------------------------------------------
Goto(s, to) == pc' = [pc EXCEPT ![s] = to]

\* The entries with a PCH.
Present == {f \in Fingerprints : gch[f] # "none"}

\* The mtimes without those of fs.
Without(fs) == {p \in newer : p[1] \notin fs /\ p[2] \notin fs}

\* Fault: a PCH that is touched is still older than what it was older than.
FaultyTouched(f) == newer \cup ({f} \X (Present \ {f}))

\* The PCH of f is written or touched.
Touched(f) == Without({f}) \cup ({f} \X (Present \ {f}))

WritePch(f, state) ==
  /\ gch' = [gch EXCEPT ![f] = state]
  /\ newer' = Touched(f)
  /\ UNCHANGED dir

UnlinkPch(f) ==
  /\ gch' = [gch EXCEPT ![f] = "none"]
  /\ newer' = Without({f})
  /\ UNCHANGED dir

Finish(s, compiled) ==
  /\ result' = [result EXCEPT ![s] = IF compiled THEN "compiled" ELSE "failed"]
  /\ Goto(s, "idle")
-----------------------------------------------------------------------------
Begin(s) ==
  /\ pc[s] = "idle"
  /\ requests[s] < MaxRequests
  /\ \E f \in Fingerprints, ok \in BOOLEAN :
       /\ fp' = [fp EXCEPT ![s] = f]
       /\ model_ok' = [model_ok EXCEPT ![s] = ok]
  /\ rebuild' = [rebuild EXCEPT ![s] = FALSE]
  /\ reason' = [reason EXCEPT ![s] = "none"]
  /\ lost' = [lost EXCEPT ![s] = FALSE]
  /\ result' = [result EXCEPT ![s] = "none"]
  /\ requests' = [requests EXCEPT ![s] = @ + 1]
  /\ Goto(s, "look")
  /\ UNCHANGED <<compiler, disk, old, bounds>>

\* rebuild = TRUE: the PCH goes, whoever is using it.
Unlink(s) ==
  /\ pc[s] = "unlink"
  /\ UnlinkPch(fp[s])
  /\ Goto(s, "look")
  /\ UNCHANGED <<compiler, session, old, lost, bounds>>

LookFound(s) ==
  /\ pc[s] = "look"
  /\ gch[fp[s]] # "none"
  /\ Goto(s, "touch")
  /\ UNCHANGED <<compiler, disk, session, old, lost, bounds>>

\* No PCH: makes the directory and, for GCC, stages the header in it.  That
\* may fail, for one when another session has done it since this one looked.
LookMissing(s) ==
  /\ pc[s] = "look"
  /\ gch[fp[s]] = "none"
  /\ \/ /\ dir' = [dir EXCEPT ![fp[s]] =
                     IF compiler = "gcc" THEN "staged" ELSE "empty"]
        /\ Goto(s, "build")
     \/ /\ compiler = "gcc"
        /\ dir' = [dir EXCEPT ![fp[s]] = IF @ = "absent" THEN "empty" ELSE @]
        /\ Goto(s, "plain")
  /\ UNCHANGED <<compiler, gch, newer, session, old, lost, bounds>>

\* make pch; nothing can be built in a directory that is gone.
BuildStart(s) ==
  /\ pc[s] = "build"
  /\ IF dir[fp[s]] = "absent" \/ (compiler = "gcc" /\ dir[fp[s]] = "empty")
     THEN Goto(s, "built") /\ UNCHANGED disk
     ELSE /\ Goto(s, "building")
          /\ IF compiler = "gcc" THEN WritePch(fp[s], "partial")
                                 ELSE UNCHANGED disk
  /\ UNCHANGED <<compiler, session, old, lost, bounds>>

\* GCC fails to put its PCH where the name or the directory has been removed.
BuildDone(s) ==
  /\ pc[s] = "building"
  /\ dir[fp[s]] # "absent"
  /\ compiler = "gcc" => gch[fp[s]] # "none"
  /\ LET others == {t \in Sessions \ {s} : pc[t] = "building" /\ fp[t] = fp[s]}
     IN  WritePch(fp[s], IF compiler = "gcc" /\ others # {} THEN "partial" ELSE "good")
  /\ Goto(s, "built")
  /\ UNCHANGED <<compiler, session, old, lost, bounds>>

\* The compiler gives up; GCC takes its output away.
BuildFails(s) ==
  /\ pc[s] = "building"
  /\ IF compiler = "gcc" THEN UnlinkPch(fp[s]) ELSE UNCHANGED disk
  /\ Goto(s, "built")
  /\ UNCHANGED <<compiler, session, old, lost, bounds>>

\* All that is asked after the build is whether there is a PCH now.
Built(s) ==
  /\ pc[s] = "built"
  /\ Goto(s, IF gch[fp[s]] = "none" THEN "plain" ELSE "touch")
  /\ UNCHANGED <<compiler, disk, session, old, lost, bounds>>

\* Sys.setFileTime(), which may find nothing to touch.
Touch(s) ==
  /\ pc[s] = "touch"
  /\ newer' = IF gch[fp[s]] = "none" THEN newer ELSE Touched(fp[s])
  /\ Goto(s, "list")
  /\ UNCHANGED <<compiler, dir, gch, session, old, lost, bounds>>
-----------------------------------------------------------------------------
\* The entries whose PCH is newer than that of f.
NewerThan(f) == {g \in Present : <<g, f>> \in newer}

\* Fault: one entry too many is kept.
FaultyOldEntries == {f \in Present : Cardinality(NewerThan(f)) > Keep}

\* .stanr_prune_pch_cache(): the entries with a PCH but for the newest two ..
\* list.dirs(), file.exists() and file.info() are one step here, and the removal
\* of all old entries is another.
OldEntries == {f \in Present : Cardinality(NewerThan(f)) >= Keep}

ListOld(s) ==
  /\ pc[s] = "list"
  /\ old' = [old EXCEPT ![s] = OldEntries]
  /\ Goto(s, "prune")
  /\ UNCHANGED <<compiler, disk, session, lost, bounds>>

\* .. are removed with all that is in them.
Prune(s) ==
  /\ pc[s] = "prune"
  /\ dir' = [f \in Fingerprints |-> IF f \in old[s] THEN "absent" ELSE dir[f]]
  /\ gch' = [f \in Fingerprints |-> IF f \in old[s] THEN "none" ELSE gch[f]]
  /\ newer' = Without(old[s])
  /\ lost' = [t \in Sessions |-> lost[t] \/ fp[t] \in old[s]]
  /\ old' = [old EXCEPT ![s] = {}]
  /\ Goto(s, "compile")
  /\ UNCHANGED <<compiler, session, bounds>>
-----------------------------------------------------------------------------
\* What the compiler does with the flags: it gets to the model ("model"), it
\* complains about the PCH ("pch"), or it misses the header ("header").
Compiler(s) ==
  LET f == fp[s]
  IN  CASE compiler = "clang" -> IF gch[f] = "good" THEN {"model"} ELSE {"pch"}
        [] dir[f] # "staged" -> {"header"}
        [] gch[f] = "partial" -> {"model", "pch"}
        [] OTHER -> {"model"}

\* is_pch_diagnostic(): the output of R CMD SHLIB has the command in it, and
\* the one for clang names the .gch.
IsPchDiagnostic(how) == how = "pch" \/ compiler = "clang"

CompileWorks(s) ==
  /\ pc[s] = "compile"
  /\ "model" \in Compiler(s) /\ model_ok[s]
  /\ Finish(s, TRUE)
  /\ UNCHANGED <<compiler, disk, fp, model_ok, rebuild, reason, old, lost, requests, bounds>>

\* Fault: there is no second way out, a failure of the retry is final.
FaultyCompileFails(s) ==
  /\ pc[s] = "compile"
  /\ \E how \in Compiler(s) :
       /\ how = "model" => ~model_ok[s]
       /\ reason' = [reason EXCEPT ![s] = IF how = "model" THEN "model" ELSE "pch"]
       /\ IF IsPchDiagnostic(how) /\ ~rebuild[s]
          THEN /\ Goto(s, "unlink")
               /\ rebuild' = [rebuild EXCEPT ![s] = TRUE]
               /\ UNCHANGED result
          ELSE Finish(s, FALSE) /\ UNCHANGED rebuild
  /\ UNCHANGED <<compiler, disk, fp, model_ok, old, lost, requests, bounds>>

\* Builds the PCH again and retries, then does without, when the message is
\* about the PCH; any other message is the user's.
CompileFails(s) ==
  /\ pc[s] = "compile"
  /\ \E how \in Compiler(s) :
       /\ how = "model" => ~model_ok[s]
       /\ reason' = [reason EXCEPT ![s] = IF how = "model" THEN "model" ELSE "pch"]
       /\ IF IsPchDiagnostic(how)
          THEN /\ Goto(s, IF rebuild[s] THEN "plain" ELSE "unlink")
               /\ rebuild' = [rebuild EXCEPT ![s] = TRUE]
               /\ UNCHANGED result
          ELSE Finish(s, FALSE) /\ UNCHANGED rebuild
  /\ UNCHANGED <<compiler, disk, fp, model_ok, old, lost, requests, bounds>>

\* Without a PCH the model decides.
CompilePlain(s) ==
  /\ pc[s] = "plain"
  /\ Finish(s, model_ok[s])
  /\ UNCHANGED <<compiler, disk, fp, model_ok, rebuild, reason, old, lost, requests, bounds>>

\* A session dies; what it was writing stays.
Crash(s) ==
  /\ pc[s] # "idle"
  /\ crashes < MaxCrashes
  /\ crashes' = crashes + 1
  /\ old' = [old EXCEPT ![s] = {}]
  /\ Goto(s, "idle")
  /\ UNCHANGED <<compiler, disk, session, lost, outdated>>

\* A header that a PCH includes, of the system say, changes.
Outdate(f) ==
  /\ gch[f] = "good"
  /\ outdated < MaxOutdated
  /\ outdated' = outdated + 1
  /\ gch' = [gch EXCEPT ![f] = "stale"]
  /\ UNCHANGED <<compiler, dir, newer, pc, session, old, lost, crashes>>

Flags(s) ==
  \/ Unlink(s) \/ LookFound(s) \/ LookMissing(s) \/ BuildStart(s) \/ BuildDone(s)
  \/ BuildFails(s) \/ Built(s) \/ Touch(s) \/ ListOld(s) \/ Prune(s)

Next ==
  \/ \E s \in Sessions :
       Begin(s) \/ Flags(s) \/ CompileWorks(s) \/ CompileFails(s) \/ CompilePlain(s) \/ Crash(s)
  \/ \E f \in Fingerprints : Outdate(f)

Spec == Init /\ [][Next]_vars
-----------------------------------------------------------------------------
PCs == {"idle", "unlink", "look", "build", "building", "built", "touch", "list",
        "prune", "compile", "plain"}

\* newer puts the entries with a PCH in an order.
MtimesOrdered ==
  /\ newer \subseteq Present \X Present
  /\ \A f, g \in Present : f # g => <<f, g>> \in newer \/ <<g, f>> \in newer
  /\ \A f, g \in Present : <<f, g>> \in newer => <<g, f>> \notin newer
  /\ \A f, g, h \in Present : <<f, g>> \in newer /\ <<g, h>> \in newer => <<f, h>> \in newer

\* The type invariant; the mtimes are those of the PCHs and order them.
TypeOK ==
  /\ compiler \in {"clang", "gcc"}
  /\ dir \in [Fingerprints -> {"absent", "empty", "staged"}]
  /\ gch \in [Fingerprints -> {"none", "partial", "stale", "good"}]
  /\ MtimesOrdered
  /\ pc \in [Sessions -> PCs]
  /\ fp \in [Sessions -> Fingerprints]
  /\ model_ok \in [Sessions -> BOOLEAN] /\ rebuild \in [Sessions -> BOOLEAN]
  /\ lost \in [Sessions -> BOOLEAN]
  /\ old \in [Sessions -> SUBSET Fingerprints]
  /\ reason \in [Sessions -> {"none", "pch", "model"}]
  /\ result \in [Sessions -> {"none", "compiled", "failed"}]
  /\ requests \in [Sessions -> 0..MaxRequests]
  /\ crashes \in 0..MaxCrashes /\ outdated \in 0..MaxOutdated

\* Whatever other sessions do to the PCH - build it too, build it again,
\* remove it, die while writing it - a model that compiles is compiled; but
\* GCC may fail when the entry was removed after the flags were made.
GoodModelsCompile ==
  \A s \in Sessions : result[s] = "failed" /\ model_ok[s] => compiler = "gcc" /\ lost[s]

\* "Retain the two most recently used" (pch.R:78): there are never more PCHs
\* than two, one for each session that has yet to tidy up and one for each
\* that died before it could.
CacheBounded ==
  LET untidy == {s \in Sessions : pc[s] \in {"building", "built", "touch", "list", "prune"}}
  IN  Cardinality(Present) <= Keep + Cardinality(untidy) + crashes
=============================================================================
