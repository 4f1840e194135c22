--------------------------- MODULE RunWorkerProofs ---------------------------
(***************************************************************************)
(* Theorems of RunWorker, for every number of chains and threads, for any  *)
(* gates of the logger and without a bound on the number of blocks.        *)
(***************************************************************************)
EXTENDS RunWorker, FiniteSetTheorems, SequenceTheorems, TLAPS

-----------------------------------------------------------------------------
(* What push() and the two halves of flush() keep, whoever calls them: the *)
(* types of the logger and the account of its lines.                       *)

\* push() keeps the types of the logger, ...
LEMMA PushType ==
  ASSUME LogTypeOK, NEW m \in Message, Push(m)
  PROVE  LogTypeOK'
<1>1. [msg |-> m, exception |-> IsException(m)] \in Entry
  BY DEF Entry, IsException, Opens, Continues
<1>2. buffer_' \in Seq(Entry)
  BY <1>1 DEF LogTypeOK, Push
<1>3. metropolis_pending_' \in Nat
  BY DEF LogTypeOK, Push, MetropolisAfter
<1>4. init_pending_' \in 0..2
  BY DEF LogTypeOK, Push, InitAfter
<1>5. pushed' \in Seq(Message)
  BY DEF LogTypeOK, Push
<1>6. QED
  BY <1>2, <1>3, <1>4, <1>5 DEF LogTypeOK, Push

\* ... and so do the two halves of flush(), the swap under the mutex ...
LEMMA SwapType ==
  ASSUME LogTypeOK, SwapBuffer
  PROVE  LogTypeOK'
BY DEF LogTypeOK, SwapBuffer

\* ... and the print of an entry.
LEMMA PrintType ==
  ASSUME LogTypeOK, PrintEntry
  PROVE  LogTypeOK'
<1>1. /\ Head(entries) \in Entry
      /\ Tail(entries) \in Seq(Entry)
  BY HeadTailProperties DEF LogTypeOK, PrintEntry
<1>2. Head(entries).msg \in Message
  BY <1>1 DEF Entry
<1>3. history_' \in Seq(Message) /\ Len(history_') = Len(history_) + 1
  BY <1>2 DEF LogTypeOK, PrintEntry
<1>4. printed' \subseteq 1..Len(history_')
  <2>1. Len(history_) \in Nat
    BY DEF LogTypeOK
  <2>2. printed' \subseteq printed \cup {Len(history_) + 1}
    BY DEF PrintEntry
  <2>3. 1..Len(history_) \cup {Len(history_) + 1} \subseteq 1..Len(history_')
    BY <1>3, <2>1
  <2>4. QED
    BY <2>2, <2>3 DEF LogTypeOK
<1>5. QED
  BY <1>1, <1>3, <1>4 DEF LogTypeOK, PrintEntry

LEMMA LogUnchanged ==
  ASSUME LogTypeOK, UNCHANGED logVars
  PROVE  LogTypeOK'
BY DEF LogTypeOK, logVars

\* push() adds the same line to what was pushed and to the buffer, ...
LEMMA OutputPush ==
  ASSUME LogTypeOK, OutputAccounted, NEW m \in Message, Push(m)
  PROVE  OutputAccounted'
<1>1. /\ buffer_ \in Seq(Entry) /\ entries \in Seq(Entry)
      /\ history_ \in Seq(Message) /\ pushed \in Seq(Message)
  BY DEF LogTypeOK
<1>2. /\ Len(buffer_) \in Nat /\ Len(entries) \in Nat
      /\ Len(history_) \in Nat /\ Len(pushed) \in Nat
  BY <1>1
<1>3. PICK x : buffer_' = Append(buffer_, [msg |-> m, exception |-> x])
  BY DEF Push
<1>4. /\ Len(buffer_') = Len(buffer_) + 1
      /\ buffer_'[Len(buffer_) + 1].msg = m
      /\ \A i \in 1..Len(buffer_) : buffer_'[i] = buffer_[i]
  BY <1>1, <1>3
<1>5. /\ Len(pushed') = Len(pushed) + 1
      /\ pushed'[Len(pushed) + 1] = m
      /\ \A i \in 1..Len(pushed) : pushed'[i] = pushed[i]
  BY <1>1 DEF Push
<1>6. entries' = entries /\ history_' = history_
  BY DEF Push
<1>7. Len(pushed') = Len(history_') + Len(entries') + Len(buffer_')
  BY <1>2, <1>4, <1>5, <1>6 DEF OutputAccounted
<1>8. \A i \in 1..Len(history_') : history_'[i] = pushed'[i]
  BY <1>2, <1>5, <1>6 DEF OutputAccounted
<1>9. \A i \in 1..Len(entries') : entries'[i].msg = pushed'[Len(history_') + i]
  BY <1>2, <1>5, <1>6 DEF OutputAccounted
<1>10. ASSUME NEW i \in 1..Len(buffer_')
       PROVE  buffer_'[i].msg = pushed'[Len(history_') + Len(entries') + i]
  <2>1. CASE i \in 1..Len(buffer_)
    BY <2>1, <1>2, <1>4, <1>5, <1>6 DEF OutputAccounted
  <2>2. CASE i = Len(buffer_) + 1
    BY <2>2, <1>2, <1>4, <1>5, <1>6 DEF OutputAccounted
  <2>3. QED
    BY <1>2, <1>4, <2>1, <2>2
<1>11. QED
  BY <1>7, <1>8, <1>9, <1>10 DEF OutputAccounted

\* ... the swap moves the buffer to entries that were all printed, ...
LEMMA OutputSwap ==
  ASSUME LogTypeOK, OutputAccounted, entries = <<>>, SwapBuffer
  PROVE  OutputAccounted'
<1>1. /\ Len(buffer_) \in Nat /\ Len(history_) \in Nat /\ Len(pushed) \in Nat
      /\ Len(entries) = 0
  BY DEF LogTypeOK
<1>2. /\ entries' = buffer_ /\ Len(buffer_') = 0
      /\ history_' = history_ /\ pushed' = pushed
  BY DEF SwapBuffer
<1>3. \A i \in 1..Len(entries') : entries'[i].msg = pushed'[Len(history_') + i]
  BY <1>1, <1>2 DEF OutputAccounted
<1>4. QED
  BY <1>1, <1>2, <1>3 DEF OutputAccounted

\* ... and the print moves the first of these to $output().
LEMMA OutputPrint ==
  ASSUME LogTypeOK, OutputAccounted, PrintEntry
  PROVE  OutputAccounted'
<1>1. /\ Len(buffer_) \in Nat /\ Len(entries) \in Nat
      /\ Len(history_) \in Nat /\ Len(pushed) \in Nat
      /\ entries \in Seq(Entry) /\ history_ \in Seq(Message)
      /\ entries # <<>>
  BY DEF LogTypeOK, PrintEntry
<1>2. /\ Len(entries) # 0
      /\ entries' = Tail(entries)
      /\ Len(entries') = Len(entries) - 1
      /\ \A i \in 1..Len(entries') : entries'[i] = entries[i + 1]
      /\ Head(entries) = entries[1]
      /\ entries[1] \in Entry
  BY <1>1, HeadTailProperties, EmptySeq DEF PrintEntry
<1>3. Head(entries).msg \in Message /\ Head(entries).msg = pushed[Len(history_) + 1]
  BY <1>1, <1>2 DEF Entry, OutputAccounted
<1>4. /\ Len(history_') = Len(history_) + 1
      /\ history_'[Len(history_) + 1] = pushed[Len(history_) + 1]
      /\ \A i \in 1..Len(history_) : history_'[i] = history_[i]
  BY <1>1, <1>3 DEF PrintEntry
<1>5. buffer_' = buffer_ /\ pushed' = pushed
  BY DEF PrintEntry
<1>6. Len(pushed') = Len(history_') + Len(entries') + Len(buffer_')
  <2>1. Len(pushed) = Len(history_) + Len(entries) + Len(buffer_)
    BY DEF OutputAccounted
  <2>2. Len(history_') + Len(entries') = Len(history_) + Len(entries)
    BY <1>1, <1>2, <1>4
  <2>3. QED
    BY <2>1, <2>2, <1>5
<1>7. ASSUME NEW i \in 1..Len(history_')
      PROVE  history_'[i] = pushed'[i]
  <2>1. CASE i \in 1..Len(history_)
    BY <2>1, <1>4, <1>5 DEF OutputAccounted
  <2>2. CASE i = Len(history_) + 1
    BY <2>2, <1>4, <1>5
  <2>3. QED
    BY <1>1, <1>4, <2>1, <2>2
<1>8. ASSUME NEW i \in 1..Len(entries')
      PROVE  entries'[i].msg = pushed'[Len(history_') + i]
  <2>1. i + 1 \in 1..Len(entries) /\ entries'[i] = entries[i + 1]
    BY <1>1, <1>2
  <2>2. entries[i + 1].msg = pushed[Len(history_) + (i + 1)]
    BY <2>1 DEF OutputAccounted
  <2>3. Len(history_) + (i + 1) = Len(history_') + i
    BY <1>1, <1>2, <1>4
  <2>4. QED
    BY <2>1, <2>2, <2>3, <1>5
<1>9. ASSUME NEW i \in 1..Len(buffer_')
      PROVE  buffer_'[i].msg = pushed'[Len(history_') + Len(entries') + i]
  <2>1. Len(history_') + Len(entries') + i = Len(history_) + Len(entries) + i
    BY <1>1, <1>2, <1>4, <1>5
  <2>2. QED
    BY <2>1, <1>5 DEF OutputAccounted
<1>10. QED
  BY <1>6, <1>7, <1>8, <1>9 DEF OutputAccounted
-----------------------------------------------------------------------------
(* Type correctness.                                                       *)

LEMMA MessageType ==
  ASSUME NEW c \in Chains, NEW e \in Emissions
  PROVE  MessageOf(c, e) \in Message
BY RunAssumption DEF MessageOf, Message, Levels, Texts, Blocks

\* TypeOK holds in every state of every behavior.
THEOREM TypeCorrect == Spec => []TypeOK
<1>1. Init => TypeOK
  <2> SUFFICES ASSUME Init PROVE TypeOK
    OBVIOUS
  <2>1. LogTypeOK
    BY DEF Init, LogInit, LogTypeOK
  <2>2. /\ phase \in [Chains -> Phases]
        /\ emit \in [Chains -> Emissions]
        /\ blocks \in [Chains -> 0..MaxBlocks]
    BY RunAssumption DEF Init, Phases, Emissions
  <2>3. QED
    BY <2>1, <2>2 DEF Init, TypeOK
<1>2. TypeOK /\ [Next]_vars => TypeOK'
  <2> SUFFICES ASSUME TypeOK, [Next]_vars PROVE TypeOK'
    OBVIOUS
  <2> USE DEF TypeOK, rVars, chainVars
  <2>1. ASSUME NEW c \in Chains, Emit(c) PROVE TypeOK'
    <3>1. emit[c] \in Emissions /\ Following(emit[c]) \in Emissions
      BY DEF Following, Emissions
    <3>2. LogTypeOK'
      BY <2>1, <3>1, MessageType, PushType DEF Emit
    <3>3. QED
      BY <2>1, <3>1, <3>2 DEF Emit
  <2>2. ASSUME NEW c \in Chains, WorkerInit(c) PROVE TypeOK'
    <3>1. LogTypeOK'
      BY <2>2, LogUnchanged DEF WorkerInit, RejectInit, BeginBlock, InitChain,
         InitFails, InitFailReturns
    <3>2. CASE RejectInit(c)
      BY <3>1, <3>2, RunAssumption DEF RejectInit, BeginBlock, Emissions
    <3>3. CASE InitChain(c)
      BY <3>1, <3>3 DEF InitChain, Phases
    <3>4. CASE InitFails(c)
      BY <3>1, <3>4 DEF InitFails, Phases, Emissions
    <3>5. CASE InitFailReturns(c)
      BY <3>1, <3>5 DEF InitFailReturns
    <3>6. QED
      BY <2>2, <3>2, <3>3, <3>4, <3>5 DEF WorkerInit
  <2>3. ASSUME NEW c \in Chains, ChainTask(c) PROVE TypeOK'
    <3>1. LogTypeOK'
      BY <2>3, LogUnchanged DEF ChainTask, Move, StartChain, SkipChain,
         StepsizeFound, StepsizeFails, StepsizeFailReturns, CheckInterrupt,
         EndIteration, ModelThrows, RejectProposal, LogProgress, BeginBlock
    <3>2. ASSUME NEW from, NEW to \in Phases, Move(c, from, to), Quiet
          PROVE  TypeOK'
      BY <3>1, <3>2 DEF Move, Quiet
    <3>3. ASSUME NEW e \in Emissions, BeginBlock(c, e)
          PROVE  TypeOK'
      BY <3>1, <3>3, RunAssumption DEF BeginBlock
    <3>4. CASE StepsizeFails(c)
      BY <3>1, <3>4 DEF StepsizeFails, Move, Phases, Emissions
    <3>5. CASE RejectProposal(c) \/ LogProgress(c)
      BY <3>3, <3>5 DEF RejectProposal, LogProgress, Emissions
    <3>6. CASE StartChain(c)
      <4>1. PICK to \in {"stepsize", "check"} : Move(c, "pending", to)
        BY <3>6 DEF StartChain
      <4>2. QED
        BY <3>2, <3>6, <4>1 DEF StartChain, Phases
    <3>7. CASE SkipChain(c)
      BY <3>2, <3>7 DEF SkipChain, Phases
    <3>8. CASE StepsizeFound(c) \/ StepsizeFailReturns(c) \/ ModelThrows(c)
      BY <3>2, <3>8 DEF StepsizeFound, StepsizeFailReturns, ModelThrows, Phases
    <3>9. CASE CheckInterrupt(c)
      BY <3>2, <3>9 DEF CheckInterrupt, Phases
    <3>10. CASE EndIteration(c)
      BY <3>2, <3>10 DEF EndIteration, Phases
    <3>11. QED
      BY <2>3, <3>4, <3>5, <3>6, <3>7, <3>8, <3>9, <3>10 DEF ChainTask
  <2>4. CASE Join
    BY <2>4, LogUnchanged DEF Join
  <2>5. CASE JoinThrew
    <3>1. LogTypeOK'
      BY <2>5, MessageType, PushType, LogUnchanged DEF JoinThrew, Emissions
    <3>2. QED
      BY <2>5, <3>1 DEF JoinThrew
  <2>6. CASE RThread
    <3>1. CASE TimedOut \/ FutureReady \/ EndFlush
      BY <3>1, LogUnchanged DEF TimedOut, FutureReady, EndFlush
    <3>4. CASE PollInterrupt
      BY <3>4, LogUnchanged DEF PollInterrupt
    <3>5. CASE GetResult
      BY <3>5, LogUnchanged DEF GetResult
    <3>2. CASE BeginFlush
      BY <3>2, SwapType DEF BeginFlush
    <3>3. CASE FlushEntry
      BY <3>3, PrintType DEF FlushEntry
    <3>6. QED
      BY <2>6, <3>1, <3>2, <3>3, <3>4, <3>5 DEF RThread
  <2>7. CASE CtrlC
    BY <2>7, LogUnchanged DEF CtrlC
  <2>8. CASE UNCHANGED vars
    BY <2>8, LogUnchanged DEF vars
  <2>9. QED
    BY <2>1, <2>2, <2>3, <2>4, <2>5, <2>6, <2>7, <2>8
       DEF Next, WorkerStep, Finished
<1>3. QED
  BY <1>1, <1>2, PTL DEF Spec
-----------------------------------------------------------------------------
(* A step of the run touches the logger in one of four ways.               *)

LogStep ==
  \/ \E m \in Message : Push(m)
  \/ SwapBuffer /\ r_pc \in {"swap", "last_swap"}
  \/ PrintEntry
  \/ UNCHANGED logVars

LEMMA NextLogStep ==
  ASSUME TypeOK, [Next]_vars
  PROVE  LogStep
<1> USE DEF LogStep
<1>1. ASSUME NEW c \in Chains, Emit(c) PROVE LogStep
  BY <1>1, MessageType DEF Emit, TypeOK
<1>2. ASSUME NEW c \in Chains, WorkerInit(c) PROVE LogStep
  BY <1>2 DEF WorkerInit, RejectInit, BeginBlock, InitChain, InitFails,
     InitFailReturns
<1>3. ASSUME NEW c \in Chains, ChainTask(c) PROVE LogStep
  BY <1>3 DEF ChainTask, Move, StartChain, SkipChain, StepsizeFound,
     StepsizeFails, StepsizeFailReturns, CheckInterrupt, EndIteration,
     ModelThrows, RejectProposal, LogProgress, BeginBlock
<1>4. CASE WorkerStep
  BY <1>4, MessageType DEF WorkerStep, Join, JoinThrew, Emissions
<1>5. CASE RThread
  <2>1. CASE TimedOut \/ FutureReady \/ EndFlush
    BY <2>1 DEF TimedOut, FutureReady, EndFlush
  <2>2. CASE BeginFlush
    BY <2>2 DEF BeginFlush
  <2>3. CASE FlushEntry
    BY <2>3 DEF FlushEntry
  <2>4. CASE PollInterrupt
    BY <2>4 DEF PollInterrupt
  <2>5. CASE GetResult
    BY <2>5 DEF GetResult
  <2>6. QED
    BY <1>5, <2>1, <2>2, <2>3, <2>4, <2>5 DEF RThread
<1>6. CASE CtrlC \/ UNCHANGED vars
  BY <1>6 DEF CtrlC, vars
<1>7. QED
  BY <1>1, <1>2, <1>3, <1>4, <1>5, <1>6 DEF Next, Finished

-----------------------------------------------------------------------------
(* The inductive invariant, in named parts.  The worker's part stands on   *)
(* its own; the R thread's part needs it, because a chain that could still *)
(* log after the future is ready would refill the buffer.                  *)

\* Which lines a chain may be about to write where.
EmitFits(c) ==
  /\ emit[c] \in {"header", "body", "blank"} => phase[c] \in {"stepsize", "transition"}
  /\ emit[c] = "progress" => phase[c] = "transition"
  /\ emit[c] \in {"reject1", "reject2", "reject3"} => phase[c] = "new" /\ worker = "init"
  /\ emit[c] = "error" => phase[c] \in {"init_failed", "step_failed"}

\* Initialization has reached chain c.
Reached(c) == phase[c] \in {"pending", "init_failed"} \/ emit[c] # "idle"

WorkerInv ==
  /\ \A c \in Chains : EmitFits(c)
  /\ worker = "init" =>
       /\ \A c \in Chains : phase[c] \in {"new", "pending", "init_failed"}
       /\ \A c, d \in Chains : d < c /\ Reached(c) => phase[d] = "pending"
  /\ worker = "parallel" => \A c \in Chains : phase[c] \notin {"new", "init_failed"}
  /\ worker = "ready" => \A c \in Chains : phase[c] \notin Active /\ emit[c] = "idle"
  /\ return_code = "OK" => worker = "ready" /\ \A c \in Chains : phase[c] = "done"

RThreadInv ==
  /\ r_pc \notin {"print", "last_print"} => entries = <<>>
  /\ r_pc \in {"last_swap", "last_print", "get", "finished"} => worker = "ready"
  /\ r_pc \in {"last_print", "get", "finished"} => buffer_ = <<>>
  /\ cancel_requested = interrupted
  /\ r_pc = "finished" <=> result # "none"
  /\ result = "value" => ~interrupted
  /\ result = "interrupted" => interrupted

LEMMA ChainsAreNat == Chains \subseteq Nat /\ NumChains \in Chains
BY RunAssumption DEF Chains

LEMMA WorkerInvInit == Init => WorkerInv
BY DEF Init, WorkerInv, EmitFits, Reached

\* A chain that has ended has nothing left to write.
LEMMA AllEndedQuiet ==
  ASSUME TypeOK, WorkerInv, AllEnded
  PROVE  \A c \in Chains : phase[c] \notin Active /\ emit[c] = "idle"
<1> SUFFICES ASSUME NEW c \in Chains
             PROVE  phase[c] \notin Active /\ emit[c] = "idle"
  OBVIOUS
<1>1. phase[c] \in {"done", "threw", "skipped"}
  BY DEF AllEnded, Ended
<1>2. phase[c] \notin Active
  BY <1>1 DEF Active
<1>3. emit[c] \in Emissions /\ EmitFits(c)
  BY DEF TypeOK, WorkerInv
<1>4. QED
  BY <1>1, <1>2, <1>3 DEF EmitFits, Emissions

LEMMA WorkerInvStep ==
  ASSUME TypeOK, WorkerInv, [Next]_vars
  PROVE  WorkerInv'
<1> USE DEF TypeOK, WorkerInv, EmitFits, Reached, rVars
<1>1. ASSUME NEW c \in Chains, Emit(c) PROVE WorkerInv'
  BY <1>1 DEF Emit, Following, Emissions
<1>2. ASSUME NEW c \in Chains, RejectInit(c) PROVE WorkerInv'
  BY <1>2, ChainsAreNat DEF RejectInit, Initializing, BeginBlock
<1>3. ASSUME NEW c \in Chains, InitChain(c) PROVE WorkerInv'
  BY <1>3, ChainsAreNat, RunAssumption DEF InitChain, Initializing, Chains
<1>4. ASSUME NEW c \in Chains, InitFails(c) PROVE WorkerInv'
  BY <1>4, ChainsAreNat DEF InitFails, Initializing
<1>5. ASSUME NEW c \in Chains, InitFailReturns(c) PROVE WorkerInv'
  <2>1. /\ worker = "init" /\ phase[c] = "init_failed" /\ emit[c] = "idle"
        /\ worker' = "ready" /\ return_code' = "CONFIG"
        /\ phase' = phase /\ emit' = emit
    BY <1>5 DEF InitFailReturns
  <2>2. \A d \in Chains : emit[d] = "idle"
    <3> SUFFICES ASSUME NEW d \in Chains, emit[d] # "idle" PROVE FALSE
      OBVIOUS
    <3>1. CASE c < d
      BY <2>1, <3>1
    <3>2. CASE d < c
      <4>1. phase[d] = "pending"
        BY <2>1, <3>2
      <4>2. emit[d] \in Emissions /\ EmitFits(d)
        OBVIOUS
      <4>3. QED
        BY <4>1, <4>2 DEF Emissions
    <3>3. CASE c = d
      BY <2>1, <3>3
    <3>4. QED
      BY <3>1, <3>2, <3>3, ChainsAreNat
  <2>3. \A d \in Chains : phase[d] \notin Active
    BY <2>1 DEF Active
  <2>4. QED
    BY <2>1, <2>2, <2>3
<1>6. ASSUME NEW c \in Chains, NEW from \in Phases, NEW to \in Phases,
             Move(c, from, to), Quiet,
             to \notin {"new", "init_failed"}
      PROVE  WorkerInv'
  BY <1>6 DEF Move, Quiet
<1>7. ASSUME NEW c \in Chains, ChainTask(c) PROVE WorkerInv'
  <2>1. CASE StartChain(c)
    <3>1. PICK to \in {"stepsize", "check"} : Move(c, "pending", to)
      BY <2>1 DEF StartChain
    <3>2. "pending" \in Phases /\ to \in Phases /\ to \notin {"new", "init_failed"}
      BY <3>1 DEF Phases
    <3>3. Quiet
      BY <2>1 DEF StartChain
    <3>4. QED
      BY <1>6, <3>1, <3>2, <3>3
  <2>2. CASE SkipChain(c) \/ StepsizeFound(c) \/ StepsizeFailReturns(c) \/ ModelThrows(c)
    BY <1>6, <2>2 DEF SkipChain, StepsizeFound, StepsizeFailReturns, ModelThrows, Phases
  <2>3. CASE CheckInterrupt(c) \/ EndIteration(c)
    BY <1>6, <2>3 DEF CheckInterrupt, EndIteration, Phases
  <2>4. CASE StepsizeFails(c)
    BY <2>4 DEF StepsizeFails, Move
  <2>5. CASE RejectProposal(c) \/ LogProgress(c)
    BY <2>5 DEF RejectProposal, LogProgress, BeginBlock, Active
  <2>6. QED
    BY <1>7, <2>1, <2>2, <2>3, <2>4, <2>5 DEF ChainTask
<1>8. CASE Join
  <2>1. /\ worker = "parallel" /\ worker' = "ready" /\ return_code' = "OK"
        /\ phase' = phase /\ emit' = emit
        /\ \A c \in Chains : phase[c] = "done"
    BY <1>8 DEF Join
  <2>2. \A c \in Chains : phase[c] \notin Active /\ emit[c] = "idle"
    BY <2>1, AllEndedQuiet DEF AllEnded, Ended
  <2>3. QED
    BY <2>1, <2>2
<1>9. CASE JoinThrew
  <2>1. /\ worker = "parallel" /\ worker' = "ready" /\ return_code' # "OK"
        /\ phase' = phase /\ emit' = emit /\ AllEnded
    BY <1>9 DEF JoinThrew
  <2>2. \A c \in Chains : phase[c] \notin Active /\ emit[c] = "idle"
    BY <2>1, AllEndedQuiet
  <2>3. QED
    BY <2>1, <2>2
<1>10. CASE UNCHANGED chainVars
  BY <1>10 DEF chainVars
<1>11. RThread \/ CtrlC \/ UNCHANGED vars => UNCHANGED chainVars
  BY DEF RThread, TimedOut, FutureReady, BeginFlush, FlushEntry, EndFlush,
     PollInterrupt, GetResult, CtrlC, vars
<1>12. QED
  BY <1>1, <1>2, <1>3, <1>4, <1>5, <1>7, <1>8, <1>9, <1>10, <1>11
     DEF Next, WorkerInit, WorkerStep, Finished

LEMMA RThreadInvInit == Init => RThreadInv
BY DEF Init, LogInit, RThreadInv

LEMMA RThreadInvStep ==
  ASSUME TypeOK, WorkerInv, RThreadInv, [Next]_vars
  PROVE  RThreadInv'
<1> USE DEF RThreadInv
<1>1. ASSUME NEW c \in Chains, Emit(c) PROVE RThreadInv'
  BY <1>1 DEF Emit, WorkerInv, Push, rVars
<1>2. ASSUME NEW c \in Chains, WorkerInit(c) PROVE RThreadInv'
  BY <1>2 DEF WorkerInit, RejectInit, Initializing, BeginBlock, InitChain,
     InitFails, InitFailReturns, rVars, logVars
<1>3. ASSUME NEW c \in Chains, ChainTask(c) PROVE RThreadInv'
  <2>1. UNCHANGED <<rVars, worker, logVars>>
    BY <1>3 DEF ChainTask, Move, StartChain, SkipChain, StepsizeFound,
       StepsizeFails, StepsizeFailReturns, CheckInterrupt, EndIteration,
       ModelThrows, RejectProposal, LogProgress, BeginBlock
  <2>2. QED
    BY <2>1 DEF rVars, logVars
<1>4. CASE WorkerStep
  BY <1>4 DEF WorkerStep, Join, JoinThrew, Push, rVars, logVars
<1>5. CASE TimedOut \/ FutureReady \/ CtrlC
  BY <1>5 DEF TimedOut, FutureReady, CtrlC, chainVars, logVars
<1>6. CASE BeginFlush
  BY <1>6 DEF BeginFlush, SwapBuffer, chainVars
<1>7. CASE FlushEntry
  BY <1>7 DEF FlushEntry, PrintEntry, chainVars, rVars
<1>8. CASE EndFlush
  BY <1>8 DEF EndFlush, chainVars, logVars
<1>9. CASE PollInterrupt
  BY <1>9 DEF PollInterrupt, chainVars, logVars
<1>10. CASE GetResult
  BY <1>10 DEF GetResult, chainVars, logVars
<1>11. CASE UNCHANGED vars
  BY <1>11 DEF vars, rVars, chainVars, logVars
<1>12. QED
  BY <1>1, <1>2, <1>3, <1>4, <1>5, <1>6, <1>7, <1>8, <1>9, <1>10, <1>11
     DEF Next, RThread, Finished

\* At every moment the chains, the worker and the R thread are in a
\* combination of states that the code of r_worker.hpp and the services allows.
THEOREM StructureInvariant == Spec => [](WorkerInv /\ RThreadInv)
<1>1. Init => WorkerInv /\ RThreadInv
  BY WorkerInvInit, RThreadInvInit
<1>2. TypeOK /\ WorkerInv /\ RThreadInv /\ [Next]_vars => (WorkerInv /\ RThreadInv)'
  BY WorkerInvStep, RThreadInvStep
<1>3. QED
  BY <1>1, <1>2, TypeCorrect, PTL DEF Spec
-----------------------------------------------------------------------------
(* Output.                                                                 *)

LEMMA OutputStep ==
  ASSUME TypeOK, RThreadInv, OutputAccounted, [Next]_vars
  PROVE  OutputAccounted'
<1>1. LogTypeOK /\ LogStep
  BY NextLogStep DEF TypeOK
<1>2. CASE \E m \in Message : Push(m)
  BY <1>1, <1>2, OutputPush
<1>3. CASE SwapBuffer /\ r_pc \in {"swap", "last_swap"}
  <2>1. entries = <<>>
    BY <1>3 DEF RThreadInv
  <2>2. QED
    BY <1>1, <1>3, <2>1, OutputSwap
<1>4. CASE PrintEntry
  BY <1>1, <1>4, OutputPrint
<1>5. CASE UNCHANGED logVars
  BY <1>5 DEF logVars, OutputAccounted
<1>6. QED
  BY <1>1, <1>2, <1>3, <1>4, <1>5 DEF LogStep

\* No line of the output is lost, repeated or reordered, whatever the
\* interleaving of push() and flush().
THEOREM OutputTheorem == Spec => []OutputAccounted
<1>1. Init => OutputAccounted
  BY DEF Init, LogInit, OutputAccounted
<1>2. TypeOK /\ RThreadInv /\ OutputAccounted /\ [Next]_vars => OutputAccounted'
  BY OutputStep
<1>3. QED
  BY <1>1, <1>2, TypeCorrect, StructureInvariant, PTL DEF Spec
-----------------------------------------------------------------------------
(* Consequences of the structure of the run.                               *)

\* No chain is running when run_on_worker_thread() gives control back.
THEOREM NoChainOutlivesCallTheorem == Spec => []NoChainOutlivesCall
<1>1. WorkerInv /\ RThreadInv => NoChainOutlivesCall
  BY DEF WorkerInv, RThreadInv, NoChainOutlivesCall
<1>2. QED
  BY <1>1, StructureInvariant, PTL

\* A value with code OK means no interrupt and every chain run to its end.
THEOREM OkTheorem == Spec => []OkMeansEveryChainFinished
<1>1. WorkerInv /\ RThreadInv => OkMeansEveryChainFinished
  BY DEF WorkerInv, RThreadInv, OkMeansEveryChainFinished
<1>2. QED
  BY <1>1, StructureInvariant, PTL
-----------------------------------------------------------------------------
(* The count of open Metropolis blocks.                                    *)

OpenBlocks == {c \in Chains : InBlock(c)}

LEMMA OpenBlocksFinite == IsFiniteSet(OpenBlocks) /\ Cardinality(OpenBlocks) \in Nat
<1>1. IsFiniteSet(Chains)
  BY FS_Interval, RunAssumption DEF Chains
<1>2. OpenBlocks \subseteq Chains
  BY DEF OpenBlocks
<1>3. QED
  BY <1>1, <1>2, FS_Subset, FS_CardinalityType

LEMMA MetropolisEmit ==
  ASSUME TypeOK, MetropolisCountsOpenBlocks, NEW c \in Chains, Emit(c)
  PROVE  MetropolisCountsOpenBlocks'
<1>1. /\ emit[c] \in Emissions /\ emit[c] # "idle"
      /\ emit' = [emit EXCEPT ![c] = Following(emit[c])]
      /\ emit \in [Chains -> Emissions]
      /\ metropolis_pending_ \in Nat
      /\ metropolis_pending_' = MetropolisAfter(MessageOf(c, emit[c]))
      /\ metropolis_pending_ = Cardinality(OpenBlocks)
  BY DEF Emit, Push, TypeOK, LogTypeOK, MetropolisCountsOpenBlocks, OpenBlocks
<1>2. \A d \in Chains : d # c => (InBlock(d)' <=> InBlock(d))
  BY <1>1 DEF InBlock
<1>3. CASE emit[c] = "header"
  <2>1. Following("header") \in {"body", "blank"}
    BY DEF Following
  <2>2. c \notin OpenBlocks /\ InBlock(c)'
    BY <1>1, <1>3, <2>1 DEF InBlock, OpenBlocks
  <2>3. OpenBlocks' = OpenBlocks \cup {c}
    BY <1>2, <2>2 DEF OpenBlocks
  <2>4. Cardinality(OpenBlocks') = Cardinality(OpenBlocks) + 1
    BY <2>2, <2>3, OpenBlocksFinite, FS_AddElement
  <2>5. metropolis_pending_' = metropolis_pending_ + 1
    BY <1>1, <1>3 DEF MetropolisAfter, MessageOf
  <2>6. QED
    BY <1>1, <2>4, <2>5 DEF MetropolisCountsOpenBlocks, OpenBlocks
<1>4. CASE emit[c] = "blank"
  <2>1. Following("blank") = "idle"
    BY DEF Following
  <2>2. c \in OpenBlocks /\ ~InBlock(c)'
    BY <1>1, <1>4, <2>1 DEF InBlock, OpenBlocks
  <2>3. OpenBlocks' = OpenBlocks \ {c}
    BY <1>2, <2>2 DEF OpenBlocks
  <2>4. Cardinality(OpenBlocks') = Cardinality(OpenBlocks) - 1
    BY <2>2, <2>3, OpenBlocksFinite, FS_RemoveElement
  <2>5. Cardinality(OpenBlocks) # 0
    BY <2>2, OpenBlocksFinite, FS_EmptySet
  <2>6. metropolis_pending_' = metropolis_pending_ - 1
    BY <1>1, <1>4, <2>5, OpenBlocksFinite DEF MetropolisAfter, MessageOf
  <2>7. QED
    BY <1>1, <2>4, <2>6 DEF MetropolisCountsOpenBlocks, OpenBlocks
<1>5. CASE emit[c] \notin {"header", "blank"}
  <2>1. metropolis_pending_' = metropolis_pending_
    BY <1>1, <1>5 DEF MetropolisAfter, MessageOf, Emissions
  <2>2. InBlock(c)' <=> InBlock(c)
    BY <1>1, <1>5 DEF InBlock, Following, Emissions
  <2>3. OpenBlocks' = OpenBlocks
    BY <1>2, <2>2 DEF OpenBlocks
  <2>4. QED
    BY <1>1, <2>1, <2>3 DEF MetropolisCountsOpenBlocks, OpenBlocks
<1>6. QED
  BY <1>3, <1>4, <1>5

\* A step other than Emit: what it may push and what it may begin to write.
QuietStep ==
  /\ \/ \E c \in Chains : Push(MessageOf(c, "error"))
     \/ SwapBuffer
     \/ PrintEntry
     \/ UNCHANGED logVars
  /\ \/ UNCHANGED emit
     \/ \E c \in Chains, e \in {"header", "reject1", "progress", "error"} :
          /\ emit[c] = "idle"
          /\ emit' = [emit EXCEPT ![c] = e]

LEMMA NextQuietStep ==
  ASSUME TypeOK, [Next]_vars, \A c \in Chains : ~Emit(c)
  PROVE  QuietStep
<1> USE DEF QuietStep
<1>1. ASSUME NEW c \in Chains, WorkerInit(c) PROVE QuietStep
  BY <1>1 DEF WorkerInit, RejectInit, BeginBlock, InitChain, InitFails,
     InitFailReturns
<1>2. ASSUME NEW c \in Chains, ChainTask(c) PROVE QuietStep
  <2>1. CASE StepsizeFails(c)
    BY <2>1 DEF StepsizeFails, Move
  <2>2. CASE RejectProposal(c) \/ LogProgress(c)
    BY <2>2 DEF RejectProposal, LogProgress, BeginBlock
  <2>3. CASE ~(StepsizeFails(c) \/ RejectProposal(c) \/ LogProgress(c))
    BY <1>2, <2>3 DEF ChainTask, Move, StartChain, SkipChain, StepsizeFound,
       StepsizeFailReturns, CheckInterrupt, EndIteration, ModelThrows, Quiet
  <2>4. QED
    BY <2>1, <2>2, <2>3
<1>3. CASE WorkerStep
  BY <1>3 DEF WorkerStep, Join, JoinThrew
<1>4. CASE RThread
  <2>1. UNCHANGED emit
    BY <1>4 DEF RThread, TimedOut, FutureReady, BeginFlush, FlushEntry,
       EndFlush, PollInterrupt, GetResult, chainVars
  <2>2. SwapBuffer \/ PrintEntry \/ UNCHANGED logVars
    BY <1>4 DEF RThread, TimedOut, FutureReady, BeginFlush, FlushEntry,
       EndFlush, PollInterrupt, GetResult
  <2>3. QED
    BY <2>1, <2>2
<1>5. CASE CtrlC \/ UNCHANGED vars
  BY <1>5 DEF CtrlC, vars, chainVars
<1>6. QED
  BY <1>1, <1>2, <1>3, <1>4, <1>5 DEF Next, Finished

LEMMA MetropolisStep ==
  ASSUME TypeOK, MetropolisCountsOpenBlocks, [Next]_vars
  PROVE  MetropolisCountsOpenBlocks'
<1>1. CASE \E c \in Chains : Emit(c)
  BY <1>1, MetropolisEmit
<1>2. CASE \A c \in Chains : ~Emit(c)
  <2>1. QuietStep
    BY <1>2, NextQuietStep
  <2>2. metropolis_pending_' = metropolis_pending_
    BY <2>1 DEF QuietStep, Push, MetropolisAfter, MessageOf, SwapBuffer,
       PrintEntry, logVars
  <2>3. \A d \in Chains : InBlock(d)' <=> InBlock(d)
    BY <2>1 DEF QuietStep, TypeOK, InBlock
  <2>4. OpenBlocks' = OpenBlocks
    BY <2>3 DEF OpenBlocks
  <2>5. QED
    BY <2>2, <2>4 DEF MetropolisCountsOpenBlocks, OpenBlocks
<1>3. QED
  BY <1>1, <1>2

\* metropolis_pending_ is the number of chains inside a block: it never leaks.
THEOREM MetropolisTheorem == Spec => []MetropolisCountsOpenBlocks
<1>1. Init => MetropolisCountsOpenBlocks
  <2> SUFFICES ASSUME Init PROVE MetropolisCountsOpenBlocks
    OBVIOUS
  <2>1. OpenBlocks = {} /\ metropolis_pending_ = 0
    BY DEF Init, LogInit, OpenBlocks, InBlock
  <2>2. QED
    BY <2>1, FS_EmptySet DEF MetropolisCountsOpenBlocks, OpenBlocks
<1>2. TypeOK /\ MetropolisCountsOpenBlocks /\ [Next]_vars => MetropolisCountsOpenBlocks'
  BY MetropolisStep
<1>3. QED
  BY <1>1, <1>2, TypeCorrect, PTL DEF Spec

\* Every line that is pushed is one of the lines chains write.
LEMMA PushedLine ==
  ASSUME TypeOK, [Next]_vars, pushed' # pushed
  PROVE  \E c \in Chains, e \in Emissions \ {"idle"} : Push(MessageOf(c, e))
<1>1. CASE \E c \in Chains : Emit(c)
  BY <1>1 DEF Emit, TypeOK
<1>2. CASE \A c \in Chains : ~Emit(c)
  <2>1. QuietStep
    BY <1>2, NextQuietStep
  <2>2. \E c \in Chains : Push(MessageOf(c, "error"))
    BY <2>1 DEF QuietStep, SwapBuffer, PrintEntry, logVars
  <2>3. QED
    BY <2>2 DEF Emissions
<1>3. QED
  BY <1>1, <1>2

LEMMA LoneErrorStep ==
  ASSUME TypeOK, MetropolisCountsOpenBlocks, [Next]_vars
  PROVE  LoneErrorShown
<1> SUFFICES ASSUME pushed' # pushed,
                    Severe(buffer_'[Len(buffer_')].msg),
                    buffer_'[Len(buffer_')].msg.block = "none",
                    \A c \in Chains : ~InBlock(c)
             PROVE  ~buffer_'[Len(buffer_')].exception
  BY DEF LoneErrorShown
<1>1. PICK c \in Chains, e \in Emissions \ {"idle"} : Push(MessageOf(c, e))
  BY PushedLine
<1> DEFINE m == MessageOf(c, e)
<1>2. buffer_'[Len(buffer_')] = [msg |-> m, exception |-> IsException(m)]
  BY <1>1 DEF Push, TypeOK, LogTypeOK
<1>3. m.text = "other" /\ m.lv = "error"
  BY <1>2 DEF Severe, MessageOf
<1>4. metropolis_pending_ = 0
  <2>1. OpenBlocks = {}
    BY DEF OpenBlocks
  <2>2. QED
    BY <2>1, FS_EmptySet DEF MetropolisCountsOpenBlocks, OpenBlocks
<1>5. ~IsException(m)
  BY <1>3, <1>4 DEF IsException, Opens, Continues
<1>6. QED
  BY <1>2, <1>5

\* A genuine error that is logged while no chain is inside a block is never
\* taken for chatter, whatever was logged before.
THEOREM LoneErrorTheorem == Spec => LoneErrorsShown
<1>1. TypeOK /\ MetropolisCountsOpenBlocks /\ [Next]_vars => [LoneErrorShown]_vars
  BY LoneErrorStep
<1>2. QED
  BY <1>1, TypeCorrect, MetropolisTheorem, PTL DEF Spec, LoneErrorsShown
-----------------------------------------------------------------------------
(* Silencing.  The invariant says that push() classifies every line of a   *)
(* block as chatter; for the initialization blocks it needs that only one  *)
(* chain is being initialized, for the others the count of open blocks.    *)

Classified(e) == e.msg.block # "none" => e.exception

ChatterInv ==
  /\ \A i \in 1..Len(buffer_) : Classified(buffer_[i])
  /\ \A i \in 1..Len(entries) : Classified(entries[i])
  /\ \A c \in Chains : emit[c] = "reject2" => init_pending_ = 2
  /\ \A c \in Chains : emit[c] = "reject3" => init_pending_ = 1

LEMMA OneRejecting ==
  ASSUME TypeOK, WorkerInv, NEW c \in Chains, NEW d \in Chains,
         emit[c] \in {"reject1", "reject2", "reject3"},
         emit[d] \in {"reject1", "reject2", "reject3"}
  PROVE  c = d
<1>1. worker = "init" /\ phase[c] = "new" /\ phase[d] = "new"
  BY DEF WorkerInv, EmitFits
<1>2. Reached(c) /\ Reached(d)
  BY DEF Reached
<1>3. ~(c < d) /\ ~(d < c)
  BY <1>1, <1>2 DEF WorkerInv
<1>4. QED
  BY <1>3, ChainsAreNat

\* push() recognises every line a chain writes inside a block.
LEMMA BlockLineIsException ==
  ASSUME TypeOK, ChatterInv, MetropolisCountsOpenBlocks,
         NEW c \in Chains, emit[c] # "idle",
         MessageOf(c, emit[c]).block # "none"
  PROVE  IsException(MessageOf(c, emit[c]))
<1>1. emit[c] \in {"header", "body", "blank", "reject1", "reject2", "reject3"}
  BY DEF MessageOf
<1>2. CASE emit[c] \in {"header", "reject1"}
  BY <1>2 DEF IsException, Opens, MessageOf
<1>3. CASE emit[c] \in {"body", "blank"}
  <2>1. OpenBlocks # {}
    BY <1>3 DEF OpenBlocks, InBlock
  <2>2. metropolis_pending_ > 0
    BY <2>1, OpenBlocksFinite, FS_EmptySet DEF MetropolisCountsOpenBlocks, OpenBlocks
  <2>3. QED
    BY <1>3, <2>2 DEF IsException, Continues, MessageOf
<1>4. CASE emit[c] \in {"reject2", "reject3"}
  BY <1>4 DEF ChatterInv, IsException, Continues, MessageOf
<1>5. QED
  BY <1>1, <1>2, <1>3, <1>4

LEMMA ChatterPush ==
  ASSUME TypeOK, ChatterInv, NEW m \in Message, Push(m),
         m.block # "none" => IsException(m)
  PROVE  /\ \A i \in 1..Len(buffer_') : Classified(buffer_'[i])
         /\ \A i \in 1..Len(entries') : Classified(entries'[i])
<1>1. buffer_ \in Seq(Entry) /\ Len(buffer_) \in Nat
  BY DEF TypeOK, LogTypeOK
<1>2. /\ Len(buffer_') = Len(buffer_) + 1
      /\ buffer_'[Len(buffer_) + 1] = [msg |-> m, exception |-> IsException(m)]
      /\ \A i \in 1..Len(buffer_) : buffer_'[i] = buffer_[i]
  BY <1>1 DEF Push
<1>3. Classified(buffer_'[Len(buffer_) + 1])
  BY <1>2 DEF Classified
<1>4. ASSUME NEW i \in 1..Len(buffer_') PROVE Classified(buffer_'[i])
  <2>1. CASE i \in 1..Len(buffer_)
    BY <2>1, <1>2 DEF ChatterInv
  <2>2. CASE i = Len(buffer_) + 1
    BY <2>2, <1>3
  <2>3. QED
    BY <1>1, <1>2, <2>1, <2>2
<1>5. entries' = entries
  BY DEF Push
<1>6. QED
  BY <1>4, <1>5 DEF ChatterInv

LEMMA ChatterEmit ==
  ASSUME TypeOK, WorkerInv, ChatterInv, MetropolisCountsOpenBlocks,
         NEW c \in Chains, Emit(c)
  PROVE  ChatterInv'
<1>1. /\ emit[c] \in Emissions /\ emit[c] # "idle"
      /\ emit' = [emit EXCEPT ![c] = Following(emit[c])]
      /\ emit \in [Chains -> Emissions]
      /\ init_pending_' = InitAfter(MessageOf(c, emit[c]))
      /\ Push(MessageOf(c, emit[c]))
  BY DEF Emit, Push, TypeOK
<1>2. /\ \A i \in 1..Len(buffer_') : Classified(buffer_'[i])
      /\ \A i \in 1..Len(entries') : Classified(entries'[i])
  BY <1>1, MessageType, BlockLineIsException, ChatterPush
<1>3. CASE emit[c] \in {"reject1", "reject2", "reject3"}
  <2>1. \A d \in Chains : emit'[d] \in {"reject2", "reject3"} => d = c
    BY <1>1, <1>3, OneRejecting
  <2>2. CASE emit[c] = "reject1"
    <3>1. emit'[c] = "reject2" /\ init_pending_' = 2
      BY <1>1, <2>2 DEF Following, InitAfter, MessageOf
    <3>2. QED
      BY <1>2, <2>1, <3>1 DEF ChatterInv
  <2>3. CASE emit[c] = "reject2"
    <3>1. emit'[c] = "reject3" /\ init_pending_ = 2
      BY <1>1, <2>3 DEF Following, ChatterInv
    <3>2. init_pending_' = 1
      BY <1>1, <2>3, <3>1 DEF InitAfter, MessageOf
    <3>3. QED
      BY <1>2, <2>1, <3>1, <3>2 DEF ChatterInv
  <2>4. CASE emit[c] = "reject3"
    <3>1. emit'[c] = "idle"
      BY <1>1, <2>4 DEF Following
    <3>2. QED
      BY <1>2, <2>1, <3>1 DEF ChatterInv
  <2>5. QED
    BY <1>3, <2>2, <2>3, <2>4
<1>4. CASE emit[c] \notin {"reject1", "reject2", "reject3"}
  <2>1. init_pending_' = init_pending_
    BY <1>1, <1>4 DEF InitAfter, MessageOf, Emissions
  <2>2. Following(emit[c]) \notin {"reject2", "reject3"}
    BY <1>4 DEF Following
  <2>3. \A d \in Chains : emit'[d] \in {"reject2", "reject3"} => emit'[d] = emit[d]
    BY <1>1, <2>2
  <2>4. QED
    BY <1>2, <2>1, <2>3 DEF ChatterInv
<1>5. QED
  BY <1>3, <1>4

LEMMA ChatterQuiet ==
  ASSUME TypeOK, ChatterInv, QuietStep
  PROVE  ChatterInv'
<1>1. \A d \in Chains : emit'[d] \in {"reject2", "reject3"} => emit'[d] = emit[d]
  BY DEF QuietStep, TypeOK
<1>2. init_pending_' = init_pending_
  BY DEF QuietStep, Push, InitAfter, MessageOf, SwapBuffer, PrintEntry, logVars
<1>3. /\ \A i \in 1..Len(buffer_') : Classified(buffer_'[i])
      /\ \A i \in 1..Len(entries') : Classified(entries'[i])
  <2>1. CASE \E c \in Chains : Push(MessageOf(c, "error"))
    <3>1. PICK c \in Chains : Push(MessageOf(c, "error"))
      BY <2>1
    <3>2. MessageOf(c, "error") \in Message /\ MessageOf(c, "error").block = "none"
      BY MessageType DEF MessageOf, Emissions
    <3>3. QED
      BY <3>1, <3>2, ChatterPush
  <2>2. CASE SwapBuffer
    <3>1. entries' = buffer_ /\ Len(buffer_') = 0
      BY <2>2 DEF SwapBuffer
    <3>2. QED
      BY <3>1 DEF ChatterInv
  <2>3. CASE PrintEntry
    <3>1. entries \in Seq(Entry) /\ entries # <<>> /\ Len(entries) \in Nat
      BY <2>3 DEF PrintEntry, TypeOK, LogTypeOK
    <3>2. /\ Len(entries') = Len(entries) - 1
          /\ \A i \in 1..Len(entries') : entries'[i] = entries[i + 1]
      BY <2>3, <3>1, HeadTailProperties DEF PrintEntry
    <3>3. \A i \in 1..Len(entries') : i + 1 \in 1..Len(entries)
      BY <3>1, <3>2
    <3>4. buffer_' = buffer_
      BY <2>3 DEF PrintEntry
    <3>5. QED
      BY <3>2, <3>3, <3>4 DEF ChatterInv
  <2>4. CASE UNCHANGED logVars
    BY <2>4 DEF logVars, ChatterInv
  <2>5. QED
    BY <2>1, <2>2, <2>3, <2>4 DEF QuietStep
<1>4. QED
  BY <1>1, <1>2, <1>3 DEF ChatterInv

LEMMA SilencedStep ==
  ASSUME TypeOK, ChatterInv, ChatterSilenced, [Next]_vars
  PROVE  ChatterSilenced'
<1>1. CASE PrintEntry
  <2> SUFFICES ASSUME ~ShowExceptions, NEW i \in printed'
               PROVE  history_'[i].block = "none"
    BY DEF ChatterSilenced
  <2>1. /\ entries \in Seq(Entry) /\ entries # <<>>
        /\ history_ \in Seq(Message) /\ Len(history_) \in Nat
        /\ printed \subseteq 1..Len(history_)
    BY <1>1 DEF PrintEntry, TypeOK, LogTypeOK
  <2>2. /\ Len(entries) \in Nat /\ Len(entries) # 0
        /\ Head(entries) = entries[1] /\ Head(entries) \in Entry
    BY <2>1, HeadTailProperties, EmptySeq
  <2>3. Classified(Head(entries)) /\ Head(entries).msg \in Message
    BY <2>2 DEF ChatterInv, Entry
  <2>4. /\ history_'[Len(history_) + 1] = Head(entries).msg
        /\ \A j \in 1..Len(history_) : history_'[j] = history_[j]
    BY <1>1, <2>1, <2>3 DEF PrintEntry
  <2>5. CASE i \in printed
    BY <2>1, <2>4, <2>5 DEF ChatterSilenced
  <2>6. CASE i \notin printed
    <3>1. i = Len(history_) + 1 /\ Shown(Head(entries))
      BY <1>1, <2>6 DEF PrintEntry
    <3>2. ~Head(entries).exception
      BY <3>1 DEF Shown
    <3>3. QED
      BY <2>3, <2>4, <3>1, <3>2 DEF Classified
  <2>7. QED
    BY <2>5, <2>6
<1>2. CASE ~PrintEntry
  <2>1. UNCHANGED <<history_, printed>>
    BY <1>2, NextLogStep DEF LogStep, Push, SwapBuffer, logVars
  <2>2. QED
    BY <2>1 DEF ChatterSilenced
<1>3. QED
  BY <1>1, <1>2

\* With show_exceptions = FALSE no line of a block reaches the console,
\* however the chains interleave.
THEOREM ChatterTheorem == Spec => []ChatterSilenced
<1>1. Init => ChatterInv /\ ChatterSilenced
  BY DEF Init, LogInit, ChatterInv, ChatterSilenced
<1>2. TypeOK /\ WorkerInv /\ MetropolisCountsOpenBlocks
        /\ ChatterInv /\ ChatterSilenced /\ [Next]_vars
      => (ChatterInv /\ ChatterSilenced)'
  BY ChatterEmit, NextQuietStep, ChatterQuiet, SilencedStep
<1>3. QED
  BY <1>1, <1>2, TypeCorrect, StructureInvariant, MetropolisTheorem, PTL DEF Spec
-----------------------------------------------------------------------------
(* Refinement.                                                             *)

Implementation == TypeOK /\ WorkerInv /\ RThreadInv /\ OutputAccounted

LEMMA CallLog ==
  ASSUME Implementation, NEW m \in Message, Push(m),
         UNCHANGED <<interrupted, result>>, worker # "ready"
  PROVE  Call!Next
<1>1. result = "none"
  BY DEF Implementation, TypeOK, RThreadInv
<1>2. pushed' = Append(pushed, m) /\ history_' = history_
  BY DEF Push
<1>3. QED
  BY <1>1, <1>2 DEF Call!Next, Call!Log

LEMMA CallDeliver ==
  ASSUME Implementation, FlushEntry
  PROVE  Call!Next
<1>1. /\ r_pc \in {"print", "last_print"} /\ PrintEntry
      /\ interrupted' = interrupted /\ result' = result
  BY DEF FlushEntry, rVars
<1>2. result = "none"
  BY <1>1 DEF Implementation, RThreadInv
<1>3. /\ entries \in Seq(Entry) /\ entries # <<>> /\ Len(entries) \in Nat
      /\ Len(history_) \in Nat /\ Len(buffer_) \in Nat /\ Len(pushed) \in Nat
  BY <1>1 DEF PrintEntry, Implementation, TypeOK, LogTypeOK
<1>4. Len(entries) # 0 /\ Head(entries) = entries[1]
  BY <1>3, EmptySeq
<1>5. Head(entries).msg = pushed[Len(history_) + 1] /\ Len(history_) < Len(pushed)
  BY <1>3, <1>4 DEF Implementation, OutputAccounted
<1>6. QED
  BY <1>1, <1>2, <1>5 DEF PrintEntry, Call!Next, Call!Deliver

LEMMA CallEnd ==
  ASSUME Implementation, GetResult
  PROVE  Call!Next
<1>1. /\ r_pc = "get" /\ entries = <<>> /\ buffer_ = <<>> /\ result = "none"
  BY DEF GetResult, Implementation, RThreadInv
<1>2. /\ history_ \in Seq(Message) /\ pushed \in Seq(Message)
      /\ Len(history_) = Len(pushed)
      /\ \A i \in 1..Len(history_) : history_[i] = pushed[i]
  BY <1>1, SMTT(30) DEF Implementation, TypeOK, LogTypeOK, OutputAccounted
<1>3. history_ = pushed
  BY <1>2, SeqEqual
<1>4. /\ result' \in {"value", "interrupted", "error"}
      /\ result' = "value" => ~interrupted
      /\ result' = "interrupted" => interrupted
      /\ UNCHANGED <<pushed, history_, interrupted>>
  BY DEF GetResult, logVars
<1>5. QED
  BY <1>1, <1>3, <1>4 DEF Call!Next, Call!End, Call!Outcomes

LEMMA CallStep ==
  ASSUME Implementation, [Next]_vars
  PROVE  [Call!Next]_(Call!callVars)
<1> USE DEF Call!callVars
<1>1. ASSUME NEW c \in Chains, Emit(c) PROVE Call!Next
  <2>1. worker # "ready" /\ MessageOf(c, emit[c]) \in Message
    BY <1>1, MessageType DEF Emit, Implementation, TypeOK, WorkerInv
  <2>2. QED
    BY <1>1, <2>1, CallLog DEF Emit, rVars
<1>2. ASSUME NEW c \in Chains, WorkerInit(c) \/ ChainTask(c)
      PROVE  UNCHANGED <<pushed, history_, interrupted, result>>
  BY <1>2 DEF WorkerInit, RejectInit, InitChain, InitFails, InitFailReturns,
     ChainTask, Move, StartChain, SkipChain, StepsizeFound, StepsizeFails,
     StepsizeFailReturns, CheckInterrupt, EndIteration, ModelThrows,
     RejectProposal, LogProgress, BeginBlock, rVars, logVars
<1>3. CASE Join
  BY <1>3 DEF Join, rVars, logVars
<1>4. CASE JoinThrew
  <2>1. CASE service = "hmc"
    <3>1. PICK c \in Chains : Push(MessageOf(c, "error"))
      BY <1>4, <2>1 DEF JoinThrew
    <3>2. MessageOf(c, "error") \in Message
      BY MessageType DEF Emissions
    <3>3. QED
      BY <1>4, <3>1, <3>2, CallLog DEF JoinThrew, rVars
  <2>2. CASE service # "hmc"
    BY <1>4, <2>2 DEF JoinThrew, rVars, logVars
  <2>3. QED
    BY <2>1, <2>2
<1>5. CASE TimedOut \/ FutureReady \/ EndFlush \/ CtrlC
  BY <1>5 DEF TimedOut, FutureReady, EndFlush, CtrlC, logVars
<1>6. CASE BeginFlush
  BY <1>6 DEF BeginFlush, SwapBuffer
<1>7. CASE FlushEntry
  BY <1>7, CallDeliver
<1>8. CASE PollInterrupt
  <2>1. UNCHANGED <<pushed, history_, result>> /\ result = "none"
    BY <1>8 DEF PollInterrupt, logVars, Implementation, RThreadInv
  <2>2. CASE ~interrupted /\ sigint
    BY <1>8, <2>1, <2>2 DEF PollInterrupt, Call!Next, Call!Cancel
  <2>3. CASE ~(~interrupted /\ sigint)
    BY <1>8, <2>1, <2>3 DEF PollInterrupt
  <2>4. QED
    BY <2>2, <2>3
<1>9. CASE GetResult
  BY <1>9, CallEnd
<1>10. CASE UNCHANGED vars
  BY <1>10 DEF vars, rVars, logVars
<1>11. QED
  BY <1>1, <1>2, <1>3, <1>4, <1>5, <1>6, <1>7, <1>8, <1>9, <1>10
     DEF Next, WorkerStep, RThread, Finished

\* Every behavior of the threads, the buffer and the future is one of the
\* call that RunCall describes.
THEOREM CallRefinement == Spec => CallSafety
<1>1. Init => Call!Init
  BY DEF Init, LogInit, Call!Init
<1>2. Implementation /\ [Next]_vars => [Call!Next]_(Call!callVars)
  BY CallStep
<1>3. Spec => []Implementation
  BY TypeCorrect, StructureInvariant, OutputTheorem, PTL DEF Implementation
<1>4. QED
  BY <1>1, <1>2, <1>3, PTL DEF Spec, CallSafety, Call!Safety
=============================================================================
