------------------------- MODULE PluginRuntimeProofs -------------------------
(***************************************************************************)
(* Proofs about PluginRuntime for any requests, inputs, documents and keys: *)
(* nothing but the operation the gate was given to reaches the Civil API,  *)
(* what a request ends with is true of its transaction, no write happens   *)
(* twice under a remembered key, and nothing is left behind.               *)
(*                                                                         *)
(* RuntimeInv ties the handler of each request to its place in the gate    *)
(* and to its host command, and the code the body ends with to what the    *)
(* body has done.  Then the plugin is shown to use the gate, the registry  *)
(* and the backend as they are specified, so that what is proved of the    *)
(* first two holds in it, and KeyInv ties a request's key to its           *)
(* transaction.                                                            *)
(***************************************************************************)
EXTENDS PluginRuntime, TLAPS

\* Codes a request may end with, and those its body may.
ResultCode == {"none", "ok", "cancelled"} \cup ErrorCode

TypesInv ==
  /\ permits \in {0, 1}
  /\ gatePc \in [Request -> Gate!GateStage]
  /\ command \in [Request -> Civil!CommandStage] /\ cancelled \subseteq Request
  /\ phase \in [Request -> Phase]
  /\ result \in [Request -> ResultCode]
  /\ body \in [Request -> {"none", "resolving", "acting", "saving", "done"}]
  /\ captured \in [Request -> ResultCode]
  /\ drawing \in [Request -> Document \cup {NoDocument}]
  /\ ran \subseteq Request /\ operationCommitted \subseteq Request /\ saved \subseteq Request

Inside == {"admitted", "active", "leaving"}

\* One caller is inside the gate, and its handler is where its place says.
HolderInv ==
  /\ \A r, s \in Request : gatePc[r] \in Inside /\ gatePc[s] \in Inside => r = s
  /\ \A r \in Request :
       /\ gatePc[r] \in Inside => permits = 0
       /\ gatePc[r] = "active" => isActive /\ currentOperation = r
       /\ phase[r] = "waiting" => gatePc[r] \in {"queued", "refused", "admitted"}
       /\ phase[r] \in {"leased", "awaiting"} => gatePc[r] = "active"
       /\ phase[r] = "leaving" => gatePc[r] \in {"active", "leaving"}
       /\ phase[r] \in {"received", "reserved", "settling"} \cup Finished => gatePc[r] = "outside"

AtBackend == {"pending"} \cup Civil!InCommand

\* A handler that awaits the backend has a command, and only that one has one
\* under way; the body is where the command is.
CommandInv ==
  \A r \in Request :
    /\ phase[r] \in {"received", "reserved", "waiting", "leased"} => command[r] = "none"
    /\ command[r] \in AtBackend => phase[r] = "awaiting"
    /\ phase[r] = "awaiting" => command[r] # "none" /\ DispatchError(r) = "none"
    /\ command[r] \in {"none", "pending"} \cup Civil!NotRun => body[r] = "none"
    /\ command[r] = "running" => body[r] # "none"
    /\ command[r] \in {"exited"} \cup Civil!HostEnded =>
         body[r] = IF phase[r] = "awaiting" THEN "done" ELSE "none"
    /\ command[r] # "body_failed"

\* What code says of request r: its transaction, its save, and its code.
IsTrueOf(code, r) ==
  /\ code # "none"
  /\ code = "ok" => (r \in operationCommitted <=> Writes(r)) /\ (r \in saved <=> Saves(r))
  /\ code = "SAVE_FAILED" => r \in operationCommitted
  /\ code \in NotStartedCodes => r \notin ran \cup operationCommitted \cup saved
  /\ ~DisposeMayThrow /\ Backend = "modal"
     /\ code \notin {"ok", "SAVE_FAILED", "COMMAND_FAILED"}
       => r \notin operationCommitted \cup saved

\* What each request has done, and that its code tells it.
TruthInv ==
  \A r \in Request :
    /\ command[r] \in {"none", "pending"} \cup Civil!NotRun \/ body[r] \in {"resolving", "acting"}
         => r \notin ran \cup operationCommitted \cup saved
    /\ body[r] \in {"acting", "saving"} =>
         drawing[r] \in Document /\ DrawingError(r, drawing[r]) = "none"
    /\ body[r] = "saving" => Writes(r) /\ Saves(r) /\ r \in operationCommitted /\ r \notin saved
    /\ body[r] = "done" => IsTrueOf(captured[r], r)
    /\ phase[r] \in {"leaving", "settling"} \cup Finished => IsTrueOf(result[r], r)
    /\ r \in operationCommitted => Writes(r) /\ drawing[r] \in {Input[r].expected, NoDocument}
    /\ r \in saved => r \in operationCommitted /\ drawing[r] \notin Untitled

RuntimeInv == TypesInv /\ HolderInv /\ CommandInv /\ TruthInv

\* A request is answered beside the gate, or takes its key.
LEMMA RequestEnters ==
  ASSUME RuntimeInv, NEW r \in Request,
         AnswerControl(r) \/ RejectKey(r) \/ Reserve(r) \/ RejectDuplicate(r)
  PROVE  RuntimeInv'
<1> USE RuntimeAssumption DEF RuntimeInv, TypesInv, HolderInv, CommandInv, TruthInv,
     IsTrueOf, Inside, AtBackend, Go, Yield, gateVars, registryVars, commandVars, bodyVars,
     handlerVars, Finished, Phase, ResultCode,
     ErrorCode, NotStartedCodes, Gate!GateStage, Gate!Move, Civil!CommandStage, Civil!NotRun,
     Civil!HostEnded, Civil!InCommand
<1>1. CASE AnswerControl(r)
  <2>1. TypesInv'
    BY <1>1 DEF AnswerControl
  <2>2. HolderInv'
    BY <1>1 DEF AnswerControl
  <2>3. CommandInv'
    BY <1>1 DEF AnswerControl
  <2>4. TruthInv'
    BY <1>1 DEF AnswerControl, Writes, Saves
  <2> QED
    BY <2>1, <2>2, <2>3, <2>4 DEF RuntimeInv
<1>2. CASE RejectKey(r)
  <2>1. TypesInv'
    BY <1>2 DEF RejectKey, KeyError
  <2>2. HolderInv'
    BY <1>2 DEF RejectKey, KeyError
  <2>3. CommandInv'
    BY <1>2 DEF RejectKey, KeyError
  <2>4. TruthInv'
    BY <1>2 DEF RejectKey, KeyError
  <2> QED
    BY <2>1, <2>2, <2>3, <2>4 DEF RuntimeInv
<1>3. CASE Reserve(r)
  <2>1. TypesInv'
    BY <1>3 DEF Reserve
  <2>2. HolderInv'
    BY <1>3 DEF Reserve
  <2>3. CommandInv'
    BY <1>3 DEF Reserve
  <2>4. TruthInv'
    BY <1>3 DEF Reserve
  <2> QED
    BY <2>1, <2>2, <2>3, <2>4 DEF RuntimeInv
<1>4. CASE RejectDuplicate(r)
  <2>1. TypesInv'
    BY <1>4 DEF RejectDuplicate, Registry!Rejection
  <2>2. HolderInv'
    BY <1>4 DEF RejectDuplicate, Registry!Rejection
  <2>3. CommandInv'
    BY <1>4 DEF RejectDuplicate, Registry!Rejection
  <2>4. TruthInv'
    BY <1>4 DEF RejectDuplicate, Registry!Rejection
  <2> QED
    BY <2>1, <2>2, <2>3, <2>4 DEF RuntimeInv
<1> QED
  BY <1>1, <1>2, <1>3, <1>4

\* A request waits for the gate and gets it or not.
LEMMA GateStep ==
  ASSUME RuntimeInv, NEW r \in Request,
         \/ EnterGate(r) \/ AcquireGate(r) \/ RefuseGate(r)
         \/ LeaveQueue(r) \/ TakeLease(r) \/ AbortEntry(r)
  PROVE  RuntimeInv'
<1> USE RuntimeAssumption DEF RuntimeInv, TypesInv, HolderInv, CommandInv, TruthInv,
     IsTrueOf, Inside, AtBackend, Go, Yield, gateVars, registryVars, commandVars, bodyVars,
     handlerVars, Finished, Phase, ResultCode,
     ErrorCode, NotStartedCodes, Gate!GateStage, Gate!Move, Civil!CommandStage, Civil!NotRun,
     Civil!HostEnded, Civil!InCommand
<1>1. CASE EnterGate(r)
  <2>1. TypesInv'
    BY <1>1 DEF EnterGate, Gate!JoinQueue
  <2>2. HolderInv'
    BY <1>1 DEF EnterGate, Gate!JoinQueue
  <2>3. CommandInv'
    BY <1>1 DEF EnterGate, Gate!JoinQueue
  <2>4. TruthInv'
    BY <1>1 DEF EnterGate, Gate!JoinQueue
  <2> QED
    BY <2>1, <2>2, <2>3, <2>4 DEF RuntimeInv
<1>2. CASE AcquireGate(r)
  <2>1. TypesInv'
    BY <1>2 DEF AcquireGate, Gate!Acquire
  <2>2. HolderInv'
    BY <1>2 DEF AcquireGate, Gate!Acquire
  <2>3. CommandInv'
    BY <1>2 DEF AcquireGate, Gate!Acquire
  <2>4. TruthInv'
    BY <1>2 DEF AcquireGate, Gate!Acquire
  <2> QED
    BY <2>1, <2>2, <2>3, <2>4 DEF RuntimeInv
<1>3. CASE RefuseGate(r)
  <2>1. TypesInv'
    BY <1>3 DEF RefuseGate, Gate!Refuse
  <2>2. HolderInv'
    BY <1>3 DEF RefuseGate, Gate!Refuse
  <2>3. CommandInv'
    BY <1>3 DEF RefuseGate, Gate!Refuse
  <2>4. TruthInv'
    BY <1>3 DEF RefuseGate, Gate!Refuse
  <2> QED
    BY <2>1, <2>2, <2>3, <2>4 DEF RuntimeInv
<1>4. CASE LeaveQueue(r)
  <2>1. TypesInv'
    BY <1>4 DEF LeaveQueue, Gate!LeaveQueue
  <2>2. HolderInv'
    BY <1>4 DEF LeaveQueue, Gate!LeaveQueue
  <2>3. CommandInv'
    BY <1>4 DEF LeaveQueue, Gate!LeaveQueue
  <2>4. TruthInv'
    BY <1>4 DEF LeaveQueue, Gate!LeaveQueue
  <2> QED
    BY <2>1, <2>2, <2>3, <2>4 DEF RuntimeInv
<1>5. CASE TakeLease(r)
  <2>1. TypesInv'
    BY <1>5 DEF TakeLease, Gate!Activate
  <2>2. HolderInv'
    BY <1>5 DEF TakeLease, Gate!Activate
  <2>3. CommandInv'
    BY <1>5 DEF TakeLease, Gate!Activate
  <2>4. TruthInv'
    BY <1>5 DEF TakeLease, Gate!Activate
  <2> QED
    BY <2>1, <2>2, <2>3, <2>4 DEF RuntimeInv
<1>6. CASE AbortEntry(r)
  <2>1. TypesInv'
    BY <1>6 DEF AbortEntry, Gate!StrandCount, Gate!AbortEntry
  <2>2. HolderInv'
    BY <1>6 DEF AbortEntry, Gate!StrandCount, Gate!AbortEntry
  <2>3. CommandInv'
    BY <1>6 DEF AbortEntry, Gate!StrandCount, Gate!AbortEntry
  <2>4. TruthInv'
    BY <1>6 DEF AbortEntry, Gate!StrandCount, Gate!AbortEntry
  <2> QED
    BY <2>1, <2>2, <2>3, <2>4 DEF RuntimeInv
<1> QED
  BY <1>1, <1>2, <1>3, <1>4, <1>5, <1>6

\* A request is dispatched, and its host command starts, returns and ends.
LEMMA BackendsStep ==
  ASSUME RuntimeInv, NEW r \in Request,
         RejectDispatch(r) \/ Dispatch(r) \/ BackendStep(r) \/ Cancel(r)
  PROVE  RuntimeInv'
<1> USE RuntimeAssumption DEF RuntimeInv, TypesInv, HolderInv, CommandInv, TruthInv,
     IsTrueOf, Inside, AtBackend, Go, Yield, gateVars, registryVars, commandVars, bodyVars,
     handlerVars, Finished, Phase, ResultCode,
     ErrorCode, NotStartedCodes, Gate!GateStage, Gate!Move, Civil!CommandStage, Civil!NotRun,
     Civil!HostEnded, Civil!InCommand
<1>1. CASE RejectDispatch(r)
  <2>1. TypesInv'
    BY <1>1 DEF RejectDispatch, DispatchError
  <2>2. HolderInv'
    BY <1>1 DEF RejectDispatch, DispatchError
  <2>3. CommandInv'
    BY <1>1 DEF RejectDispatch, DispatchError
  <2>4. TruthInv'
    BY <1>1 DEF RejectDispatch, DispatchError
  <2> QED
    BY <2>1, <2>2, <2>3, <2>4 DEF RuntimeInv
<1>2. CASE Dispatch(r)
  <2>1. TypesInv'
    BY <1>2 DEF Dispatch, Civil!Abandon, Civil!Submit, Civil!Advance
  <2>2. HolderInv'
    BY <1>2 DEF Dispatch, Civil!Abandon, Civil!Submit, Civil!Advance
  <2>3. CommandInv'
    BY <1>2 DEF Dispatch, Civil!Abandon, Civil!Submit, Civil!Advance
  <2>4. TruthInv'
    BY <1>2 DEF Dispatch, Civil!Abandon, Civil!Submit, Civil!Advance
  <2> QED
    BY <2>1, <2>2, <2>3, <2>4 DEF RuntimeInv
<1>3. ASSUME NEW reason \in Civil!NotRun, BackendAbandons(r, reason) PROVE RuntimeInv'
  <2>1. TypesInv'
    BY <1>3 DEF BackendAbandons, Civil!Abandon, Civil!Advance
  <2>2. HolderInv'
    BY <1>3 DEF BackendAbandons, Civil!Abandon, Civil!Advance
  <2>3. CommandInv'
    BY <1>3 DEF BackendAbandons, Civil!Abandon, Civil!Advance
  <2>4. TruthInv'
    BY <1>3 DEF BackendAbandons, Civil!Abandon, Civil!Advance
  <2> QED
    BY <2>1, <2>2, <2>3, <2>4 DEF RuntimeInv
<1>4. CASE BackendStarts(r)
  <2>1. TypesInv'
    BY <1>4 DEF BackendStarts, Civil!Start, Civil!Advance
  <2>2. HolderInv'
    BY <1>4 DEF BackendStarts, Civil!Start, Civil!Advance
  <2>3. CommandInv'
    BY <1>4 DEF BackendStarts, Civil!Start, Civil!Advance
  <2>4. TruthInv'
    BY <1>4 DEF BackendStarts, Civil!Start, Civil!Advance
  <2> QED
    BY <2>1, <2>2, <2>3, <2>4 DEF RuntimeInv
<1>5. CASE ExitBody(r)
  <2>1. TypesInv'
    BY <1>5 DEF ExitBody, Civil!Exit, Civil!Advance
  <2>2. HolderInv'
    BY <1>5 DEF ExitBody, Civil!Exit, Civil!Advance
  <2>3. CommandInv'
    BY <1>5 DEF ExitBody, Civil!Exit, Civil!Advance
  <2>4. TruthInv'
    BY <1>5 DEF ExitBody, Civil!Exit, Civil!Advance
  <2> QED
    BY <2>1, <2>2, <2>3, <2>4 DEF RuntimeInv
<1>6. CASE HostEnds(r)
  <2>1. TypesInv'
    BY <1>6 DEF HostEnds, Civil!End, Civil!Advance
  <2>2. HolderInv'
    BY <1>6 DEF HostEnds, Civil!End, Civil!Advance
  <2>3. CommandInv'
    BY <1>6 DEF HostEnds, Civil!End, Civil!Advance
  <2>4. TruthInv'
    BY <1>6 DEF HostEnds, Civil!End, Civil!Advance
  <2> QED
    BY <2>1, <2>2, <2>3, <2>4 DEF RuntimeInv
<1>7. CASE Cancel(r)
  <2>1. TypesInv'
    BY <1>7 DEF Cancel, Civil!Cancel
  <2>2. HolderInv'
    BY <1>7 DEF Cancel, Civil!Cancel
  <2>3. CommandInv'
    BY <1>7 DEF Cancel, Civil!Cancel
  <2>4. TruthInv'
    BY <1>7 DEF Cancel, Civil!Cancel
  <2> QED
    BY <2>1, <2>2, <2>3, <2>4 DEF RuntimeInv
<1> QED
  BY <1>1, <1>2, <1>3, <1>4, <1>5, <1>6, <1>7 DEF BackendStep

\* The body resolves its drawing, runs the caller's code, commits and saves.
LEMMA BodySteps ==
  ASSUME RuntimeInv, NEW r \in Request,
         ExecuteBody(r)
  PROVE  RuntimeInv'
<1> USE RuntimeAssumption DEF RuntimeInv, TypesInv, HolderInv, CommandInv, TruthInv,
     IsTrueOf, Inside, AtBackend, Go, Yield, gateVars, registryVars, commandVars, bodyVars,
     handlerVars, Finished, Phase, ResultCode,
     ErrorCode, NotStartedCodes, Gate!GateStage, Gate!Move, Civil!CommandStage, Civil!NotRun,
     Civil!HostEnded, Civil!InCommand, BodyEnds, BodyStep
<1>1. CASE RefuseDrawing(r)
  <2>1. TypesInv'
    BY <1>1 DEF RefuseDrawing, DrawingError
  <2>2. HolderInv'
    BY <1>1 DEF RefuseDrawing, DrawingError
  <2>3. CommandInv'
    BY <1>1 DEF RefuseDrawing, DrawingError
  <2>4. TruthInv'
    BY <1>1 DEF RefuseDrawing, DrawingError
  <2> QED
    BY <2>1, <2>2, <2>3, <2>4 DEF RuntimeInv
<1>2. CASE ResolveDrawing(r)
  <2>1. TypesInv'
    BY <1>2 DEF ResolveDrawing
  <2>2. HolderInv'
    BY <1>2 DEF ResolveDrawing
  <2>3. CommandInv'
    BY <1>2 DEF ResolveDrawing
  <2>4. TruthInv'
    BY <1>2 DEF ResolveDrawing
  <2> QED
    BY <2>1, <2>2, <2>3, <2>4 DEF RuntimeInv
<1>3. CASE ScriptRefused(r)
  <2>1. TypesInv'
    BY <1>3 DEF ScriptRefused
  <2>2. HolderInv'
    BY <1>3 DEF ScriptRefused
  <2>3. CommandInv'
    BY <1>3 DEF ScriptRefused
  <2>4. TruthInv'
    BY <1>3 DEF ScriptRefused
  <2> QED
    BY <2>1, <2>2, <2>3, <2>4 DEF RuntimeInv
<1>4. CASE ScriptFails(r)
  <2>1. TypesInv'
    BY <1>4 DEF ScriptFails
  <2>2. HolderInv'
    BY <1>4 DEF ScriptFails
  <2>3. CommandInv'
    BY <1>4 DEF ScriptFails
  <2>4. TruthInv'
    BY <1>4 DEF ScriptFails
  <2> QED
    BY <2>1, <2>2, <2>3, <2>4 DEF RuntimeInv
<1>5. CASE ReadReturns(r)
  <2>1. TypesInv'
    BY <1>5 DEF ReadReturns
  <2>2. HolderInv'
    BY <1>5 DEF ReadReturns
  <2>3. CommandInv'
    BY <1>5 DEF ReadReturns
  <2>4. TruthInv'
    BY <1>5 DEF ReadReturns, Writes, Saves, DispatchError
  <2> QED
    BY <2>1, <2>2, <2>3, <2>4 DEF RuntimeInv
<1>6. CASE Commit(r)
  <2>1. TypesInv'
    BY <1>6 DEF Commit
  <2>2. HolderInv'
    BY <1>6 DEF Commit
  <2>3. CommandInv'
    BY <1>6 DEF Commit
  <2>4. TruthInv'
    BY <1>6 DEF Commit, DrawingError, DispatchError, Writes
  <2> QED
    BY <2>1, <2>2, <2>3, <2>4 DEF RuntimeInv
<1>7. CASE CommitFails(r)
  <2>1. TypesInv'
    BY <1>7 DEF CommitFails
  <2>2. HolderInv'
    BY <1>7 DEF CommitFails
  <2>3. CommandInv'
    BY <1>7 DEF CommitFails
  <2>4. TruthInv'
    BY <1>7 DEF CommitFails
  <2> QED
    BY <2>1, <2>2, <2>3, <2>4 DEF RuntimeInv
<1>8. CASE DisposeFails(r)
  <2>1. TypesInv'
    BY <1>8 DEF DisposeFails
  <2>2. HolderInv'
    BY <1>8 DEF DisposeFails
  <2>3. CommandInv'
    BY <1>8 DEF DisposeFails
  <2>4. TruthInv'
    BY <1>8 DEF DisposeFails, DrawingError, DispatchError, Writes
  <2> QED
    BY <2>1, <2>2, <2>3, <2>4 DEF RuntimeInv
<1>9. CASE Save(r)
  <2>1. TypesInv'
    BY <1>9 DEF Save
  <2>2. HolderInv'
    BY <1>9 DEF Save
  <2>3. CommandInv'
    BY <1>9 DEF Save
  <2>4. TruthInv'
    BY <1>9 DEF Save, DrawingError
  <2> QED
    BY <2>1, <2>2, <2>3, <2>4 DEF RuntimeInv
<1> QED
  BY <1>1, <1>2, <1>3, <1>4, <1>5, <1>6, <1>7, <1>8, <1>9 DEF ExecuteBody

\* A request leaves the backend and the gate, and is answered or dropped.
LEMMA RequestLeaves ==
  ASSUME RuntimeInv, NEW r \in Request,
         AwaitReturns(r) \/ DisposeLease(r) \/ LeaveGate(r) \/ Answer(r) \/ Drop(r)
  PROVE  RuntimeInv'
<1> USE RuntimeAssumption DEF RuntimeInv, TypesInv, HolderInv, CommandInv, TruthInv,
     IsTrueOf, Inside, AtBackend, Go, Yield, gateVars, registryVars, commandVars, bodyVars,
     handlerVars, Finished, Phase, ResultCode,
     ErrorCode, NotStartedCodes, Gate!GateStage, Gate!Move, Civil!CommandStage, Civil!NotRun,
     Civil!HostEnded, Civil!InCommand
<1>1. CASE AwaitReturns(r)
  <2>1. TypesInv'
    BY <1>1 DEF AwaitReturns, ResultOf
  <2>2. HolderInv'
    BY <1>1 DEF AwaitReturns, ResultOf
  <2>3. CommandInv'
    BY <1>1 DEF AwaitReturns, ResultOf
  <2>4. TruthInv'
    BY <1>1 DEF AwaitReturns, ResultOf
  <2> QED
    BY <2>1, <2>2, <2>3, <2>4 DEF RuntimeInv
<1>2. CASE DisposeLease(r)
  <2>1. TypesInv'
    BY <1>2 DEF DisposeLease, Gate!BeginExit
  <2>2. HolderInv'
    BY <1>2 DEF DisposeLease, Gate!BeginExit
  <2>3. CommandInv'
    BY <1>2 DEF DisposeLease, Gate!BeginExit
  <2>4. TruthInv'
    BY <1>2 DEF DisposeLease, Gate!BeginExit
  <2> QED
    BY <2>1, <2>2, <2>3, <2>4 DEF RuntimeInv
<1>3. CASE LeaveGate(r)
  <2>1. TypesInv'
    BY <1>3 DEF LeaveGate, Gate!ReturnPermit
  <2>2. HolderInv'
    BY <1>3 DEF LeaveGate, Gate!ReturnPermit
  <2>3. CommandInv'
    BY <1>3 DEF LeaveGate, Gate!ReturnPermit
  <2>4. TruthInv'
    BY <1>3 DEF LeaveGate, Gate!ReturnPermit
  <2> QED
    BY <2>1, <2>2, <2>3, <2>4 DEF RuntimeInv
<1>4. CASE Answer(r)
  <2>1. TypesInv'
    BY <1>4 DEF Answer
  <2>2. HolderInv'
    BY <1>4 DEF Answer
  <2>3. CommandInv'
    BY <1>4 DEF Answer
  <2>4. TruthInv'
    BY <1>4 DEF Answer
  <2> QED
    BY <2>1, <2>2, <2>3, <2>4 DEF RuntimeInv
<1>5. CASE Drop(r)
  <2>1. TypesInv'
    BY <1>5 DEF Drop
  <2>2. HolderInv'
    BY <1>5 DEF Drop
  <2>3. CommandInv'
    BY <1>5 DEF Drop
  <2>4. TruthInv'
    BY <1>5 DEF Drop
  <2> QED
    BY <2>1, <2>2, <2>3, <2>4 DEF RuntimeInv
<1> QED
  BY <1>1, <1>2, <1>3, <1>4, <1>5

\* Initially nothing has happened.
LEMMA RuntimeStart == RuntimeInit => RuntimeInv
<1> SUFFICES ASSUME RuntimeInit PROVE RuntimeInv
  OBVIOUS
<1> USE RuntimeAssumption DEF RuntimeInit, Gate!GateInit, Civil!CommandInit
<1>1. TypesInv
  BY DEF TypesInv, Gate!GateStage, Civil!CommandStage, Phase, ResultCode
<1>2. HolderInv
  BY DEF HolderInv, Inside
<1>3. CommandInv
  BY DEF CommandInv, AtBackend, Civil!InCommand, Civil!HostEnded
<1>4. TruthInv
  BY DEF TruthInv, Finished
<1> QED
  BY <1>1, <1>2, <1>3, <1>4 DEF RuntimeInv

\* Every step of every request keeps the invariant.
LEMMA RuntimeStep == RuntimeInv /\ [RuntimeNext]_runtimeVars => RuntimeInv'
<1> SUFFICES ASSUME RuntimeInv, [RuntimeNext]_runtimeVars PROVE RuntimeInv'
  OBVIOUS
<1>1. ASSUME NEW r \in Request, HandlerStep(r) \/ BackendStep(r) \/ ExecuteBody(r) \/ Cancel(r)
      PROVE  RuntimeInv'
  BY <1>1, RequestEnters, GateStep, BackendsStep, BodySteps, RequestLeaves DEF HandlerStep
<1>2. CASE UNCHANGED runtimeVars
  BY <1>2 DEF runtimeVars, gateVars, registryVars, commandVars, bodyVars, handlerVars, RuntimeInv,
     TypesInv, HolderInv, CommandInv, TruthInv, IsTrueOf
<1> QED
  BY <1>1, <1>2 DEF RuntimeNext

\* The invariant holds throughout.
THEOREM RuntimeInvariance == RuntimeSafety => []RuntimeInv
<1> QED
  BY RuntimeStart, RuntimeStep, PTL DEF RuntimeSafety

-----------------------------------------------------------------------------
\* However many requests compete, whoever cancels: from its submission to the end
\* of its host command a request holds the gate, and no other is at the Civil API.
THEOREM GateIsHeld == RuntimeSafety => []GateHeldUntilHostEnd
<1>1. RuntimeInv => GateHeldUntilHostEnd
  BY DEF RuntimeInv, HolderInv, CommandInv, GateHeldUntilHostEnd, AtBackend, Inside
<1> QED
  BY <1>1, RuntimeInvariance, PTL

\* An answer that says "not started" is given for no request whose code ran.
THEOREM NotStartedIsSaidTruly == RuntimeSafety => []NotStartedNeverRan
<1>1. RuntimeInv => NotStartedNeverRan
  <2> SUFFICES ASSUME RuntimeInv, NEW r \in Request, phase[r] = "answered",
                      Outcome(result[r]) = "not_started"
               PROVE  /\ r \notin ran \cup operationCommitted \cup saved
                      /\ command[r] \notin {"pending"} \cup Civil!InCommand
    BY DEF NotStartedNeverRan
  <2>1. result[r] \in NotStartedCodes
    BY DEF Outcome
  <2> QED
    BY <2>1 DEF RuntimeInv, CommandInv, TruthInv, IsTrueOf, AtBackend, Finished
<1> QED
  BY <1>1, RuntimeInvariance, PTL

\* A success is committed where it was meant to be, and saved if that was asked for.
THEOREM SuccessHolds == RuntimeSafety => []SuccessIsDurable
<1>1. RuntimeInv => SuccessIsDurable
  <2> SUFFICES ASSUME RuntimeInv PROVE SuccessIsDurable
    OBVIOUS
  <2>1. ASSUME NEW r \in Request, phase[r] = "answered", result[r] = "ok"
        PROVE  (r \in operationCommitted <=> Writes(r)) /\ (r \in saved <=> Saves(r))
    <3>1. IsTrueOf(result[r], r)
      BY <2>1 DEF RuntimeInv, TruthInv, Finished
    <3> QED
      BY <2>1, <3>1 DEF IsTrueOf
  <2>2. /\ \A r \in operationCommitted \cap Request :
             Writes(r) /\ drawing[r] \in {Input[r].expected, NoDocument}
        /\ \A r \in saved \cap Request : r \in operationCommitted /\ drawing[r] \notin Untitled
    BY DEF RuntimeInv, TruthInv
  <2>3. operationCommitted \subseteq Request /\ saved \subseteq Request
    BY DEF RuntimeInv, TypesInv
  <2> QED
    BY <2>1, <2>2, <2>3 DEF SuccessIsDurable
<1> QED
  BY <1>1, RuntimeInvariance, PTL

\* With the modal backend, and unless a dispose throws, an error that does not say
\* otherwise left the drawing alone; neither condition can be dropped.
THEOREM ErrorsRollBack ==
  ASSUME Backend = "modal", ~DisposeMayThrow
  PROVE  RuntimeSafety => []ErrorMeansRolledBack
<1>1. RuntimeInv => ErrorMeansRolledBack
  BY DEF RuntimeInv, TruthInv, IsTrueOf, Finished, ErrorMeansRolledBack
<1> QED
  BY <1>1, RuntimeInvariance, PTL

-----------------------------------------------------------------------------
(***************************************************************************)
(* Composition.  The plugin does with the gate, the registry and the       *)
(* backend only what their specifications allow, so what is proved of them *)
(* holds in it; Law names their proof module under this substitution.      *)
(***************************************************************************)
Law == INSTANCE GuardProofs
         WITH Caller <- Request, NoCaller <- NoRequest,
              Owner <- Request, NoOwner <- NoRequest, NoBinding <- NoRequest

\* The requests, their keys and bindings are what the gate and the registry assume.
LEMMA LawAssumptions ==
  /\ Law!IsFiniteSet(Request)
  /\ NoRequest \notin Request
  /\ StrandedLimit \in Nat
  /\ KeyOf \in [Request -> Key \cup {NoKey}]
  /\ BindingOf \in [Request -> Binding]
  /\ Capacity \in Nat \ {0}
  /\ NoKey \notin Key
<1>1. \A r \in Request : Input[r] \in InputType
  BY RuntimeAssumption
<1> QED
  BY <1>1, RuntimeAssumption
     DEF KeyOf, BindingOf, Binding, InputType, IsFiniteSet, Law!IsFiniteSet

\* A step or a stutter of each component.
ComponentsMove ==
  /\ [Gate!GateNext]_(Gate!gateVars)
  /\ [Registry!RegistryNext]_(Registry!registryVars)
  /\ [Civil!CommandNext]_(Civil!commandVars)

\* Whatever a request does, each component moves as it may.
LEMMA ActionMovesComponents ==
  ASSUME NEW r \in Request, HandlerStep(r) \/ BackendStep(r) \/ ExecuteBody(r) \/ Cancel(r)
  PROVE  ComponentsMove
<1> USE DEF ComponentsMove, gateVars, registryVars, commandVars, bodyVars, handlerVars,
     Gate!gateVars, Registry!registryVars, Civil!commandVars,
     Gate!GateNext, Gate!CallerStep, Registry!RegistryNext, Registry!RegistryStep,
     Civil!CommandNext
<1>1. CASE HandlerStep(r)
  <2>1. CASE AnswerControl(r) \/ RejectKey(r) \/ RejectDispatch(r) \/ AwaitReturns(r)
    BY <2>1 DEF AnswerControl, RejectKey, RejectDispatch, AwaitReturns
  <2>2. CASE Reserve(r) \/ RejectDuplicate(r)
    BY <2>2 DEF Reserve, RejectDuplicate
  <2>3. CASE \/ EnterGate(r) \/ AcquireGate(r) \/ RefuseGate(r) \/ LeaveQueue(r)
             \/ TakeLease(r) \/ AbortEntry(r) \/ DisposeLease(r) \/ LeaveGate(r)
    BY <2>3 DEF EnterGate, AcquireGate, RefuseGate, LeaveQueue, TakeLease, AbortEntry,
       DisposeLease, LeaveGate
  <2>4. CASE Dispatch(r)
    BY <2>4 DEF Dispatch, Civil!NotRun
  <2>5. CASE Answer(r) \/ Drop(r)
    BY <2>5 DEF Answer, Drop, SettleKey
  <2> QED
    BY <1>1, <2>1, <2>2, <2>3, <2>4, <2>5 DEF HandlerStep
<1>2. CASE BackendStep(r)
  BY <1>2 DEF BackendStep, BackendAbandons, BackendStarts, ExitBody, HostEnds, Civil!HostEnded
<1>3. CASE Cancel(r)
  BY <1>3 DEF Cancel
<1>4. CASE ExecuteBody(r)
  BY <1>4 DEF ExecuteBody, RefuseDrawing, ResolveDrawing, ScriptRefused, ScriptFails, ReadReturns,
     Commit, CommitFails, DisposeFails, Save, BodyStep
<1> QED
  BY <1>1, <1>2, <1>3, <1>4

\* Every step of the plugin is a step or a stutter of each component.
LEMMA StepMovesComponents == [RuntimeNext]_runtimeVars => ComponentsMove
<1>1. ASSUME UNCHANGED runtimeVars PROVE ComponentsMove
  BY <1>1 DEF ComponentsMove, runtimeVars, gateVars, registryVars, commandVars,
     Gate!gateVars, Registry!registryVars, Civil!commandVars
<1> QED
  BY <1>1, ActionMovesComponents DEF RuntimeNext

\* The plugin calls the registry as its specification says, the backend within
\* what a backend is promised to do, and the gate one step at a time.
THEOREM ComponentsAreUsedAsSpecified ==
  RuntimeSafety => /\ Gate!GateInit /\ [][Gate!GateNext]_(Gate!gateVars)
                   /\ Registry!RegistrySpec
                   /\ Civil!CommandSpec
<1>1. RuntimeInit => Gate!GateInit /\ Registry!RegistryInit /\ Civil!CommandInit
  BY DEF RuntimeInit
<1> QED
  BY <1>1, StepMovesComponents, PTL DEF ComponentsMove, RuntimeSafety,
     Registry!RegistrySpec, Civil!CommandSpec

\* What is proved of the registry and of the gate holds in the plugin.
LEMMA ComponentLaws == RuntimeSafety => [](Law!GateInv /\ Law!RegistryInv)
<1>1. RuntimeInit => Law!GateInv /\ Law!RegistryInv
  <2>1. ASSUME RuntimeInit PROVE Law!GateInit
    BY <2>1 DEF RuntimeInit, Gate!GateInit, Law!GateInit
  <2>2. ASSUME RuntimeInit PROVE Law!RegistryInit
    BY <2>2 DEF RuntimeInit, Registry!RegistryInit, Law!RegistryInit, Registry!Absent,
       Law!Absent
  <2>3. Law!GateInit => Law!GateInv
    BY LawAssumptions, Law!GateInvInit
  <2>4. Law!RegistryInit => Law!RegistryInv
    BY LawAssumptions, Law!RegistryInvInit
  <2> QED
    BY <2>1, <2>2, <2>3, <2>4
<1>2. ASSUME Law!GateInv, [RuntimeNext]_runtimeVars PROVE Law!GateInv'
  <2>1. [Gate!GateNext]_(Gate!gateVars)
    BY <1>2, StepMovesComponents DEF ComponentsMove
  <2>2. Law!GateNext \/ UNCHANGED Law!gateVars
    BY <2>1 DEF Gate!gateVars, Law!gateVars, Gate!GateNext, Law!GateNext,
       Gate!CallerStep, Law!CallerStep, Gate!Move, Law!Move,
       Gate!JoinQueue, Law!JoinQueue, Gate!Acquire, Law!Acquire,
       Gate!Refuse, Law!Refuse, Gate!LeaveQueue, Law!LeaveQueue,
       Gate!Activate, Law!Activate, Gate!StrandCount, Law!StrandCount,
       Gate!AbortEntry, Law!AbortEntry,
       Gate!BeginExit, Law!BeginExit, Gate!ReturnPermit, Law!ReturnPermit
  <2>3. CASE Law!GateNext
    <3>1. PICK c \in Request : Law!CallerStep(c)
      BY <2>3 DEF Law!GateNext
    <3> QED
      BY <1>2, <3>1, LawAssumptions, Law!GateInvStep
  <2>4. CASE UNCHANGED Law!gateVars
    BY <1>2, <2>4 DEF Law!gateVars, Law!GateInv, Law!GateTypeOK,
       Law!MutualExclusion, Law!WaitingCountExact, Law!StatusNamesLeaseHolder,
       Law!Holders, Law!Counted
  <2> QED
    BY <2>2, <2>3, <2>4
<1>3. ASSUME Law!RegistryInv, [RuntimeNext]_runtimeVars PROVE Law!RegistryInv'
  <2>1. [Registry!RegistryNext]_(Registry!registryVars)
    BY <1>3, StepMovesComponents DEF ComponentsMove
  <2>2. Law!RegistryNext \/ UNCHANGED Law!registryVars
    BY <2>1 DEF Registry!registryVars, Law!registryVars,
       Registry!RegistryNext, Law!RegistryNext,
       Registry!RegistryStep, Law!RegistryStep,
       Registry!SetReservation, Law!SetReservation, Registry!Absent, Law!Absent,
       Registry!IsActive, Law!IsActive,
       Registry!MarkCompleted, Law!MarkCompleted,
       Registry!ReserveKeyless, Law!ReserveKeyless,
       Registry!ReserveNew, Law!ReserveNew,
       Registry!ReserveRejected, Law!ReserveRejected,
       Registry!Complete, Law!Complete,
       Registry!CompleteWithRoom, Law!CompleteWithRoom,
       Registry!CompleteEvicting, Law!CompleteEvicting,
       Registry!Release, Law!Release
  <2> QED
    BY <1>3, <2>2, LawAssumptions, Law!RegistryInvStep
<1> QED
  BY <1>1, <1>2, <1>3, PTL DEF RuntimeSafety

-----------------------------------------------------------------------------
(***************************************************************************)
(* The key of a write and its transaction.                                 *)
(***************************************************************************)
InProgress == {"reserved", "waiting", "leased", "awaiting", "leaving", "settling"}

SaysCompletedTruly(r) ==
  \E s \in operationCommitted : KeyOf[s] = KeyOf[r] /\ BindingOf[s] = BindingOf[r]

\* A keyed request holds its key from its reservation until it is answered; it
\* completes the key if its write is committed.
KeyInv ==
  \A r \in Request :
    /\ phase[r] = "received" => reservation[r] = "none"
    /\ KeyOf[r] # NoKey /\ phase[r] \in InProgress => reservation[r] = "held" /\ Writes(r)
    /\ phase[r] \in Finished => reservation[r] # "held"
    /\ reservation[r] = "completed" => r \in operationCommitted
    /\ ~DisposeMayThrow /\ Backend = "modal"
       /\ KeyOf[r] # NoKey /\ r \in operationCommitted /\ phase[r] \in Finished
         => reservation[r] = "completed"
    /\ captured[r] # "IDEMPOTENCY_COMPLETED"
    /\ result[r] = "IDEMPOTENCY_COMPLETED" => SaysCompletedTruly(r)

\* A rejection that says "completed" is of a key whose write is committed.
LEMMA RejectionIsTrue ==
  ASSUME KeyInv, Law!RegistryInv, NEW r \in Request, Registry!ReserveRejected(r),
         Registry!Rejection(r) = "IDEMPOTENCY_COMPLETED"
  PROVE  SaysCompletedTruly(r)
<1> DEFINE k == KeyOf[r]
           s == entries[k].owner
<1>1. k \in Key /\ entries[k].state = "completed" /\ entries[k].binding = BindingOf[r]
  BY LawAssumptions DEF Registry!ReserveRejected, Registry!Rejection
<1>2. reservation[s] = "completed" /\ s \notin evicted /\ KeyOf[s] = k
  BY <1>1 DEF Law!RegistryInv, Law!CompletedByOwner
<1>3. entries \in [Key -> Law!Entry \cup {Law!Absent}]
  BY DEF Law!RegistryInv, Law!RegistryTypeOK
<1>4. s \in Request
  BY <1>1, <1>3 DEF Law!Entry, Law!Absent
<1> HIDE DEF s
<1>5. entries[k].binding = BindingOf[s]
  <2>1. entries[KeyOf[s]] = [state |-> "completed", binding |-> BindingOf[s], owner |-> s]
    BY <1>2, <1>4 DEF Law!RegistryInv, Law!CompletedIsRemembered
  <2> QED
    BY <1>2, <2>1
<1> QED
  BY <1>1, <1>2, <1>4, <1>5 DEF KeyInv, SaysCompletedTruly

\* A request is answered beside the gate or takes its key.
LEMMA KeyIsTaken ==
  ASSUME RuntimeInv, KeyInv, Law!RegistryInv, NEW r \in Request,
         AnswerControl(r) \/ RejectKey(r) \/ Reserve(r) \/ RejectDuplicate(r)
  PROVE  KeyInv'
<1>0. r \notin operationCommitted
  BY DEF RuntimeInv, CommandInv, TruthInv, AnswerControl, RejectKey, Reserve, RejectDuplicate, Go
<1>1. reservation \in [Request -> Law!ReservationState]
  BY DEF Law!RegistryInv, Law!RegistryTypeOK
<1> USE <1>0, <1>1 DEF RuntimeInv, TypesInv, KeyInv, SaysCompletedTruly, Go, Yield, gateVars,
     registryVars, commandVars, bodyVars, handlerVars, Finished, InProgress
<1>2. CASE AnswerControl(r)
  BY <1>2 DEF AnswerControl
<1>3. CASE RejectKey(r)
  BY <1>3 DEF RejectKey, KeyError
<1>4. CASE Reserve(r)
  <2>1. KeyOf[r] # NoKey => Writes(r)
    BY <1>4 DEF Reserve, KeyError, KeyOf, Writes
  <2> QED
    BY <1>4, <2>1 DEF Reserve, Registry!ReserveKeyless, Registry!ReserveNew,
       Registry!SetReservation
<1>5. CASE RejectDuplicate(r)
  <2>1. Registry!Rejection(r) = "IDEMPOTENCY_COMPLETED" => SaysCompletedTruly(r)
    BY <1>5, RejectionIsTrue DEF RejectDuplicate
  <2> QED
    BY <1>5, <2>1 DEF RejectDuplicate, Registry!ReserveRejected, Registry!SetReservation
<1> QED
  BY <1>2, <1>3, <1>4, <1>5

\* Between the reservation and the settlement the key is left alone.
LEMMA KeyIsHeld ==
  ASSUME RuntimeInv, KeyInv, NEW r \in Request,
         \/ EnterGate(r) \/ AcquireGate(r) \/ RefuseGate(r) \/ LeaveQueue(r)
         \/ TakeLease(r) \/ AbortEntry(r) \/ RejectDispatch(r) \/ Dispatch(r)
         \/ AwaitReturns(r) \/ DisposeLease(r) \/ LeaveGate(r)
         \/ BackendStep(r) \/ Cancel(r)
  PROVE  KeyInv'
<1> USE DEF RuntimeInv, TypesInv, KeyInv, SaysCompletedTruly, Writes, Go, Yield, gateVars,
     registryVars, commandVars, bodyVars, handlerVars, Finished, InProgress
<1>1. CASE EnterGate(r) \/ AcquireGate(r) \/ RefuseGate(r) \/ LeaveQueue(r) \/ TakeLease(r)
  BY <1>1 DEF EnterGate, AcquireGate, RefuseGate, LeaveQueue, TakeLease
<1>2. CASE AbortEntry(r) \/ RejectDispatch(r) \/ Dispatch(r)
  BY <1>2 DEF AbortEntry, RejectDispatch, Dispatch, DispatchError
<1>3. CASE AwaitReturns(r)
  <2>1. ResultOf(r) # "IDEMPOTENCY_COMPLETED"
    BY <1>3 DEF AwaitReturns, ResultOf, Civil!NotRun, Civil!HostEnded, CommandInv
  <2> QED
    BY <1>3, <2>1 DEF AwaitReturns
<1>4. CASE DisposeLease(r) \/ LeaveGate(r) \/ Cancel(r)
  BY <1>4 DEF DisposeLease, LeaveGate, Cancel
<1>5. CASE BackendStep(r)
  BY <1>5 DEF BackendStep, BackendAbandons, BackendStarts, ExitBody, HostEnds
<1> QED
  BY <1>1, <1>2, <1>3, <1>4, <1>5

\* The body commits while its handler awaits it, so under a held key.
LEMMA KeyOfTheBody ==
  ASSUME RuntimeInv, KeyInv, NEW r \in Request, ExecuteBody(r)
  PROVE  KeyInv'
<1>1. phase[r] = "awaiting"
  BY DEF RuntimeInv, TypesInv, CommandInv, ExecuteBody, RefuseDrawing, ResolveDrawing, ScriptRefused,
     ScriptFails, ReadReturns, Commit, CommitFails, DisposeFails, Save, Civil!CommandStage,
     Civil!InCommand, AtBackend
<1> USE <1>1 DEF RuntimeInv, TypesInv, KeyInv, SaysCompletedTruly, Writes, BodyStep, BodyEnds,
     gateVars, registryVars, commandVars, bodyVars, handlerVars, Finished, InProgress
<1>2. CASE RefuseDrawing(r) \/ ResolveDrawing(r)
  BY <1>2 DEF RefuseDrawing, ResolveDrawing, DrawingError
<1>3. CASE ScriptRefused(r) \/ ScriptFails(r) \/ ReadReturns(r)
  BY <1>3 DEF ScriptRefused, ScriptFails, ReadReturns
<1>4. CASE Commit(r) \/ CommitFails(r) \/ DisposeFails(r) \/ Save(r)
  BY <1>4 DEF Commit, CommitFails, DisposeFails, Save
<1> QED
  BY <1>2, <1>3, <1>4 DEF ExecuteBody

\* The key is completed or released by the result.
LEMMA KeyIsSettled ==
  ASSUME RuntimeInv, KeyInv, Law!RegistryInv, NEW r \in Request, Answer(r) \/ Drop(r)
  PROVE  KeyInv'
<1>1. reservation \in [Request -> Law!ReservationState]
  BY DEF Law!RegistryInv, Law!RegistryTypeOK
<1>2. phase[r] = "settling" /\ IsTrueOf(result[r], r)
  BY DEF Answer, Drop, Go, RuntimeInv, TruthInv
<1>3. reservation[r] = "held" => KeyOf[r] # NoKey
  BY DEF Law!RegistryInv, Law!ReservationOwnsEntry
<1>4. SettleKey(r) /\ phase' = [phase EXCEPT ![r] = phase'[r]] /\ phase'[r] \in Finished
      /\ UNCHANGED <<result, bodyVars>>
  BY DEF Answer, Drop, Go, Finished, RuntimeInv, TypesInv
<1>5. CASE reservation[r] # "held"
  BY <1>1, <1>2, <1>4, <1>5 DEF SettleKey, registryVars, bodyVars, KeyInv, SaysCompletedTruly,
     Writes, RuntimeInv, TypesInv, Finished, InProgress
<1>6. CASE reservation[r] = "held"
  <2>1. Writes(r) /\ KeyOf[r] # NoKey
    BY <1>2, <1>3, <1>6 DEF KeyInv, InProgress
  <2>2. /\ reservation' = [reservation EXCEPT ![r] = reservation'[r]]
        /\ \/ reservation'[r] = "completed" /\ (result[r] = "ok" \/ SaysCommitted(r))
           \/ reservation'[r] = "released" /\ ~(result[r] = "ok" \/ SaysCommitted(r))
    BY <1>1, <1>4, <1>6 DEF SettleKey, Registry!Complete, Registry!CompleteWithRoom,
       Registry!CompleteEvicting, Registry!Release, Registry!SetReservation
  <2>3. result[r] = "ok" \/ SaysCommitted(r) => r \in operationCommitted
    BY <1>2, <2>1 DEF IsTrueOf, SaysCommitted
  <2>4. /\ ~DisposeMayThrow /\ Backend = "modal" /\ r \in operationCommitted
        => result[r] = "ok" \/ SaysCommitted(r)
    BY <1>2 DEF IsTrueOf, SaysCommitted
  <2> QED
    BY <1>1, <1>2, <1>4, <2>1, <2>2, <2>3, <2>4 DEF bodyVars, KeyInv, SaysCompletedTruly,
       Writes, RuntimeInv, TypesInv, Finished, InProgress
<1> QED
  BY <1>5, <1>6

\* Every step keeps the keys and the transactions together.
LEMMA KeyStep ==
  RuntimeInv /\ KeyInv /\ Law!RegistryInv /\ [RuntimeNext]_runtimeVars => KeyInv'
<1> SUFFICES ASSUME RuntimeInv, KeyInv, Law!RegistryInv, [RuntimeNext]_runtimeVars
             PROVE  KeyInv'
  OBVIOUS
<1>1. ASSUME NEW r \in Request, HandlerStep(r) \/ BackendStep(r) \/ ExecuteBody(r) \/ Cancel(r)
      PROVE  KeyInv'
  BY <1>1, KeyIsTaken, KeyIsHeld, KeyOfTheBody, KeyIsSettled DEF HandlerStep
<1>2. CASE UNCHANGED runtimeVars
  BY <1>2 DEF runtimeVars, registryVars, handlerVars, bodyVars, KeyInv, SaysCompletedTruly
<1> QED
  BY <1>1, <1>2 DEF RuntimeNext

\* The whole invariant of the plugin: its own, its components' and the keys'.
PluginInv == RuntimeInv /\ KeyInv /\ Law!GateInv /\ Law!RegistryInv

\* It holds throughout.
THEOREM PluginInvariance == RuntimeSafety => []PluginInv
<1>1. RuntimeInit => KeyInv
  BY DEF RuntimeInit, Registry!RegistryInit, KeyInv, Finished, InProgress
<1>2. RuntimeSafety => [](RuntimeInv /\ Law!RegistryInv)
  BY RuntimeInvariance, ComponentLaws, PTL
<1>3. RuntimeSafety => []KeyInv
  BY <1>1, <1>2, KeyStep, PTL DEF RuntimeSafety
<1> QED
  BY <1>3, RuntimeInvariance, ComponentLaws, PTL DEF PluginInv

\* The variables of the plugin and of what it is composed of keep their types.
THEOREM RuntimeTypes == RuntimeSafety => []RuntimeTypeOK
<1>1. PluginInv => RuntimeTypeOK
  <2> SUFFICES ASSUME PluginInv PROVE RuntimeTypeOK
    OBVIOUS
  <2>1. Gate!GateTypeOK
    BY DEF PluginInv, Law!GateInv, Law!GateTypeOK, Gate!GateTypeOK, Law!GateStage,
       Gate!GateStage
  <2>2. Registry!RegistryTypeOK
    BY DEF PluginInv, Law!RegistryInv, Law!RegistryTypeOK,
       Registry!RegistryTypeOK, Law!Entry, Registry!Entry, Law!Absent,
       Registry!Absent, Law!ReservationState, Registry!ReservationState
  <2> QED
    BY <2>1, <2>2 DEF PluginInv, RuntimeInv, TypesInv, ResultCode, RuntimeTypeOK
<1> QED
  BY <1>1, PluginInvariance, PTL

\* With the modal backend, and unless a dispose throws, no retry of a remembered
\* key commits a second time, however the requests interleave, fail or are
\* cancelled; neither condition can be dropped.
THEOREM NoWriteTwice ==
  ASSUME Backend = "modal", ~DisposeMayThrow
  PROVE  RuntimeSafety => []DuplicatesAreRejected
<1>1. ASSUME PluginInv, NEW r \in operationCommitted, NEW s \in operationCommitted,
             KeyOf[r] # NoKey, KeyOf[r] = KeyOf[s], r # s, r \notin evicted, s \notin evicted
      PROVE  FALSE
  <2>1. r \in Request /\ s \in Request
    BY <1>1 DEF PluginInv, RuntimeInv, TypesInv
  <2>2. ASSUME NEW q \in {r, s} PROVE reservation[q] \in {"held", "completed"}
    <3>1. phase[q] \in Finished \cup InProgress
      BY <1>1, <2>1, <2>2 DEF PluginInv, RuntimeInv, TypesInv, CommandInv, TruthInv, Phase,
         Finished, InProgress
    <3> QED
      BY <1>1, <2>1, <2>2, <3>1 DEF PluginInv, KeyInv
  <2>3. ASSUME NEW q \in {r, s}
        PROVE  entries[KeyOf[r]].owner = q
    <3>1. q \in Request /\ KeyOf[q] = KeyOf[r] /\ q \notin evicted
      BY <1>1, <2>1, <2>3
    <3>2. CASE reservation[q] = "held"
      <4>1. entries[KeyOf[q]] =
              [state |-> "in_progress", binding |-> BindingOf[q], owner |-> q]
        BY <1>1, <3>1, <3>2 DEF PluginInv, Law!RegistryInv,
           Law!ReservationOwnsEntry
      <4> QED
        BY <3>1, <4>1
    <3>3. CASE reservation[q] = "completed"
      <4>1. entries[KeyOf[q]] =
              [state |-> "completed", binding |-> BindingOf[q], owner |-> q]
        BY <1>1, <3>1, <3>3 DEF PluginInv, Law!RegistryInv,
           Law!CompletedIsRemembered
      <4> QED
        BY <3>1, <4>1
    <3> QED
      BY <2>2, <2>3, <3>2, <3>3
  <2> QED
    BY <1>1, <2>3
<1>2. PluginInv => DuplicatesAreRejected
  BY <1>1 DEF DuplicatesAreRejected
<1> QED
  BY <1>2, PluginInvariance, PTL

\* A client that is told its key is completed is told so of a committed write.
THEOREM CompletedIsSaidTruly == RuntimeSafety => []CompletedAnswerIsTrue
<1>1. PluginInv => CompletedAnswerIsTrue
  BY DEF PluginInv, KeyInv, SaysCompletedTruly, CompletedAnswerIsTrue
<1> QED
  BY <1>1, PluginInvariance, PTL

\* When all have ended, the gate is open, its count is down to the entries that
\* failed before the lock block, and no key is in progress.
THEOREM NothingIsLeft == RuntimeSafety => []NothingLeftBehind
<1>1. ASSUME PluginInv, \A r \in Request : phase[r] \in Finished
      PROVE  /\ permits = 1 /\ waitingCount = stranded /\ ~isActive
             /\ \A k \in Key : entries[k].state # "in_progress"
             /\ \A r \in Request : command[r] \notin {"pending"} \cup Civil!InCommand
  <2>1. \A r \in Request : gatePc[r] = "outside"
    BY <1>1 DEF PluginInv, RuntimeInv, HolderInv, Finished
  <2>2. Law!Holders = {} /\ Law!Counted = {}
    BY <2>1 DEF Law!Holders, Law!Counted
  <2>3. permits = 1
    BY <1>1, <2>2 DEF PluginInv, Law!GateInv, Law!MutualExclusion
  <2>7. waitingCount = stranded
    <3>1. Law!Cardinality({}) = 0
      BY LawAssumptions, Law!FS_EmptySet
    <3>2. stranded \in Nat
      BY <1>1, RuntimeAssumption DEF PluginInv, Law!GateInv, Law!GateTypeOK
    <3> QED
      BY <1>1, <2>2, <3>1, <3>2 DEF PluginInv, Law!GateInv, Law!WaitingCountExact
  <2>4. ~isActive
    BY <1>1, <2>1 DEF PluginInv, Law!GateInv, Law!GateTypeOK,
       Law!StatusNamesLeaseHolder
  <2>5. ASSUME NEW k \in Key, entries[k].state = "in_progress" PROVE FALSE
    <3>1. entries[k].owner \in Request
      BY <1>1, <2>5 DEF PluginInv, Law!RegistryInv, Law!RegistryTypeOK,
         Law!Entry, Law!Absent
    <3> QED
      BY <1>1, <2>5, <3>1 DEF PluginInv, KeyInv, Law!RegistryInv,
         Law!NoKeyLeftInProgress
  <2>6. \A r \in Request : command[r] \notin {"pending"} \cup Civil!InCommand
    BY <1>1 DEF PluginInv, RuntimeInv, CommandInv, AtBackend, Finished
  <2> QED
    BY <2>3, <2>4, <2>5, <2>6, <2>7
<1>2. PluginInv => NothingLeftBehind
  BY <1>1 DEF NothingLeftBehind
<1> QED
  BY <1>2, PluginInvariance, PTL
=============================================================================
