---------------------------- MODULE PluginRuntime ----------------------------
(***************************************************************************)
(* One request through the plugin: HandleRawRequestAsync reserves the key, *)
(* enters the gate, dispatches, has the body run by a backend inside a     *)
(* host command, leaves the gate, completes or releases the key, answers.  *)
(* It composes the gate, the registry and what the backends promise        *)
(* (CivilCommand); the body of CivilExecution is modelled here.            *)
(*                                                                         *)
(* Handlers of different connections interleave at every step.  What is    *)
(* not modelled: JSON and the diagnostics.                                 *)
(***************************************************************************)
EXTENDS Naturals, Sequences, FiniteSets, StructuredError

CONSTANTS
  Request, Document, Key, Code,
  Input,       \* what each request asks for, see InputType
  Untitled,    \* documents that were never saved under a name
  Backend,     \* "modal", the default, or "native"
  Capacity,    \* completed keys the registry remembers
  DisposeMayThrow,  \* whether disposing the transaction or the lock may throw
  StrandedLimit,    \* bound: entries into the gate that fail before its lock block
  NoRequest, NoDocument, NoKey

Method == {"executeCode", "getActiveDrawingIdentity", "control", "unknown"}

InputType ==
  [method : Method,               \* "control": getCivil3DHealth and apiLookup
   readOnly : BOOLEAN,
   saveDrawing : BOOLEAN,
   key : Key \cup {NoKey},
   code : Code,
   expected : Document \cup {NoDocument}]

ASSUME RuntimeAssumption ==
  /\ IsFiniteSet(Request)
  /\ Input \in [Request -> InputType]
  /\ Untitled \subseteq Document
  /\ Backend \in {"modal", "native"}
  /\ Capacity \in Nat \ {0} /\ DisposeMayThrow \in BOOLEAN
  /\ StrandedLimit \in Nat
  /\ NoRequest \notin Request /\ NoDocument \notin Document /\ NoKey \notin Key

KeyOf == [r \in Request |->
            IF Input[r].method = "executeCode" THEN Input[r].key ELSE NoKey]

BindingOf == [r \in Request |-> <<Input[r].code, Input[r].expected, Input[r].saveDrawing>>]

Binding == Code \X (Document \cup {NoDocument}) \X BOOLEAN

VARIABLES
  permits, waitingCount, isActive, currentOperation, gatePc, stranded,  \* the gate
  entries, completedKeys, reservation, evicted,               \* Idempotency
  command, cancelled,                                         \* the backend
  phase,               \* where the handler of each request is
  result,              \* code it ends with: "ok", "cancelled" or an error
  body,                \* where ExecuteBody of each request is
  captured,            \* "ok", or the code of capturedException
  drawing,             \* the document its body resolved, NoDocument out of it
  ran,                 \* history: requests whose caller's code was entered
  operationCommitted,  \* requests with operationCommitted
  saved                \* history: requests whose drawing was saved

gateVars == <<permits, waitingCount, isActive, currentOperation, gatePc, stranded>>
registryVars == <<entries, completedKeys, reservation, evicted>>
commandVars == <<command, cancelled>>
bodyVars == <<body, captured, drawing, ran, operationCommitted, saved>>
handlerVars == <<phase, result>>
runtimeVars == <<gateVars, registryVars, commandVars, handlerVars, bodyVars>>

Gate == INSTANCE SerializedOperationGate
          WITH Caller <- Request, NoCaller <- NoRequest

Registry == INSTANCE IdempotencyRegistry
              WITH Owner <- Request, NoOwner <- NoRequest, NoBinding <- NoRequest

Civil == INSTANCE CivilCommand

(***************************************************************************)
(* received  read from its connection                                      *)
(* reserved  key reserved, about to enter the gate                         *)
(* waiting   in EnterAsync                                                 *)
(* leased    holds the lease, to be dispatched                             *)
(* awaiting  awaits the backend                                            *)
(* leaving   the result is known, the lease is being disposed              *)
(* settling  out of the gate, the key to be completed or released          *)
(* answered  a response was returned      dropped  it threw, no response   *)
(***************************************************************************)
Phase == {"received", "reserved", "waiting", "leased", "awaiting", "leaving",
          "settling", "answered", "dropped"}

Finished == {"answered", "dropped"}

RuntimeInit ==
  /\ Gate!GateInit /\ Registry!RegistryInit /\ Civil!CommandInit
  /\ phase = [r \in Request |-> "received"]
  /\ result = [r \in Request |-> "none"]
  /\ body = [r \in Request |-> "none"]
  /\ captured = [r \in Request |-> "none"]
  /\ drawing = [r \in Request |-> NoDocument]
  /\ ran = {} /\ operationCommitted = {} /\ saved = {}

Go(r, from, to) ==
  /\ phase[r] = from
  /\ phase' = [phase EXCEPT ![r] = to]

Yield(r, code) == result' = [result EXCEPT ![r] = code]

Writes(r) == Input[r].method = "executeCode" /\ ~Input[r].readOnly

Saves(r) == Input[r].method = "executeCode" /\ Input[r].saveDrawing

-----------------------------------------------------------------------------
(* HandleRawRequestAsync before the gate.                                  *)

\* Health and API lookup are answered beside the gate.
AnswerControl(r) ==
  /\ Input[r].method = "control"
  /\ Go(r, "received", "answered")
  /\ Yield(r, "ok")
  /\ UNCHANGED <<gateVars, registryVars, commandVars, bodyVars>>

\* What ReserveWriteIdempotency throws before it asks the registry.
KeyError(r) ==
  IF KeyOf[r] = NoKey THEN "none"
  ELSE IF Input[r].readOnly THEN "INVALID_INPUT"
  ELSE IF Input[r].expected = NoDocument THEN "DRAWING_GUARD_REQUIRED" ELSE "none"

RejectKey(r) ==
  /\ Input[r].method # "control"
  /\ KeyError(r) # "none"
  /\ Go(r, "received", "answered")
  /\ Yield(r, KeyError(r))
  /\ UNCHANGED <<gateVars, registryVars, commandVars, bodyVars>>

Reserve(r) ==
  /\ Input[r].method # "control"
  /\ KeyError(r) = "none"
  /\ Registry!ReserveKeyless(r) \/ Registry!ReserveNew(r)
  /\ Go(r, "received", "reserved")
  /\ UNCHANGED <<gateVars, commandVars, result, bodyVars>>

RejectDuplicate(r) ==
  /\ Input[r].method # "control"
  /\ KeyError(r) = "none"
  /\ Registry!ReserveRejected(r)
  /\ Go(r, "received", "answered")
  /\ Yield(r, Registry!Rejection(r))
  /\ UNCHANGED <<gateVars, commandVars, bodyVars>>

-----------------------------------------------------------------------------
(* The gate, and the dispatch under its lease.                             *)

EnterGate(r) ==
  /\ Go(r, "reserved", "waiting")
  /\ Gate!JoinQueue(r)
  /\ UNCHANGED <<registryVars, commandVars, result, bodyVars>>

AcquireGate(r) ==
  /\ phase[r] = "waiting"
  /\ Gate!Acquire(r)
  /\ UNCHANGED <<registryVars, commandVars, handlerVars, bodyVars>>

\* WaitAsync throws only for a cancelled token.
RefuseGate(r) ==
  /\ phase[r] = "waiting"
  /\ r \in cancelled
  /\ Gate!Refuse(r)
  /\ UNCHANGED <<registryVars, commandVars, handlerVars, bodyVars>>

LeaveQueue(r) ==
  /\ Go(r, "waiting", "settling")
  /\ Gate!LeaveQueue(r)
  /\ Yield(r, "cancelled")
  /\ UNCHANGED <<registryVars, commandVars, bodyVars>>

TakeLease(r) ==
  /\ Go(r, "waiting", "leased")
  /\ Gate!Activate(r)
  /\ UNCHANGED <<registryVars, commandVars, result, bodyVars>>

AbortEntry(r) ==
  /\ Go(r, "waiting", "leaving")
  /\ Gate!StrandCount(r) \/ Gate!AbortEntry(r)
  /\ Yield(r, "TRANSACTION_FAILED")
  /\ UNCHANGED <<registryVars, commandVars, bodyVars>>

\* What DispatchAsync and ExecuteCodeAsync throw before the backend is asked.
DispatchError(r) ==
  CASE Input[r].method = "unknown"                  -> "INVALID_INPUT"
    [] Saves(r) /\ Input[r].readOnly                -> "INVALID_INPUT"
    [] Writes(r) /\ Input[r].expected = NoDocument  -> "DRAWING_GUARD_REQUIRED"
    [] OTHER                                        -> "none"

RejectDispatch(r) ==
  /\ DispatchError(r) # "none"
  /\ Go(r, "leased", "leaving")
  /\ Yield(r, DispatchError(r))
  /\ UNCHANGED <<gateVars, registryVars, commandVars, bodyVars>>

Dispatch(r) ==
  /\ DispatchError(r) = "none"
  /\ Go(r, "leased", "awaiting")
  /\ IF r \in cancelled THEN Civil!Abandon(r, "cancelled") ELSE Civil!Submit(r)
  /\ UNCHANGED <<gateVars, registryVars, result, bodyVars>>

-----------------------------------------------------------------------------
(* The backend: it abandons the request, or runs ExecuteBody.              *)

BackendAbandons(r, reason) ==
  /\ phase[r] = "awaiting"
  /\ command[r] = "pending"
  /\ Civil!Abandon(r, reason)
  /\ UNCHANGED <<gateVars, registryVars, handlerVars, bodyVars>>

BackendStarts(r) ==
  /\ Civil!Start(r)
  /\ body' = [body EXCEPT ![r] = "resolving"]
  /\ UNCHANGED <<gateVars, registryVars, handlerVars, captured, drawing, ran,
                 operationCommitted, saved>>

BodyEnds(r, code) ==
  /\ body' = [body EXCEPT ![r] = "done"]
  /\ captured' = [captured EXCEPT ![r] = code]

BodyStep == UNCHANGED <<gateVars, registryVars, commandVars, handlerVars>>

\* Faulty variant of DrawingError: a drawing without a name is saved as it is.
DrawingErrorUnnamed(r, d) ==
  CASE d = NoDocument                            -> "NO_DRAWING"
    [] Input[r].expected \notin {NoDocument, d}  -> "DRAWING_MISMATCH"
    [] OTHER                                     -> "none"

\* What the body throws before it locks the active document d.
DrawingError(r, d) ==
  CASE d = NoDocument                                        -> "NO_DRAWING"
    [] Input[r].expected \notin {NoDocument, d}              -> "DRAWING_MISMATCH"
    [] Saves(r) /\ d \in Untitled                            -> "SAVE_PATH_REQUIRED"
    [] OTHER                                                 -> "none"

\* The body asks for the active document once.
RefuseDrawing(r) ==
  /\ body[r] = "resolving"
  /\ \E d \in Document \cup {NoDocument} :
       DrawingError(r, d) # "none" /\ BodyEnds(r, DrawingError(r, d))
  /\ BodyStep /\ UNCHANGED <<drawing, ran, operationCommitted, saved>>

ResolveDrawing(r) ==
  /\ body[r] = "resolving"
  /\ \E d \in Document : DrawingError(r, d) = "none" /\ drawing' = [drawing EXCEPT ![r] = d]
  /\ body' = [body EXCEPT ![r] = "acting"]
  /\ BodyStep /\ UNCHANGED <<captured, ran, operationCommitted, saved>>

\* The sandbox, the compiler or a token that is already cancelled stops the
\* script before its first statement.
ScriptRefused(r) ==
  /\ body[r] = "acting" /\ Input[r].method = "executeCode"
  /\ \E code \in {"COMPILATION_ERROR"} \cup (IF r \in cancelled THEN {"cancelled"} ELSE {}) :
       BodyEnds(r, code)
  /\ BodyStep /\ UNCHANGED <<drawing, ran, operationCommitted, saved>>

\* The script throws, or a loop checkpoint does, or its result cannot be read;
\* the transaction is disposed without a commit.
ScriptFails(r) ==
  /\ body[r] = "acting" /\ Input[r].method = "executeCode"
  /\ ran' = ran \cup {r}
  /\ BodyEnds(r, "TRANSACTION_FAILED")
       \/ BodyEnds(r, IF r \in cancelled THEN "cancelled" ELSE "TIMEOUT")
  /\ BodyStep /\ UNCHANGED <<drawing, operationCommitted, saved>>

\* A read ends without a commit; the identity action runs no caller's code.
ReadReturns(r) ==
  /\ body[r] = "acting" /\ ~Writes(r)
  /\ ran' = IF Input[r].method = "executeCode" THEN ran \cup {r} ELSE ran
  /\ BodyEnds(r, "ok")
  /\ BodyStep /\ UNCHANGED <<drawing, operationCommitted, saved>>

Commit(r) ==
  /\ body[r] = "acting" /\ Writes(r)
  /\ ran' = ran \cup {r}
  /\ operationCommitted' = operationCommitted \cup {r}
  /\ IF Saves(r) THEN body' = [body EXCEPT ![r] = "saving"] /\ UNCHANGED captured
     ELSE BodyEnds(r, "ok")
  /\ BodyStep /\ UNCHANGED <<drawing, saved>>

CommitFails(r) ==
  /\ body[r] = "acting" /\ Writes(r)
  /\ ran' = ran \cup {r}
  /\ BodyEnds(r, "TRANSACTION_FAILED")
  /\ BodyStep /\ UNCHANGED <<drawing, operationCommitted, saved>>

\* The transaction is committed, then it or the document lock throws from
\* Dispose; the exception carries no OperationCommitted.
DisposeFails(r) ==
  /\ DisposeMayThrow
  /\ body[r] = "acting" /\ Writes(r)
  /\ ran' = ran \cup {r}
  /\ operationCommitted' = operationCommitted \cup {r}
  /\ BodyEnds(r, "TRANSACTION_FAILED")
  /\ BodyStep /\ UNCHANGED <<drawing, saved>>

\* Faulty variant of Save: its failure is reported as that of the transaction.
SaveFailsPlainly(r) ==
  /\ body[r] = "saving"
  /\ \/ BodyEnds(r, "ok") /\ saved' = saved \cup {r}
     \/ BodyEnds(r, "TRANSACTION_FAILED") /\ UNCHANGED saved
  /\ BodyStep /\ UNCHANGED <<drawing, ran, operationCommitted>>

\* After the transaction and the document lock are disposed.
Save(r) ==
  /\ body[r] = "saving"
  /\ \/ BodyEnds(r, "ok") /\ saved' = saved \cup {r}
     \/ BodyEnds(r, "SAVE_FAILED") /\ UNCHANGED saved
  /\ BodyStep /\ UNCHANGED <<drawing, ran, operationCommitted>>

ExitBody(r) ==
  /\ body[r] = "done"
  /\ Civil!Exit(r)
  /\ UNCHANGED <<gateVars, registryVars, handlerVars, bodyVars>>

\* The host ends the command, or cancels or fails it.
HostEnds(r) ==
  /\ \E how \in {"completed", "command_failed"} : Civil!End(r, how)
  /\ UNCHANGED <<gateVars, registryVars, handlerVars, bodyVars>>

-----------------------------------------------------------------------------
(* The handler after the backend.                                          *)

\* Faulty variant of ResultOf: a failed command is taken for one never started.
ResultOfFailedStart(r) ==
  CASE command[r] = "cancelled"   -> "cancelled"
    [] command[r] = "no_drawing"  -> "NO_DRAWING"
    [] command[r] = "mismatch"    -> "DRAWING_MISMATCH"
    [] command[r] = "send_failed" -> "TRANSACTION_FAILED"
    [] command[r] = "completed"   -> captured[r]
    [] OTHER                      -> "COMMAND_CONTEXT_TIMEOUT"

\* What the await of the backend throws, or else the captured exception.
\* The native backend hands on whatever the host threw.
ResultOf(r) ==
  CASE command[r] = "cancelled"      -> "cancelled"
    [] command[r] = "timeout"        -> "COMMAND_CONTEXT_TIMEOUT"
    [] command[r] = "no_drawing"     -> "NO_DRAWING"
    [] command[r] = "mismatch"       -> "DRAWING_MISMATCH"
    [] command[r] = "send_failed"    -> "TRANSACTION_FAILED"
    [] command[r] = "completed"      -> captured[r]
    [] command[r] = "command_failed" -> IF Backend = "modal" THEN "COMMAND_FAILED"
                                        ELSE "TRANSACTION_FAILED"

\* Faulty variant of AwaitReturns: the body's end is taken for the command's.
AwaitReturnsAtExit(r) ==
  /\ command[r] \in Civil!NotRun \cup Civil!HostEnded \cup {"exited"}
  /\ Go(r, "awaiting", "leaving")
  /\ Yield(r, IF command[r] = "exited" THEN captured[r] ELSE ResultOf(r))
  /\ UNCHANGED <<gateVars, registryVars, commandVars, bodyVars>>

\* The variables of ExecuteBody go out of scope.
AwaitReturns(r) ==
  /\ command[r] \in Civil!NotRun \cup Civil!HostEnded
  /\ Go(r, "awaiting", "leaving")
  /\ Yield(r, ResultOf(r))
  /\ body' = [body EXCEPT ![r] = "none"]
  /\ captured' = [captured EXCEPT ![r] = "none"]
  /\ drawing' = [drawing EXCEPT ![r] = NoDocument]
  /\ UNCHANGED <<gateVars, registryVars, commandVars, ran, operationCommitted, saved>>

\* Faulty variant of DisposeLease: an exception skips it.
DisposeLeaseUnlessThrown(r) ==
  /\ phase[r] = "leaving"
  /\ result[r] = "ok"
  /\ Gate!BeginExit(r)
  /\ UNCHANGED <<registryVars, commandVars, handlerVars, bodyVars>>

DisposeLease(r) ==
  /\ phase[r] = "leaving"
  /\ Gate!BeginExit(r)
  /\ UNCHANGED <<registryVars, commandVars, handlerVars, bodyVars>>

LeaveGate(r) ==
  /\ Go(r, "leaving", "settling")
  /\ Gate!ReturnPermit(r)
  /\ UNCHANGED <<registryVars, commandVars, result, bodyVars>>

\* Faulty variant of SaysCommitted: a failed save does not count.
SaysCommittedUnlessSaving(r) == result[r] = "COMMAND_FAILED" /\ r \in operationCommitted

\* Faulty variant of SaysCommitted: every failed command counts.
SaysCommittedAlways(r) == result[r] \in {"SAVE_FAILED", "COMMAND_FAILED"}

\* OperationCommitted of the exception the handler catches.
SaysCommitted(r) ==
  \/ result[r] = "SAVE_FAILED"
  \/ result[r] = "COMMAND_FAILED" /\ r \in operationCommitted

\* Complete, or the finally block's ReleaseIfIncomplete; neither without a key.
SettleKey(r) ==
  IF reservation[r] # "held" THEN UNCHANGED registryVars
  ELSE IF result[r] = "ok" \/ SaysCommitted(r) THEN Registry!Complete(r)
  ELSE Registry!Release(r)

Answer(r) ==
  /\ result[r] # "cancelled"
  /\ Go(r, "settling", "answered")
  /\ SettleKey(r)
  /\ UNCHANGED <<gateVars, commandVars, result, bodyVars>>

\* Faulty variant of Drop: the exception leaves before the key is released.
DropKeepsKey(r) ==
  /\ result[r] = "cancelled"
  /\ Go(r, "settling", "dropped")
  /\ UNCHANGED <<gateVars, registryVars, commandVars, result, bodyVars>>

\* OperationCanceledException of a cancelled token is thrown on.
Drop(r) ==
  /\ result[r] = "cancelled"
  /\ Go(r, "settling", "dropped")
  /\ SettleKey(r)
  /\ UNCHANGED <<gateVars, commandVars, result, bodyVars>>

\* The client closes its connection, or the server stops.  A handler whose result
\* is known no longer looks at its token.
Cancel(r) ==
  /\ phase[r] \in {"reserved", "waiting", "leased", "awaiting"}
  /\ Civil!Cancel(r)
  /\ UNCHANGED <<gateVars, registryVars, handlerVars, bodyVars>>

-----------------------------------------------------------------------------
HandlerStep(r) ==
  \/ AnswerControl(r) \/ RejectKey(r) \/ Reserve(r) \/ RejectDuplicate(r)
  \/ EnterGate(r) \/ AcquireGate(r) \/ RefuseGate(r) \/ LeaveQueue(r)
  \/ TakeLease(r) \/ AbortEntry(r) \/ RejectDispatch(r) \/ Dispatch(r)
  \/ AwaitReturns(r) \/ DisposeLease(r) \/ LeaveGate(r) \/ Answer(r) \/ Drop(r)

BackendStep(r) ==
  \/ \E reason \in Civil!NotRun : BackendAbandons(r, reason)
  \/ BackendStarts(r) \/ ExitBody(r) \/ HostEnds(r)

ExecuteBody(r) ==
  \/ RefuseDrawing(r) \/ ResolveDrawing(r) \/ ScriptRefused(r) \/ ScriptFails(r)
  \/ ReadReturns(r) \/ Commit(r) \/ CommitFails(r) \/ DisposeFails(r) \/ Save(r)

RuntimeNext ==
  \E r \in Request : HandlerStep(r) \/ BackendStep(r) \/ ExecuteBody(r) \/ Cancel(r)

\* Tasks go on by themselves, the backend decides every pending request by its
\* deadline, scripts end by their time-out, and the host ends its commands.
\* WaitAsync need not serve any one caller first: nobody comes twice.
RuntimeFairness ==
  \A r \in Request : /\ WF_runtimeVars(HandlerStep(r))
                     /\ WF_runtimeVars(BackendStep(r))
                     /\ WF_runtimeVars(ExecuteBody(r))

\* What safety is checked of: fairness rules no finite behaviour out.
RuntimeSafety == RuntimeInit /\ [][RuntimeNext]_runtimeVars

RuntimeSpec == RuntimeSafety /\ RuntimeFairness

-----------------------------------------------------------------------------
ErrorCode ==
  {"INVALID_INPUT", "DRAWING_GUARD_REQUIRED", "IDEMPOTENCY_CONFLICT",
   "IDEMPOTENCY_COMPLETED", "IDEMPOTENCY_IN_PROGRESS", "NO_DRAWING",
   "DRAWING_MISMATCH", "SAVE_PATH_REQUIRED", "COMPILATION_ERROR", "TIMEOUT",
   "TRANSACTION_FAILED", "SAVE_FAILED", "COMMAND_FAILED", "COMMAND_CONTEXT_TIMEOUT"}

RuntimeTypeOK ==
  /\ Gate!GateTypeOK /\ Registry!RegistryTypeOK
  /\ command \in [Request -> Civil!CommandStage]
  /\ cancelled \subseteq Request
  /\ phase \in [Request -> Phase]
  /\ result \in [Request -> {"none", "ok", "cancelled"} \cup ErrorCode]
  /\ body \in [Request -> {"none", "resolving", "acting", "saving", "done"}]
  /\ captured \in [Request -> {"none", "ok", "cancelled"} \cup ErrorCode]
  /\ drawing \in [Request -> Document \cup {NoDocument}]
  /\ ran \subseteq Request /\ operationCommitted \subseteq Request
  /\ saved \subseteq Request

\* From the moment a request is handed to the backend until its host command has
\* ended it holds the gate and is the operation the health call names, whatever
\* the client does meanwhile: nothing else reaches the Civil API, and a hung
\* script is never reported as an idle plugin.
GateHeldUntilHostEnd ==
  \A r \in Request : command[r] \in {"pending"} \cup Civil!InCommand =>
    /\ gatePc[r] = "active"
    /\ isActive /\ currentOperation = r
    /\ \A s \in Request \ {r} : command[s] \notin {"pending"} \cup Civil!InCommand

\* An answer the client takes for "not started" is the whole truth: no statement
\* of the caller's code has run and none will.
NotStartedNeverRan ==
  \A r \in Request : phase[r] = "answered" /\ Outcome(result[r]) = "not_started" =>
    /\ r \notin ran \cup operationCommitted \cup saved
    /\ command[r] \notin {"pending"} \cup Civil!InCommand

\* An error that does not say the drawing may have changed, and a request dropped
\* because its client left, have changed nothing: the transaction was rolled back.
ErrorMeansRolledBack ==
  \A r \in Request :
    /\ phase[r] \in Finished
    /\ result[r] \notin {"ok", "SAVE_FAILED", "COMMAND_FAILED"}
    => r \notin operationCommitted \cup saved

\* A success is durable and where the caller meant it: the write is committed in
\* the drawing it expected, saved if that was asked for, and a read commits nothing.
SuccessIsDurable ==
  /\ \A r \in Request : phase[r] = "answered" /\ result[r] = "ok" =>
       /\ r \in operationCommitted <=> Writes(r)
       /\ r \in saved <=> Saves(r)
  /\ \A r \in operationCommitted : Writes(r) /\ drawing[r] \in {Input[r].expected, NoDocument}
  /\ \A r \in saved : r \in operationCommitted /\ drawing[r] \notin Untitled

\* A retry under a key the session remembers is rejected: two commits under one key
\* happen only when the first was evicted between.  README.md, "A duplicate is
\* rejected as in-progress, conflicting, or already committed".
DuplicatesAreRejected ==
  \A r, s \in operationCommitted :
    KeyOf[r] # NoKey /\ KeyOf[r] = KeyOf[s] /\ r # s => r \in evicted \/ s \in evicted

\* A client told that its key is completed may rely on it: a request with the same
\* key and binding has committed, and its commit is not undone.
CompletedAnswerIsTrue ==
  \A r \in Request : result[r] = "IDEMPOTENCY_COMPLETED" =>
    \E s \in operationCommitted : KeyOf[s] = KeyOf[r] /\ BindingOf[s] = BindingOf[r]

\* When every request has ended, on whatever path, the gate is open, nothing is
\* shown as running, no key is left in progress, and nobody is counted as waiting
\* but the entries that failed before the gate's lock block.
NothingLeftBehind ==
  (\A r \in Request : phase[r] \in Finished) =>
    /\ permits = 1 /\ waitingCount = stranded /\ ~isActive
    /\ \A k \in Key : entries[k].state # "in_progress"
    /\ \A r \in Request : command[r] \notin {"pending"} \cup Civil!InCommand

\* Every request is answered or dropped: no path through the gate, the backend or
\* the registry leaves a handler waiting.
EveryRequestEnds == \A r \in Request : phase[r] = "received" ~> phase[r] \in Finished
=============================================================================
