----------------------- MODULE ModalCommandAdmission -----------------------
(***************************************************************************)
(* The default backend.  A request is put in a table by a pool thread,     *)
(* typed as a one-use token into the active document by the UI thread's    *)
(* idle handler, started by the modal command that reads the token, and    *)
(* completed by the host's command-end event of that command.  Until it    *)
(* starts, a timer, the client's cancellation or the idle handler may      *)
(* abandon it.                                                             *)
(*                                                                         *)
(* Pool threads, the timer and the UI thread interleave at the lock of the *)
(* request; UI steps do not interleave with one another, which "ui" keeps. *)
(* The host and its user are external: they switch and close documents,    *)
(* run or discard typed tokens, and end commands.                          *)
(***************************************************************************)
EXTENDS Naturals

CONSTANTS Request, Document, NoRequest, NoDocument

ASSUME AdmissionAssumption ==
  /\ NoRequest \notin Request
  /\ NoDocument \notin Document

VARIABLES
  requests,        \* Requests: calls of ExecuteAsync that have not returned
  cleanup,         \* Cleanup: requests whose Detach waits for the next idle event
  queued,          \* requests with _queued
  document,        \* _document of each request
  subscribed,      \* requests whose handlers are on their document's events
  started,         \* requests with _started
  bodyExited,      \* requests with _bodyExited
  faulted,         \* requests with _error
  abandoned,       \* requests with _abandoned
  completion,      \* Completion of each request
  cancelled,       \* requests whose client token is cancelled
  ui,              \* what the UI thread is doing
  uiRequest,       \* the request, or the token, it is doing it for
  toScan,          \* what is left of the idle handler's loop over Requests
  commandDocument, \* the document the running C3DMCPRUN belongs to
  activeDocument,  \* MdiActiveDocument
  quiescent,       \* Editor.IsQuiescent of the active document
  typed            \* tokens typed into each document and not yet read

requestVars == <<requests, cleanup, queued, document, subscribed, started,
                 bodyExited, faulted, abandoned, completion>>
hostVars == <<activeDocument, quiescent, typed>>
uiVars == <<ui, uiRequest, toScan, commandDocument>>
admissionVars == <<requestVars, cancelled, uiVars, hostVars>>

\* How an awaited request ends.  The first group ends it without a run.
AbandonReason == {"cancelled", "timeout", "no_drawing", "send_failed", "mismatch"}
HostReason == {"completed", "command_failed", "body_failed"}
CompletionState == {"none", "pending"} \cup AbandonReason \cup HostReason

UiState == {"idle", "scanning", "queueing", "command", "body", "ending"}

AdmissionInit ==
  /\ requests = {} /\ cleanup = {} /\ queued = {} /\ subscribed = {}
  /\ started = {} /\ bodyExited = {} /\ faulted = {} /\ abandoned = {}
  /\ document = [r \in Request |-> NoDocument]
  /\ completion = [r \in Request |-> "none"]
  /\ cancelled = {}
  /\ ui = "idle" /\ uiRequest = NoRequest /\ toScan = {}
  /\ commandDocument = NoDocument
  /\ activeDocument \in Document
  /\ quiescent = TRUE
  /\ typed = [d \in Document |-> {}]

-----------------------------------------------------------------------------
(* ExecuteAsync, on a pool thread, and the two timers of the request.      *)

Call(r) ==
  /\ completion[r] = "none"
  /\ r \notin cancelled
  /\ requests' = requests \cup {r}
  /\ completion' = [completion EXCEPT ![r] = "pending"]
  /\ UNCHANGED <<cleanup, queued, document, subscribed, started, bodyExited, faulted,
                 abandoned, cancelled, uiVars, hostVars>>

\* ThrowIfCancellationRequested.
CallCancelled(r) ==
  /\ completion[r] = "none"
  /\ r \in cancelled
  /\ completion' = [completion EXCEPT ![r] = "cancelled"]
  /\ UNCHANGED <<requests, cleanup, queued, document, subscribed, started, bodyExited,
                 faulted, abandoned, cancelled, uiVars, hostVars>>

\* Faulty variant of CanAbandon: a started request is still abandoned.
CanAbandonStarted(r) == r \notin abandoned

\* Abandon does nothing to a request that has started or is abandoned already.
CanAbandon(r) == r \notin started \cup abandoned

Abandon(r, reason) ==
  /\ CanAbandon(r)
  /\ abandoned' = abandoned \cup {r}
  /\ completion' = [completion EXCEPT ![r] = reason]

\* Faulty variant of Deadline: the timer is stopped once the token is typed.
DeadlineUntilQueued(r) ==
  /\ r \in requests \ queued
  /\ Abandon(r, "timeout")
  /\ UNCHANGED <<requests, cleanup, queued, document, subscribed, started, bodyExited,
                 faulted, cancelled, uiVars, hostVars>>

Deadline(r) ==
  /\ r \in requests
  /\ Abandon(r, "timeout")
  /\ UNCHANGED <<requests, cleanup, queued, document, subscribed, started, bodyExited,
                 faulted, cancelled, uiVars, hostVars>>

\* The token is cancelled, here or before the callback was registered.
CancelCallback(r) ==
  /\ r \in requests \cap cancelled
  /\ Abandon(r, "cancelled")
  /\ UNCHANGED <<requests, cleanup, queued, document, subscribed, started, bodyExited,
                 faulted, cancelled, uiVars, hostVars>>

\* Faulty variant of Return: the handlers are left on the document.
ReturnAttached(r) ==
  /\ r \in requests
  /\ completion[r] # "pending"
  /\ requests' = requests \ {r}
  /\ UNCHANGED <<cleanup, queued, document, subscribed, started, bodyExited, faulted,
                 abandoned, completion, cancelled, uiVars, hostVars>>

\* The finally block once Completion is set.
Return(r) ==
  /\ r \in requests
  /\ completion[r] # "pending"
  /\ requests' = requests \ {r}
  /\ cleanup' = cleanup \cup {r}
  /\ UNCHANGED <<queued, document, subscribed, started, bodyExited, faulted, abandoned,
                 completion, cancelled, uiVars, hostVars>>

\* The client closes its connection, or the server stops.
CancelToken(r) ==
  /\ r \notin cancelled
  /\ cancelled' = cancelled \cup {r}
  /\ UNCHANGED <<requestVars, uiVars, hostVars>>

-----------------------------------------------------------------------------
(* OnIdle, on the UI thread: detach what is left over, then offer each     *)
(* request of a snapshot of the table to the active document.              *)

Detached(R) ==
  /\ subscribed' = subscribed \ R
  /\ document' = [r \in Request |-> IF r \in R THEN NoDocument ELSE document[r]]

ResumeScan(left) ==
  /\ toScan' = left
  /\ ui' = IF left = {} THEN "idle" ELSE "scanning"

OnIdle ==
  /\ ui = "idle"
  /\ cleanup \cup requests # {}
  /\ Detached(cleanup)
  /\ cleanup' = {}
  /\ ResumeScan(requests)
  /\ UNCHANGED <<requests, queued, started, bodyExited, faulted, abandoned, completion,
                 cancelled, uiRequest, commandDocument, hostVars>>

CanQueue(r) == r \notin queued \cup abandoned

\* Not to be queued, or the editor is busy: try again at the next idle event.
ScanSkip(r) ==
  /\ ui = "scanning" /\ r \in toScan
  /\ ~CanQueue(r) \/ (activeDocument # NoDocument /\ ~quiescent)
  /\ ResumeScan(toScan \ {r})
  /\ UNCHANGED <<requestVars, cancelled, uiRequest, commandDocument, hostVars>>

ScanNoDrawing(r) ==
  /\ ui = "scanning" /\ r \in toScan
  /\ CanQueue(r) /\ activeDocument = NoDocument
  /\ IF CanAbandon(r) THEN Abandon(r, "no_drawing") ELSE UNCHANGED <<abandoned, completion>>
  /\ ResumeScan(toScan \ {r})
  /\ UNCHANGED <<requests, cleanup, queued, document, subscribed, started, bodyExited,
                 faulted, cancelled, uiRequest, commandDocument, hostVars>>

ScanOffer(r) ==
  /\ ui = "scanning" /\ r \in toScan
  /\ CanQueue(r) /\ activeDocument # NoDocument /\ quiescent
  /\ ui' = "queueing" /\ uiRequest' = r /\ toScan' = toScan \ {r}
  /\ UNCHANGED <<requestVars, cancelled, commandDocument, hostVars>>

\* Queue takes the lock again: the request may have been abandoned since.
QueueLate(r) ==
  /\ ui = "queueing" /\ uiRequest = r
  /\ ~CanQueue(r)
  /\ ResumeScan(toScan) /\ uiRequest' = NoRequest
  /\ UNCHANGED <<requestVars, cancelled, commandDocument, hostVars>>

QueueSend(r) ==
  /\ ui = "queueing" /\ uiRequest = r
  /\ CanQueue(r)
  /\ queued' = queued \cup {r}
  /\ document' = [document EXCEPT ![r] = activeDocument]
  /\ subscribed' = subscribed \cup {r}
  /\ typed' = [typed EXCEPT ![activeDocument] = @ \cup {r}]
  /\ ResumeScan(toScan) /\ uiRequest' = NoRequest
  /\ UNCHANGED <<requests, cleanup, started, bodyExited, faulted, abandoned, completion,
                 cancelled, commandDocument, activeDocument, quiescent>>

\* SendStringToExecute throws: the request is queued, and abandoned.
QueueFails(r) ==
  /\ ui = "queueing" /\ uiRequest = r
  /\ CanQueue(r)
  /\ queued' = queued \cup {r}
  /\ document' = [document EXCEPT ![r] = activeDocument]
  /\ subscribed' = subscribed \cup {r}
  /\ Abandon(r, "send_failed")
  /\ ResumeScan(toScan) /\ uiRequest' = NoRequest
  /\ UNCHANGED <<requests, cleanup, started, bodyExited, faulted, cancelled,
                 commandDocument, hostVars>>

-----------------------------------------------------------------------------
(* RunCommand and Run, inside the modal command.                           *)

\* The host reads C3DMCPRUN and a token from the input of document d.
ReadToken(d, r) ==
  /\ ui = "idle" /\ quiescent
  /\ r \in typed[d]
  /\ typed' = [typed EXCEPT ![d] = @ \ {r}]
  /\ ui' = "command" /\ uiRequest' = r /\ commandDocument' = d
  /\ UNCHANGED <<requestVars, cancelled, toScan, activeDocument, quiescent>>

\* No active document, a prompt that is not OK, a token that is not in the table,
\* or a request that has started or is abandoned: the command does nothing.
RunNothing ==
  /\ ui = "command"
  /\ ui' = "ending"
  /\ UNCHANGED <<requestVars, cancelled, uiRequest, toScan, commandDocument, hostVars>>

Runnable(r) ==
  /\ ui = "command" /\ uiRequest = r
  /\ r \in requests
  /\ r \notin started \cup abandoned
  /\ activeDocument # NoDocument

RunMismatch(r) ==
  /\ Runnable(r)
  /\ activeDocument # document[r]
  /\ Abandon(r, "mismatch")
  /\ ui' = "ending"
  /\ UNCHANGED <<requests, cleanup, queued, document, subscribed, started, bodyExited,
                 faulted, cancelled, uiRequest, toScan, commandDocument, hostVars>>

RunStart(r) ==
  /\ Runnable(r)
  /\ activeDocument = document[r]
  /\ started' = started \cup {r}
  /\ ui' = "body"
  /\ UNCHANGED <<requests, cleanup, queued, document, subscribed, bodyExited, faulted,
                 abandoned, completion, cancelled, uiRequest, toScan, commandDocument,
                 hostVars>>

\* Faulty variant of RunExit: the body's end completes the request.
RunExitCompletes(r, throws) ==
  /\ ui = "body" /\ uiRequest = r
  /\ bodyExited' = bodyExited \cup {r}
  /\ faulted' = IF throws THEN faulted \cup {r} ELSE faulted
  /\ completion' = [completion EXCEPT ![r] = IF throws THEN "body_failed" ELSE "completed"]
  /\ ui' = "ending"
  /\ UNCHANGED <<requests, cleanup, queued, document, subscribed, started, abandoned,
                 cancelled, uiRequest, toScan, commandDocument, hostVars>>

\* The body returns or throws; Completion is left to the host's event.
RunExit(r, throws) ==
  /\ ui = "body" /\ uiRequest = r
  /\ bodyExited' = bodyExited \cup {r}
  /\ faulted' = IF throws THEN faulted \cup {r} ELSE faulted
  /\ ui' = "ending"
  /\ UNCHANGED <<requests, cleanup, queued, document, subscribed, started, abandoned,
                 completion, cancelled, uiRequest, toScan, commandDocument, hostVars>>

-----------------------------------------------------------------------------
(* End: the host ends C3DMCPRUN in a document and every request that is    *)
(* subscribed there hears of it, whichever token the command read.         *)

Hears(r) ==
  /\ r \in subscribed
  /\ document[r] = commandDocument
  /\ r \in started /\ r \in bodyExited

EndResult(r, failed) ==
  IF r \in faulted THEN "body_failed"
  ELSE IF failed THEN "command_failed" ELSE "completed"

CommandEnds(failed) ==
  /\ ui = "ending"
  /\ completion' = [r \in Request |->
       IF Hears(r) /\ completion[r] = "pending" THEN EndResult(r, failed)
       ELSE completion[r]]
  /\ Detached({r \in Request : Hears(r)})
  /\ ui' = "idle" /\ uiRequest' = NoRequest /\ commandDocument' = NoDocument
  /\ UNCHANGED <<requests, cleanup, queued, started, bodyExited, faulted, abandoned,
                 cancelled, toScan, hostVars>>

-----------------------------------------------------------------------------
(* The user, between two UI events of the plugin.                          *)

ActivateDocument(d) ==
  /\ ui = "idle"
  /\ activeDocument' = d
  /\ UNCHANGED <<requestVars, cancelled, uiVars, quiescent, typed>>

\* The user starts or ends a command of their own.
ToggleQuiescent ==
  /\ ui = "idle"
  /\ quiescent' = ~quiescent
  /\ UNCHANGED <<requestVars, cancelled, uiVars, activeDocument, typed>>

\* Escape, or the document is closed: what was typed is lost.
DiscardInput(d) ==
  /\ ui = "idle"
  /\ typed[d] # {}
  /\ typed' = [typed EXCEPT ![d] = {}]
  /\ UNCHANGED <<requestVars, cancelled, uiVars, activeDocument, quiescent>>

-----------------------------------------------------------------------------
PoolStep(r) ==
  \/ Call(r) \/ CallCancelled(r) \/ Deadline(r) \/ CancelCallback(r) \/ Return(r)

IdleStep(r) ==
  \/ ScanSkip(r) \/ ScanNoDrawing(r) \/ ScanOffer(r)
  \/ QueueLate(r) \/ QueueSend(r) \/ QueueFails(r)

RunStep(r) == RunMismatch(r) \/ RunStart(r)

UserStep ==
  \/ \E d \in Document \cup {NoDocument} : ActivateDocument(d)
  \/ \E d \in Document : DiscardInput(d)
  \/ ToggleQuiescent

\* Everything but the body, which is the caller's.
AdmissionStep(r) ==
  PoolStep(r) \/ IdleStep(r) \/ RunStep(r) \/ \E d \in Document : ReadToken(d, r)

AdmissionNext ==
  \/ \E r \in Request : \/ AdmissionStep(r) \/ CancelToken(r)
                        \/ \E throws \in BOOLEAN : RunExit(r, throws)
  \/ OnIdle \/ RunNothing
  \/ \E failed \in BOOLEAN : CommandEnds(failed)
  \/ UserStep

\* The timer fires, the pool resumes an await, a command that was read runs, its
\* body returns and the host ends it.  Nothing is assumed of the user, and not
\* even that the host ever reads the token.
AdmissionFairness ==
  /\ \A r \in Request : WF_admissionVars(Deadline(r)) /\ WF_admissionVars(Return(r))
  /\ WF_admissionVars(RunNothing \/ \E r \in Request : RunStep(r))
  /\ WF_admissionVars(\E r \in Request, throws \in BOOLEAN : RunExit(r, throws))
  /\ WF_admissionVars(\E failed \in BOOLEAN : CommandEnds(failed))

AdmissionSpec == AdmissionInit /\ [][AdmissionNext]_admissionVars /\ AdmissionFairness

-----------------------------------------------------------------------------
AdmissionTypeOK ==
  /\ requests \subseteq Request /\ cleanup \subseteq Request /\ queued \subseteq Request
  /\ subscribed \subseteq Request /\ started \subseteq Request
  /\ bodyExited \subseteq Request /\ faulted \subseteq Request
  /\ abandoned \subseteq Request /\ cancelled \subseteq Request /\ toScan \subseteq Request
  /\ document \in [Request -> Document \cup {NoDocument}]
  /\ completion \in [Request -> CompletionState]
  /\ ui \in UiState
  /\ uiRequest \in Request \cup {NoRequest}
  /\ commandDocument \in Document \cup {NoDocument}
  /\ activeDocument \in Document \cup {NoDocument}
  /\ quiescent \in BOOLEAN
  /\ typed \in [Document -> SUBSET Request]

\* What the awaiting caller is told is true of the body: an abandoned request has
\* not run and will not (nothing starts it later), and a request the host ended
\* has run to its end.  The timer, the client and the UI thread race for it.
CompletionTellsTheTruth ==
  \A r \in Request :
    /\ completion[r] \in AbandonReason => r \notin started
    /\ completion[r] \in HostReason => r \in started /\ r \in bodyExited

\* A request is never both started and abandoned, and is pending while neither
\* has been decided or its own command has not ended.
OneFate ==
  /\ started \cap abandoned = {}
  /\ \A r \in abandoned : completion[r] \in AbandonReason

\* A body runs in the document its token was typed into, which is the active one
\* and the one whose command it is, whatever the user did in between.
BodyRunsInItsDocument ==
  ui = "body" =>
    /\ document[uiRequest] = activeDocument
    /\ commandDocument = activeDocument

\* Handlers are not leaked: a request that is still subscribed to a document is
\* still awaited or waits for the next idle event to be detached.
NoHandlerLeft == subscribed \subseteq requests \cup cleanup

\* A request is completed only by the end of the command that ran it: the end of
\* a command that read the late token of an abandoned request, in the same
\* document and under the same name, completes nobody.
CompletedByOwnCommand ==
  [][\A r \in Request :
       completion[r] = "pending" /\ completion'[r] \in HostReason =>
         ui = "ending" /\ uiRequest = r]_admissionVars

\* Every call of ExecuteAsync returns, though the user may never let the token in:
\* before the start by the deadline, after it by the host.
CallReturns ==
  \A r \in Request : completion[r] = "pending" ~> completion[r] # "pending" /\ r \notin requests

-----------------------------------------------------------------------------
\* A pending request is inside its command once it has started.
CommandOf(r) ==
  IF completion[r] # "pending" THEN completion[r]
  ELSE IF r \in bodyExited THEN "exited"
  ELSE IF r \in started THEN "running" ELSE "pending"

Civil == INSTANCE CivilCommand WITH command <- [r \in Request |-> CommandOf(r)]

\* The modal backend keeps the promise the rest of the plugin is built on: a body
\* runs at most once and alone, and its caller learns of the end from the host.
ImplementsCivilCommand == Civil!CommandSpec
=============================================================================
