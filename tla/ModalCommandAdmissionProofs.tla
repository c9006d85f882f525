-------------------- MODULE ModalCommandAdmissionProofs --------------------
(***************************************************************************)
(* For any number of requests and documents: what the awaiting caller of   *)
(* the modal backend is told is true of the body, a body runs in the       *)
(* document its token was typed into, no handler is leaked, and the        *)
(* backend implements CivilCommand.                                        *)
(*                                                                         *)
(* The invariants are not inductive.  A request ends with the command that *)
(* ran it only because its handlers are still on the document of that      *)
(* command, which holds because its one token was typed there, which holds *)
(* because an unqueued request of the idle handler's snapshot is still     *)
(* awaited.  AdmissionInv adds these links.                                *)
(***************************************************************************)
EXTENDS ModalCommandAdmission, TLAPS

\* The decision taken under the lock of the request.
FateInv ==
  \A r \in Request :
    /\ r \in started => r \notin abandoned
    /\ r \in bodyExited => r \in started
    /\ r \in started => r \in queued
    /\ r \in abandoned => completion[r] \in AbandonReason
    /\ completion[r] \in AbandonReason => r \notin started
    /\ completion[r] \in HostReason => r \in bodyExited

\* What the table, the idle handler and the documents hold has been called and,
\* when it ended without a run, was abandoned.
CalledInv ==
  \A r \in Request :
    /\ \/ r \in requests \cup cleanup \cup toScan \cup queued
       \/ r \in abandoned
       \/ ui = "queueing" /\ uiRequest = r
       => /\ completion[r] # "none"
          /\ completion[r] \in AbandonReason => r \in abandoned
    /\ completion[r] = "pending" => r \in requests

\* A token is typed once, into the document its request is subscribed to.
TokenInv ==
  \A r \in Request :
    /\ r \in subscribed => r \in queued
    /\ document[r] # NoDocument => r \in subscribed
    /\ \A d \in Document :
         r \in typed[d] => /\ r \in queued
                           /\ r \in subscribed => document[r] = d
    /\ ui = "command" /\ uiRequest = r =>
         /\ r \in queued
         /\ r \in subscribed => document[r] = commandDocument

\* A started request that has not ended is inside its own command.
RunningInv ==
  /\ ui \in {"queueing", "command", "body"} => uiRequest \in Request
  /\ ui = "queueing" => activeDocument # NoDocument
  /\ ui = "body" => /\ uiRequest \in started
                    /\ uiRequest \notin bodyExited
                    /\ document[uiRequest] = activeDocument
                    /\ commandDocument = activeDocument
                    /\ uiRequest \in subscribed
  /\ \A r \in Request :
       /\ r \in started /\ r \notin bodyExited => ui = "body" /\ uiRequest = r
       /\ r \in started /\ completion[r] = "pending" =>
            /\ ui \in {"body", "ending"} /\ uiRequest = r
            /\ r \in subscribed /\ document[r] = commandDocument

AdmissionInv ==
  AdmissionTypeOK /\ FateInv /\ CalledInv /\ TokenInv /\ RunningInv /\ NoHandlerLeft

-----------------------------------------------------------------------------
\* Nothing has been called.
LEMMA AdmissionInvInit == AdmissionInit => AdmissionInv
  <1> SUFFICES ASSUME AdmissionInit PROVE AdmissionInv
    OBVIOUS
  <1> USE DEF AdmissionInit
  <1>1. AdmissionTypeOK
    BY DEF AdmissionTypeOK, CompletionState, UiState
  <1>2. FateInv
    BY DEF FateInv, AbandonReason, HostReason
  <1>3. CalledInv /\ NoHandlerLeft
    BY DEF CalledInv, NoHandlerLeft
  <1>4. TokenInv /\ RunningInv
    BY DEF TokenInv, RunningInv
  <1> QED
    BY <1>1, <1>2, <1>3, <1>4 DEF AdmissionInv

\* The steps of the pool and of the timer only move a request that has not
\* started, whose abandonment they decide, or that has ended.
LEMMA PoolStepInv ==
  ASSUME NEW r \in Request, AdmissionInv, PoolStep(r)
  PROVE  AdmissionInv'
  <1> USE DEF AdmissionInv, AdmissionTypeOK, FateInv, CalledInv, TokenInv, RunningInv,
              NoHandlerLeft, requestVars, hostVars, uiVars
  <1>1. CASE Call(r)
    BY <1>1 DEF Call, CompletionState, AbandonReason, HostReason
  <1>2. CASE CallCancelled(r)
    BY <1>2 DEF CallCancelled, CompletionState, AbandonReason, HostReason
  <1>3. CASE Deadline(r)
    BY <1>3 DEF Deadline, Abandon, CanAbandon, CompletionState, AbandonReason, HostReason
  <1>4. CASE CancelCallback(r)
    BY <1>4
       DEF CancelCallback, Abandon, CanAbandon, CompletionState, AbandonReason, HostReason
  <1>5. CASE Return(r)
    BY <1>5 DEF Return
  <1> QED
    BY <1>1, <1>2, <1>3, <1>4, <1>5 DEF PoolStep

\* What the idle handler puts on a document is still in the table: the request is
\* of the snapshot and not abandoned, so it is awaited.
LEMMA OfferedIsAwaited ==
  ASSUME NEW r \in Request, AdmissionInv, CanQueue(r),
         r \in toScan \/ (ui = "queueing" /\ uiRequest = r)
  PROVE  completion[r] = "pending" /\ r \in requests /\ r \notin started
  <1>1. completion[r] # "none" /\ completion[r] \notin AbandonReason
    BY DEF AdmissionInv, CalledInv, CanQueue
  <1>2. r \notin started /\ r \notin bodyExited
    BY DEF AdmissionInv, FateInv, CanQueue
  <1>3. completion[r] \notin HostReason
    BY <1>2 DEF AdmissionInv, FateInv
  <1>4. completion[r] = "pending"
    BY <1>1, <1>3 DEF AdmissionInv, AdmissionTypeOK, CompletionState
  <1> QED
    BY <1>2, <1>4 DEF AdmissionInv, CalledInv

\* Each iteration of the idle handler's loop, Queue included.
LEMMA IdleStepInv ==
  ASSUME NEW r \in Request, AdmissionInv, IdleStep(r)
  PROVE  AdmissionInv'
  <1> USE DEF AdmissionInv, AdmissionTypeOK, requestVars, hostVars, uiVars, ResumeScan,
              UiState
  <1>1. CASE ScanSkip(r)
    BY <1>1 DEF ScanSkip, FateInv, CalledInv, TokenInv, RunningInv, NoHandlerLeft
  <1>2. CASE ScanNoDrawing(r)
    BY <1>2 DEF ScanNoDrawing, Abandon, CanAbandon, CompletionState, AbandonReason,
                HostReason, FateInv, CalledInv, TokenInv, RunningInv, NoHandlerLeft
  <1>3. CASE ScanOffer(r)
    BY <1>3 DEF ScanOffer, FateInv, CalledInv, TokenInv, RunningInv, NoHandlerLeft
  <1>4. CASE QueueLate(r)
    BY <1>4 DEF QueueLate, FateInv, CalledInv, TokenInv, RunningInv, NoHandlerLeft
  <1>5. CASE QueueSend(r)
    <2> USE <1>5 DEF QueueSend
    <2>1. completion[r] = "pending" /\ r \in requests /\ r \notin started
      BY OfferedIsAwaited
    <2>2. AdmissionTypeOK'
      BY DEF RunningInv
    <2>3. FateInv' /\ CalledInv' /\ NoHandlerLeft'
      BY <2>1 DEF FateInv, CalledInv, NoHandlerLeft, AbandonReason
    <2>4. TokenInv'
      BY DEF TokenInv, RunningInv, CanQueue
    <2>5. RunningInv'
      BY <2>1 DEF RunningInv
    <2> QED
      BY <2>2, <2>3, <2>4, <2>5
  <1>6. CASE QueueFails(r)
    <2> USE <1>6 DEF QueueFails, Abandon, CanAbandon
    <2>1. completion[r] = "pending" /\ r \in requests /\ r \notin started
      BY OfferedIsAwaited
    <2>2. AdmissionTypeOK'
      BY DEF RunningInv, CompletionState, AbandonReason
    <2>3. FateInv' /\ CalledInv' /\ NoHandlerLeft'
      BY <2>1 DEF FateInv, CalledInv, NoHandlerLeft, AbandonReason, HostReason
    <2>4. TokenInv'
      BY DEF TokenInv, RunningInv, CanQueue
    <2>5. RunningInv'
      BY <2>1 DEF RunningInv
    <2> QED
      BY <2>2, <2>3, <2>4, <2>5
  <1> QED
    BY <1>1, <1>2, <1>3, <1>4, <1>5, <1>6 DEF IdleStep

\* Detaching what has returned disturbs no request that is still pending.
LEMMA OnIdleInv ==
  ASSUME AdmissionInv, OnIdle
  PROVE  AdmissionInv'
  <1> USE DEF AdmissionInv, AdmissionTypeOK, OnIdle, Detached, ResumeScan, hostVars
  <1>1. AdmissionTypeOK'
    BY DEF UiState
  <1>2. FateInv' /\ CalledInv' /\ NoHandlerLeft'
    BY DEF FateInv, CalledInv, NoHandlerLeft
  <1>3. TokenInv' /\ RunningInv'
    BY DEF TokenInv, RunningInv
  <1> QED
    BY <1>1, <1>2, <1>3 DEF AdmissionInv

\* A request that may run is pending, and its command is one of the document its
\* token was typed into.
LEMMA RunnableIsPending ==
  ASSUME NEW r \in Request, AdmissionInv, Runnable(r)
  PROVE  /\ completion[r] = "pending"
         /\ r \in queued /\ r \notin bodyExited
         /\ r \in subscribed => document[r] = commandDocument
  <1>1. completion[r] # "none" /\ completion[r] \notin AbandonReason
    BY DEF AdmissionInv, CalledInv, Runnable
  <1>2. completion[r] \notin HostReason /\ r \notin bodyExited
    BY DEF AdmissionInv, FateInv, Runnable
  <1>3. completion[r] = "pending"
    BY <1>1, <1>2 DEF AdmissionInv, AdmissionTypeOK, CompletionState
  <1> QED
    BY <1>2, <1>3 DEF AdmissionInv, TokenInv, Runnable

\* The command reads a token and starts, or refuses, its request.
LEMMA RunStepInv ==
  ASSUME NEW r \in Request, AdmissionInv,
         RunStep(r) \/ \E d \in Document : ReadToken(d, r)
  PROVE  AdmissionInv'
  <1> USE DEF AdmissionInv, AdmissionTypeOK, requestVars, hostVars, UiState
  <1>1. CASE RunMismatch(r)
    BY <1>1, RunnableIsPending
       DEF RunMismatch, Runnable, Abandon, CanAbandon, CompletionState, AbandonReason,
           HostReason, FateInv, CalledInv, TokenInv, RunningInv, NoHandlerLeft
  <1>2. CASE RunStart(r)
    <2> USE <1>2 DEF RunStart, Runnable
    <2>1. /\ completion[r] = "pending"
          /\ r \in queued /\ r \notin bodyExited
          /\ r \in subscribed => document[r] = commandDocument
      BY RunnableIsPending
    <2>2. r \in subscribed
      BY DEF TokenInv
    <2>3. FateInv' /\ CalledInv' /\ NoHandlerLeft'
      BY <2>1 DEF FateInv, CalledInv, NoHandlerLeft, AbandonReason
    <2>4. TokenInv'
      BY DEF TokenInv
    <2>5. RunningInv'
      BY <2>1, <2>2 DEF RunningInv
    <2> QED
      BY <2>3, <2>4, <2>5
  <1>3. ASSUME NEW d \in Document, ReadToken(d, r) PROVE AdmissionInv'
    <2> USE <1>3 DEF ReadToken
    <2>1. TokenInv'
      BY DEF TokenInv
    <2>2. FateInv' /\ CalledInv' /\ RunningInv' /\ NoHandlerLeft'
      BY DEF FateInv, CalledInv, RunningInv, NoHandlerLeft
    <2> QED
      BY <2>1, <2>2
  <1> QED
    BY <1>1, <1>2, <1>3 DEF RunStep

\* The body ends inside its command; the request stays pending.
LEMMA RunExitInv ==
  ASSUME NEW r \in Request, NEW throws \in BOOLEAN, AdmissionInv, RunExit(r, throws)
  PROVE  AdmissionInv'
  <1> USE DEF AdmissionInv, RunExit, hostVars
  <1>1. AdmissionTypeOK'
    BY DEF AdmissionTypeOK, UiState
  <1>2. FateInv' /\ CalledInv' /\ NoHandlerLeft'
    BY DEF FateInv, CalledInv, NoHandlerLeft, RunningInv
  <1>3. TokenInv' /\ RunningInv'
    BY DEF TokenInv, RunningInv
  <1> QED
    BY <1>1, <1>2, <1>3

\* The end of a command completes the request it ran, if it ran one, and no
\* started request is left pending.
LEMMA CommandEndsInv ==
  ASSUME NEW failed \in BOOLEAN, AdmissionInv, CommandEnds(failed)
  PROVE  AdmissionInv'
  <1> USE DEF AdmissionInv, AdmissionTypeOK, CommandEnds, Detached, Hears, hostVars
  <1>1. AdmissionTypeOK'
    BY DEF EndResult, CompletionState, HostReason, UiState
  <1>2. FateInv' /\ CalledInv' /\ NoHandlerLeft'
    BY DEF FateInv, CalledInv, NoHandlerLeft, EndResult, AbandonReason, HostReason
  <1>3. TokenInv'
    BY DEF TokenInv
  <1>4. RunningInv'
    <2>1. ASSUME NEW r \in Request, r \in started
          PROVE  r \in bodyExited /\ completion'[r] # "pending"
      BY <2>1 DEF RunningInv, FateInv, EndResult
    <2> QED
      BY <2>1 DEF RunningInv
  <1> QED
    BY <1>1, <1>2, <1>3, <1>4

\* The client and the user touch nothing that the invariant rests on while the UI
\* thread is busy.
LEMMA OthersInv ==
  ASSUME AdmissionInv,
         RunNothing \/ UserStep \/ \E r \in Request : CancelToken(r)
  PROVE  AdmissionInv'
  <1> USE DEF AdmissionInv, AdmissionTypeOK, FateInv, CalledInv, TokenInv, RunningInv,
              NoHandlerLeft, requestVars, hostVars, uiVars
  <1>1. CASE RunNothing
    BY <1>1 DEF RunNothing, UiState
  <1>2. ASSUME NEW d \in Document \cup {NoDocument}, ActivateDocument(d)
        PROVE  AdmissionInv'
    BY <1>2 DEF ActivateDocument
  <1>3. ASSUME NEW d \in Document, DiscardInput(d) PROVE AdmissionInv'
    BY <1>3 DEF DiscardInput
  <1>4. CASE ToggleQuiescent
    BY <1>4 DEF ToggleQuiescent
  <1>5. ASSUME NEW r \in Request, CancelToken(r) PROVE AdmissionInv'
    BY <1>5 DEF CancelToken
  <1> QED
    BY <1>1, <1>2, <1>3, <1>4, <1>5 DEF UserStep

\* Every step preserves the invariant.
LEMMA AdmissionInvStep == AdmissionInv /\ [AdmissionNext]_admissionVars => AdmissionInv'
  <1> SUFFICES ASSUME AdmissionInv, [AdmissionNext]_admissionVars PROVE AdmissionInv'
    OBVIOUS
  <1>1. ASSUME NEW r \in Request, AdmissionStep(r) PROVE AdmissionInv'
    BY <1>1, PoolStepInv, IdleStepInv, RunStepInv DEF AdmissionStep
  <1>2. ASSUME NEW r \in Request, NEW throws \in BOOLEAN, RunExit(r, throws)
        PROVE  AdmissionInv'
    BY <1>2, RunExitInv
  <1>3. ASSUME NEW failed \in BOOLEAN, CommandEnds(failed) PROVE AdmissionInv'
    BY <1>3, CommandEndsInv
  <1>4. CASE UNCHANGED admissionVars
    BY <1>4 DEF admissionVars, requestVars, hostVars, uiVars, AdmissionInv,
                AdmissionTypeOK, FateInv, CalledInv, TokenInv, RunningInv, NoHandlerLeft
  <1> QED
    BY <1>1, <1>2, <1>3, <1>4, OnIdleInv, OthersInv DEF AdmissionNext

\* The invariant holds in every reachable state.
THEOREM AdmissionInvariant == AdmissionSpec => []AdmissionInv
  BY AdmissionInvInit, AdmissionInvStep, PTL DEF AdmissionSpec

-----------------------------------------------------------------------------
\* The table, the per-request flags and the UI thread keep their types.
THEOREM AdmissionTypeCorrect == AdmissionSpec => []AdmissionTypeOK
  <1>1. AdmissionInv => AdmissionTypeOK
    BY DEF AdmissionInv
  <1> QED
    BY <1>1, AdmissionInvariant, PTL

\* However the timer, the client and the UI thread race for a request, it is
\* started or abandoned and never both.
THEOREM FateIsOne == AdmissionSpec => []OneFate
  <1>1. AdmissionInv => OneFate
    BY DEF AdmissionInv, AdmissionTypeOK, FateInv, OneFate
  <1> QED
    BY <1>1, AdmissionInvariant, PTL

\* What the caller of a request is told is true of the body.
THEOREM CallerToldTheTruth == AdmissionSpec => []CompletionTellsTheTruth
  <1>1. AdmissionInv => CompletionTellsTheTruth
    BY DEF AdmissionInv, FateInv, CompletionTellsTheTruth
  <1> QED
    BY <1>1, AdmissionInvariant, PTL

\* Whatever documents the user activates, a body runs in the one its token was
\* typed into.
THEOREM BodyInItsDocument == AdmissionSpec => []BodyRunsInItsDocument
  <1>1. AdmissionInv => BodyRunsInItsDocument
    BY DEF AdmissionInv, RunningInv, BodyRunsInItsDocument
  <1> QED
    BY <1>1, AdmissionInvariant, PTL

\* A handler stays on a document only while its request is awaited or its removal
\* is queued.
THEOREM HandlersAreRemoved == AdmissionSpec => []NoHandlerLeft
  <1>1. AdmissionInv => NoHandlerLeft
    BY DEF AdmissionInv
  <1> QED
    BY <1>1, AdmissionInvariant, PTL

\* The end of a command completes the request it ran and no other, though every
\* request subscribed to the document hears of it.
LEMMA HeardIsOwn ==
  ASSUME NEW r \in Request, AdmissionInv, Hears(r), completion[r] = "pending"
  PROVE  uiRequest = r
  BY DEF AdmissionInv, RunningInv, Hears

\* A request is completed only by the end of the command that ran it.
THEOREM EndsItsOwnRequest == AdmissionSpec => CompletedByOwnCommand
  <1> DEFINE OwnEnd ==
        \A r \in Request :
          completion[r] = "pending" /\ completion'[r] \in HostReason =>
            ui = "ending" /\ uiRequest = r
  <1>1. ASSUME AdmissionInv, [AdmissionNext]_admissionVars PROVE [OwnEnd]_admissionVars
    <2> SUFFICES ASSUME NEW r \in Request,
                        completion[r] = "pending", completion'[r] \in HostReason
                 PROVE  ui = "ending" /\ uiRequest = r
      OBVIOUS
    <2> USE <1>1 DEF AdmissionInv, AdmissionTypeOK
    <2>1. completion'[r] \notin AbandonReason \cup {"none", "pending"}
      BY DEF HostReason, AbandonReason
    <2>2. ASSUME NEW s \in Request, AdmissionStep(s) PROVE FALSE
      BY <2>1, <2>2
         DEF AdmissionStep, PoolStep, IdleStep, RunStep, Call, CallCancelled, Deadline,
             CancelCallback, Return, ScanSkip, ScanNoDrawing, ScanOffer, QueueLate,
             QueueSend, QueueFails, ReadToken, RunMismatch, RunStart, Abandon,
             AbandonReason, requestVars
    <2>3. CASE \E failed \in BOOLEAN : CommandEnds(failed)
      BY <2>1, <2>3, HeardIsOwn DEF CommandEnds
    <2>4. CASE UNCHANGED completion
      BY <2>1, <2>4
    <2>5. OnIdle \/ RunNothing \/ UserStep \/ UNCHANGED admissionVars
            => UNCHANGED completion
      BY DEF OnIdle, RunNothing, UserStep, ActivateDocument, DiscardInput,
             ToggleQuiescent, admissionVars, requestVars
    <2>6. ASSUME NEW s \in Request, NEW throws \in BOOLEAN,
                 CancelToken(s) \/ RunExit(s, throws)
          PROVE  UNCHANGED completion
      BY <2>6 DEF CancelToken, RunExit, requestVars
    <2> QED
      BY <2>2, <2>3, <2>4, <2>5, <2>6 DEF AdmissionNext
  <1> QED
    BY <1>1, AdmissionInvariant, PTL DEF AdmissionSpec, CompletedByOwnCommand

-----------------------------------------------------------------------------
(* The modal backend implements CivilCommand.                              *)

Commands == [r \in Request |-> CommandOf(r)]

\* A step that moves the state of one request moves its abstract command only.
LEMMA CommandMoves ==
  ASSUME NEW r \in Request,
         \A s \in Request \ {r} :
           /\ completion'[s] = completion[s]
           /\ s \in started' <=> s \in started
           /\ s \in bodyExited' <=> s \in bodyExited
  PROVE  Commands' = [Commands EXCEPT ![r] = CommandOf(r)']
  BY DEF Commands, CommandOf

\* A step that leaves these alone moves no abstract command.
LEMMA CommandStays ==
  ASSUME UNCHANGED <<completion, started, bodyExited>>
  PROVE  UNCHANGED Commands
  BY DEF Commands, CommandOf

\* Abandoning an awaited request is the abstract Abandon, with the same reason.
LEMMA AbandonRefines ==
  ASSUME NEW r \in Request, NEW reason \in AbandonReason, AdmissionInv,
         Abandon(r, reason), completion[r] = "pending",
         UNCHANGED <<started, bodyExited, cancelled>>,
         reason = "cancelled" => r \in cancelled
  PROVE  Civil!CommandNext
  <1> USE DEF Abandon, CanAbandon, AdmissionInv, AdmissionTypeOK
  <1>1. CommandOf(r) = "pending"
    BY DEF CommandOf, FateInv
  <1>2. CommandOf(r)' = reason
    BY DEF CommandOf, AbandonReason
  <1>3. Commands' = [Commands EXCEPT ![r] = reason]
    BY <1>2, CommandMoves
  <1>4. Civil!Abandon(r, reason)
    BY <1>1, <1>3 DEF Civil!Abandon, Civil!Advance, Commands
  <1> QED
    BY <1>4 DEF Civil!CommandNext, Civil!NotRun, AbandonReason

\* A request in the table that can be abandoned is awaited.
LEMMA AbandonableIsPending ==
  ASSUME NEW r \in Request, AdmissionInv, CanAbandon(r), r \in requests \cup toScan
  PROVE  completion[r] = "pending"
  BY DEF AdmissionInv, AdmissionTypeOK, CompletionState, FateInv, CalledInv, CanAbandon

\* A step of the pool, of the timers and of the client.
LEMMA PoolStepRefines ==
  ASSUME NEW r \in Request, AdmissionInv, PoolStep(r) \/ CancelToken(r)
  PROVE  Civil!CommandNext \/ UNCHANGED <<Commands, cancelled>>
  <1> USE DEF AdmissionInv, AdmissionTypeOK, uiVars, hostVars, requestVars
  <1>1. CASE Call(r)
    <2> USE <1>1 DEF Call
    <2>1. CommandOf(r) = "none" /\ CommandOf(r)' = "pending"
      BY DEF CommandOf, CalledInv, FateInv
    <2>2. Commands' = [Commands EXCEPT ![r] = "pending"]
      BY <2>1, CommandMoves
    <2> QED
      BY <2>1, <2>2 DEF Civil!CommandNext, Civil!Submit, Civil!Advance, Commands
  <1>2. CASE CallCancelled(r)
    <2> USE <1>2 DEF CallCancelled
    <2>1. CommandOf(r) = "none" /\ CommandOf(r)' = "cancelled"
      BY DEF CommandOf
    <2>2. Commands' = [Commands EXCEPT ![r] = "cancelled"]
      BY <2>1, CommandMoves
    <2>3. Civil!Abandon(r, "cancelled")
      BY <2>1, <2>2 DEF Civil!Abandon, Civil!Advance, Commands
    <2> QED
      BY <2>3 DEF Civil!CommandNext, Civil!NotRun
  <1>3. CASE Deadline(r)
    <2>1. Abandon(r, "timeout") /\ CanAbandon(r)
      BY <1>3 DEF Deadline, Abandon
    <2> QED
      BY <1>3, <2>1, AbandonableIsPending, AbandonRefines DEF Deadline, AbandonReason
  <1>4. CASE CancelCallback(r)
    <2>1. Abandon(r, "cancelled") /\ CanAbandon(r)
      BY <1>4 DEF CancelCallback, Abandon
    <2> QED
      BY <1>4, <2>1, AbandonableIsPending, AbandonRefines
         DEF CancelCallback, AbandonReason
  <1>5. CASE Return(r)
    BY <1>5, CommandStays DEF Return
  <1>6. CASE CancelToken(r)
    BY <1>6, CommandStays DEF CancelToken, Civil!CommandNext, Civil!Cancel, Commands
  <1> QED
    BY <1>1, <1>2, <1>3, <1>4, <1>5, <1>6 DEF PoolStep

\* The idle handler abandons a request, or leaves the abstract command alone.
LEMMA IdleStepRefines ==
  ASSUME NEW r \in Request, AdmissionInv, IdleStep(r)
  PROVE  Civil!CommandNext \/ UNCHANGED <<Commands, cancelled>>
  <1> USE DEF requestVars
  <1>1. CASE ScanNoDrawing(r)
    <2>1. CASE CanAbandon(r)
      BY <1>1, <2>1, AbandonableIsPending, AbandonRefines
         DEF ScanNoDrawing, AbandonReason
    <2>2. CASE ~CanAbandon(r)
      BY <1>1, <2>2, CommandStays DEF ScanNoDrawing
    <2> QED
      BY <2>1, <2>2
  <1>2. CASE QueueFails(r)
    <2>1. completion[r] = "pending" /\ Abandon(r, "send_failed")
      BY <1>2, OfferedIsAwaited DEF QueueFails
    <2> QED
      BY <1>2, <2>1, AbandonRefines DEF QueueFails, AbandonReason
  <1>3. CASE ScanSkip(r) \/ ScanOffer(r) \/ QueueLate(r) \/ QueueSend(r)
    BY <1>3, CommandStays DEF ScanSkip, ScanOffer, QueueLate, QueueSend
  <1> QED
    BY <1>1, <1>2, <1>3 DEF IdleStep

\* No other request is inside its command while the UI thread reads a token.
LEMMA AloneOnUiThread ==
  ASSUME AdmissionInv, ui = "command", NEW s \in Request
  PROVE  CommandOf(s) \notin {"running", "exited"}
  BY DEF AdmissionInv, AdmissionTypeOK, CompletionState, AbandonReason, HostReason,
         FateInv, RunningInv, CommandOf

\* The modal command starts its request, abandons it, or does nothing.
LEMMA RunStepRefines ==
  ASSUME NEW r \in Request, AdmissionInv,
         RunStep(r) \/ \E d \in Document : ReadToken(d, r)
  PROVE  Civil!CommandNext \/ UNCHANGED <<Commands, cancelled>>
  <1>1. CASE RunMismatch(r)
    <2>1. completion[r] = "pending" /\ Abandon(r, "mismatch")
      BY <1>1, RunnableIsPending DEF RunMismatch
    <2> QED
      BY <1>1, <2>1, AbandonRefines DEF RunMismatch, AbandonReason
  <1>2. CASE RunStart(r)
    <2> USE <1>2 DEF RunStart, Runnable
    <2>1. completion[r] = "pending" /\ r \notin bodyExited
      BY RunnableIsPending
    <2>2. CommandOf(r) = "pending" /\ CommandOf(r)' = "running"
      BY <2>1 DEF CommandOf
    <2>3. Commands' = [Commands EXCEPT ![r] = "running"]
      BY <2>2, CommandMoves
    <2>4. \A s \in Request : Commands[s] \notin Civil!InCommand
      BY AloneOnUiThread DEF Commands, Civil!InCommand
    <2>5. Civil!Start(r)
      BY <2>2, <2>3, <2>4 DEF Civil!Start, Civil!Advance, Commands
    <2> QED
      BY <2>5 DEF Civil!CommandNext
  <1>3. CASE \E d \in Document : ReadToken(d, r)
    BY <1>3, CommandStays DEF ReadToken, requestVars
  <1> QED
    BY <1>1, <1>2, <1>3 DEF RunStep

\* The body's end is the abstract Exit.
LEMMA RunExitRefines ==
  ASSUME NEW r \in Request, NEW throws \in BOOLEAN, AdmissionInv, RunExit(r, throws)
  PROVE  Civil!CommandNext
  <1> USE DEF RunExit, AdmissionInv, AdmissionTypeOK
  <1>1. completion[r] = "pending" /\ r \in started /\ r \notin bodyExited
    BY DEF RunningInv, FateInv, CompletionState, CalledInv
  <1>2. CommandOf(r) = "running" /\ CommandOf(r)' = "exited"
    BY <1>1 DEF CommandOf
  <1>3. Commands' = [Commands EXCEPT ![r] = "exited"]
    BY <1>2, CommandMoves
  <1> QED
    BY <1>2, <1>3 DEF Civil!CommandNext, Civil!Exit, Civil!Advance, Commands

\* The host's event is the abstract End of the request it completes.
LEMMA CommandEndsRefines ==
  ASSUME NEW failed \in BOOLEAN, AdmissionInv, CommandEnds(failed)
  PROVE  Civil!CommandNext \/ UNCHANGED <<Commands, cancelled>>
  <1> USE DEF CommandEnds, AdmissionInv, AdmissionTypeOK
  <1>1. CASE \A r \in Request : ~(Hears(r) /\ completion[r] = "pending")
    BY <1>1, CommandStays
  <1>2. ASSUME NEW r \in Request, Hears(r), completion[r] = "pending"
        PROVE  Civil!CommandNext
    <2>1. \A s \in Request \ {r} : completion'[s] = completion[s]
      BY <1>2, HeardIsOwn
    <2>2. CommandOf(r) = "exited"
      BY <1>2 DEF CommandOf, Hears
    <2>3. completion'[r] = EndResult(r, failed) /\ EndResult(r, failed) \in HostReason
      BY <1>2 DEF EndResult, HostReason
    <2>4. CommandOf(r)' = EndResult(r, failed)
      BY <2>3 DEF CommandOf, HostReason
    <2>5. Commands' = [Commands EXCEPT ![r] = EndResult(r, failed)]
      BY <2>1, <2>4, CommandMoves
    <2>6. Civil!End(r, EndResult(r, failed))
      BY <2>2, <2>5 DEF Civil!End, Civil!Advance, Commands
    <2> QED
      BY <2>3, <2>6 DEF Civil!CommandNext, Civil!HostEnded, HostReason
  <1> QED
    BY <1>1, <1>2

\* The modal backend implements the promise the rest of the plugin is built on.
THEOREM ModalImplementsCivilCommand == AdmissionSpec => ImplementsCivilCommand
  <1>1. AdmissionInit => Civil!CommandInit
    BY DEF AdmissionInit, Civil!CommandInit, CommandOf
  <1>2. ASSUME AdmissionInv, [AdmissionNext]_admissionVars
        PROVE  Civil!CommandNext \/ UNCHANGED <<Commands, cancelled>>
    <2>1. ASSUME NEW r \in Request, AdmissionStep(r) \/ CancelToken(r)
          PROVE  Civil!CommandNext \/ UNCHANGED <<Commands, cancelled>>
      BY <1>2, <2>1, PoolStepRefines, IdleStepRefines, RunStepRefines DEF AdmissionStep
    <2>2. ASSUME NEW r \in Request, NEW throws \in BOOLEAN, RunExit(r, throws)
          PROVE  Civil!CommandNext
      BY <1>2, <2>2, RunExitRefines
    <2>3. CASE \E failed \in BOOLEAN : CommandEnds(failed)
      BY <1>2, <2>3, CommandEndsRefines
    <2>4. CASE OnIdle \/ RunNothing \/ UserStep \/ UNCHANGED admissionVars
      <3>1. UNCHANGED <<completion, started, bodyExited, cancelled>>
        BY <2>4 DEF OnIdle, RunNothing, UserStep, ActivateDocument, DiscardInput,
                    ToggleQuiescent, admissionVars, requestVars
      <3> QED
        BY <3>1, CommandStays
    <2> QED
      BY <1>2, <2>1, <2>2, <2>3, <2>4 DEF AdmissionNext
  <1>3. ASSUME AdmissionInv, [AdmissionNext]_admissionVars
        PROVE  [Civil!CommandNext]_(Civil!commandVars)
    BY <1>2, <1>3 DEF Civil!commandVars, Commands
  <1> QED
    BY <1>1, <1>3, AdmissionInvariant, PTL
       DEF AdmissionSpec, ImplementsCivilCommand, Civil!CommandSpec
=============================================================================
