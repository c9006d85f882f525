---------------------- MODULE CommandContextAdmission ----------------------
(***************************************************************************)
(* The native backend.  A pool thread hands the host a callback and bridges*)
(* the host's awaiter, whose completion may be missed, to a task of its    *)
(* own; then it races the callback's start, that task and a deadline.  The *)
(* callback and the caller decide the race with a compare-and-swap on the  *)
(* request.                                                                *)
(*                                                                         *)
(* The host is external: it enters its command context for one request at  *)
(* a time, and completes the awaiter of a request after its callback       *)
(* returned, or without calling it.  It may call back later than that; with*)
(* LateCallback even before the plugin has noticed.                        *)
(***************************************************************************)
EXTENDS Naturals

CONSTANTS Request, NoRequest, LateCallback

ASSUME NativeAssumption ==
  /\ NoRequest \notin Request
  /\ LateCallback \in BOOLEAN

VARIABLES
  call,       \* where ExecuteAsync and the ScheduleAsync it calls are
  winner,     \* which task ended WhenAny
  result,     \* how the call ended
  scheduling, \* schedulingTask
  signalled,  \* requests whose nativeCompletion is set
  stage,      \* _state of the Admission and, once started, where its body is
  callback,   \* requests with _callback
  cancelled,  \* requests whose client token is cancelled
  native,     \* the host's ExecutionResult
  registered, \* requests whose continuation the host has and will call
  delivered,  \* requests the host has called back
  context     \* the request inside the host's command context

callVars == <<call, winner, result, scheduling>>
nativeHostVars == <<native, registered, delivered, context>>
nativeVars == <<callVars, signalled, stage, callback, cancelled, nativeHostVars>>

CallStage == {"none", "bridging", "registering", "rechecking", "checking",
              "racing", "woken", "awaiting", "returned"}

\* ScheduleAsync has not yet come to its await.
Bridging == {"bridging", "registering", "rechecking"}

Started == {"admitted", "running", "exited"}

HostDone == {"completed", "faulted"}

NotRunResult == {"cancelled", "timeout", "send_failed"}
HostResult == {"completed", "command_failed"}

NativeInit ==
  /\ call = [r \in Request |-> "none"]
  /\ winner = [r \in Request |-> "none"]
  /\ result = [r \in Request |-> "none"]
  /\ scheduling = [r \in Request |-> "none"]
  /\ signalled = {}
  /\ stage = [r \in Request |-> "pending"]
  /\ callback = {}
  /\ cancelled = {}
  /\ native = [r \in Request |-> "none"]
  /\ registered = {} /\ delivered = {}
  /\ context = NoRequest

-----------------------------------------------------------------------------
(* ExecuteAsync up to the race, with the completion bridge.                *)

GoTo(r, next) == call' = [call EXCEPT ![r] = next]

\* The Admission is made and ExecuteInCommandContextAsync called; if that throws,
\* ScheduleAsync fails as it does when the host faults at once.
Schedule(r) ==
  /\ call[r] = "none" /\ r \notin cancelled
  /\ GoTo(r, "bridging")
  /\ scheduling' = [scheduling EXCEPT ![r] = "running"]
  /\ native' = [native EXCEPT ![r] = "scheduled"]
  /\ callback' = callback \cup {r}
  /\ UNCHANGED <<winner, result, signalled, stage, cancelled, registered, delivered,
                 context>>

\* ThrowIfCancellationRequested.
ScheduleCancelled(r) ==
  /\ call[r] = "none" /\ r \in cancelled
  /\ GoTo(r, "returned")
  /\ result' = [result EXCEPT ![r] = "cancelled"]
  /\ UNCHANGED <<winner, scheduling, signalled, stage, callback, cancelled, nativeHostVars>>

\* IsCompleted is read: the result is taken at once, or a continuation is needed.
ReadCompleted(r) ==
  /\ call[r] = "bridging"
  /\ IF native[r] \in HostDone
       THEN /\ GoTo(r, "checking")
            /\ scheduling' = [scheduling EXCEPT ![r] = native[r]]
       ELSE GoTo(r, "registering") /\ UNCHANGED scheduling
  /\ UNCHANGED <<winner, result, signalled, stage, callback, cancelled, nativeHostVars>>

\* OnCompleted: the host forgets a continuation that comes after its completion.
RegisterContinuation(r) ==
  /\ call[r] = "registering"
  /\ GoTo(r, "rechecking")
  /\ registered' = IF native[r] \in HostDone THEN registered ELSE registered \cup {r}
  /\ UNCHANGED <<winner, result, scheduling, signalled, stage, callback, cancelled,
                 native, delivered, context>>

\* Faulty variant of RecheckCompleted: the completion is not read a second time.
RecheckNothing(r) ==
  /\ call[r] = "rechecking"
  /\ GoTo(r, "checking")
  /\ UNCHANGED <<winner, result, scheduling, signalled, stage, callback, cancelled,
                 nativeHostVars>>

\* IsCompleted is read again: a completion that was missed signals the bridge.
RecheckCompleted(r) ==
  /\ call[r] = "rechecking"
  /\ GoTo(r, "checking")
  /\ signalled' = IF native[r] \in HostDone THEN signalled \cup {r} ELSE signalled
  /\ UNCHANGED <<winner, result, scheduling, stage, callback, cancelled, nativeHostVars>>

\* ScheduleAsync resumes from the bridge and takes the host's result.
SchedulingEnds(r) ==
  /\ scheduling[r] = "running" /\ call[r] \notin Bridging
  /\ r \in signalled
  /\ scheduling' = [scheduling EXCEPT ![r] = native[r]]
  /\ UNCHANGED <<call, winner, result, signalled, stage, callback, cancelled,
                 nativeHostVars>>

-----------------------------------------------------------------------------
(* The race.                                                               *)

\* HasStarted before the race.
CheckStarted(r) ==
  /\ call[r] = "checking"
  /\ GoTo(r, IF stage[r] \in Started THEN "awaiting" ELSE "racing")
  /\ UNCHANGED <<winner, result, scheduling, signalled, stage, callback, cancelled,
                 nativeHostVars>>

\* WhenAny.  The deadline's task also ends when the client's token is cancelled.
Wake(r, task) ==
  /\ call[r] = "racing"
  /\ task = "started" => stage[r] \in {"running", "exited"}
  /\ task = "scheduling" => scheduling[r] \in HostDone
  /\ GoTo(r, "woken")
  /\ winner' = [winner EXCEPT ![r] = task]
  /\ UNCHANGED <<result, scheduling, signalled, stage, callback, cancelled, nativeHostVars>>

\* HasStarted after the race, or TryAbandon has lost the swap.
KeepStarted(r) ==
  /\ call[r] = "woken" /\ stage[r] \in Started
  /\ GoTo(r, "awaiting")
  /\ UNCHANGED <<winner, result, scheduling, signalled, stage, callback, cancelled,
                 nativeHostVars>>

\* Faulty variant of TryAbandon: the state is set without looking at it.
AbandonAnyway(r, reason) ==
  /\ stage' = [stage EXCEPT ![r] = "abandoned"]
  /\ callback' = callback \ {r}
  /\ result' = [result EXCEPT ![r] = reason]

\* The swap from Pending to Abandoned succeeds and the call ends with the reason.
TryAbandon(r, reason) ==
  /\ stage[r] = "pending"
  /\ stage' = [stage EXCEPT ![r] = "abandoned"]
  /\ callback' = callback \ {r}
  /\ result' = [result EXCEPT ![r] = reason]

\* The host ended without calling back.
AbandonUnadmitted(r) ==
  /\ call[r] = "woken" /\ winner[r] = "scheduling"
  /\ TryAbandon(r, IF scheduling[r] = "faulted" THEN "send_failed" ELSE "timeout")
  /\ GoTo(r, "returned")
  /\ UNCHANGED <<winner, scheduling, signalled, cancelled, nativeHostVars>>

\* The deadline, or the client.
AbandonLate(r) ==
  /\ call[r] = "woken" /\ winner[r] # "scheduling"
  /\ TryAbandon(r, IF r \in cancelled THEN "cancelled" ELSE "timeout")
  /\ GoTo(r, "returned")
  /\ UNCHANGED <<winner, scheduling, signalled, cancelled, nativeHostVars>>

\* Faulty variant of AwaitScheduling: a cancelled client is answered at once.
AwaitUntilCancelled(r) ==
  /\ call[r] = "awaiting"
  /\ scheduling[r] \in HostDone \/ r \in cancelled
  /\ GoTo(r, "returned")
  /\ result' = [result EXCEPT ![r] =
                  IF scheduling[r] = "faulted" THEN "command_failed" ELSE "completed"]
  /\ callback' = callback \ {r}
  /\ UNCHANGED <<winner, scheduling, signalled, stage, cancelled, nativeHostVars>>

\* await schedulingTask, and the finally block, which drops the callback.
AwaitScheduling(r) ==
  /\ call[r] = "awaiting"
  /\ scheduling[r] \in HostDone
  /\ GoTo(r, "returned")
  /\ result' = [result EXCEPT ![r] =
                  IF scheduling[r] = "faulted" THEN "command_failed" ELSE "completed"]
  /\ callback' = callback \ {r}
  /\ UNCHANGED <<winner, scheduling, signalled, stage, cancelled, nativeHostVars>>

CancelNative(r) ==
  /\ r \notin cancelled
  /\ cancelled' = cancelled \cup {r}
  /\ UNCHANGED <<callVars, signalled, stage, callback, nativeHostVars>>

-----------------------------------------------------------------------------
(* The host, on its UI thread, and InvokeAsync.                            *)

MayCallBack(r) ==
  /\ r \notin delivered
  /\ context = NoRequest
  /\ \/ native[r] = "scheduled"
     \/ native[r] \in HostDone /\ (LateCallback \/ call[r] = "returned")

\* InvokeAsync wins the swap from Pending to Started.
CallbackAdmitted(r) ==
  /\ MayCallBack(r)
  /\ stage[r] = "pending"
  /\ stage' = [stage EXCEPT ![r] = "admitted"]
  /\ delivered' = delivered \cup {r}
  /\ context' = r
  /\ UNCHANGED <<callVars, signalled, callback, cancelled, native, registered>>

\* InvokeAsync of an abandoned request does nothing.
CallbackRefused(r) ==
  /\ MayCallBack(r)
  /\ stage[r] = "abandoned"
  /\ callback' = callback \ {r}
  /\ delivered' = delivered \cup {r}
  /\ UNCHANGED <<callVars, signalled, stage, cancelled, native, registered, context>>

\* The callback is taken, _started is set and the body runs, if it was not cleared.
BodyStarts(r) ==
  /\ stage[r] = "admitted"
  /\ stage' = [stage EXCEPT ![r] = IF r \in callback THEN "running" ELSE "exited"]
  /\ callback' = callback \ {r}
  /\ context' = IF r \notin callback /\ native[r] \in HostDone THEN NoRequest ELSE context
  /\ UNCHANGED <<callVars, signalled, cancelled, native, registered, delivered>>

\* The body keeps its exceptions, so the callback's task always succeeds.
BodyExits(r) ==
  /\ stage[r] = "running"
  /\ stage' = [stage EXCEPT ![r] = "exited"]
  /\ context' = IF native[r] \in HostDone THEN NoRequest ELSE context
  /\ UNCHANGED <<callVars, signalled, callback, cancelled, native, registered, delivered>>

\* The host completes its awaiter and calls the continuation it was given.
HostEnds(r, how) ==
  /\ native[r] = "scheduled"
  /\ stage[r] \notin {"admitted", "running"}
  /\ native' = [native EXCEPT ![r] = how]
  /\ signalled' = IF r \in registered THEN signalled \cup {r} ELSE signalled
  /\ context' = IF context = r THEN NoRequest ELSE context
  /\ UNCHANGED <<callVars, stage, callback, cancelled, registered, delivered>>

-----------------------------------------------------------------------------
BridgeStep(r) ==
  \/ ReadCompleted(r) \/ RegisterContinuation(r) \/ RecheckCompleted(r)
  \/ SchedulingEnds(r)

RaceStep(r) ==
  \/ CheckStarted(r) \/ KeepStarted(r) \/ AbandonUnadmitted(r) \/ AbandonLate(r)
  \/ AwaitScheduling(r)
  \/ \E task \in {"started", "scheduling", "deadline"} : Wake(r, task)

CallbackStep(r) ==
  CallbackAdmitted(r) \/ CallbackRefused(r) \/ BodyStarts(r) \/ BodyExits(r)

NativeNext ==
  \E r \in Request :
    \/ Schedule(r) \/ ScheduleCancelled(r) \/ CancelNative(r)
    \/ BridgeStep(r) \/ RaceStep(r) \/ CallbackStep(r)
    \/ \E how \in HostDone : HostEnds(r, how)

\* A call goes on, the deadline fires, a body ends and the host completes a command
\* whose callback returned.  It need not call back, nor complete without that.
NativeFairness ==
  \A r \in Request :
    /\ WF_nativeVars(BridgeStep(r))
    /\ WF_nativeVars(RaceStep(r))
    /\ WF_nativeVars(BodyStarts(r) \/ BodyExits(r))
    /\ WF_nativeVars(stage[r] = "exited" /\ \E how \in HostDone : HostEnds(r, how))

NativeSpec == NativeInit /\ [][NativeNext]_nativeVars /\ NativeFairness

-----------------------------------------------------------------------------
NativeTypeOK ==
  /\ call \in [Request -> CallStage]
  /\ winner \in [Request -> {"none", "started", "scheduling", "deadline"}]
  /\ result \in [Request -> {"none"} \cup NotRunResult \cup HostResult]
  /\ scheduling \in [Request -> {"none", "running"} \cup HostDone]
  /\ signalled \subseteq Request
  /\ stage \in [Request -> {"pending", "abandoned"} \cup Started]
  /\ callback \subseteq Request
  /\ cancelled \subseteq Request
  /\ native \in [Request -> {"none", "scheduled"} \cup HostDone]
  /\ registered \subseteq Request /\ delivered \subseteq Request
  /\ context \in Request \cup {NoRequest}

\* A call that ends without a run has not started and will not; one that ends with
\* the host's result has run to its end and the result is the host's, whichever
\* task won the race and whoever won the swap.
ResultTellsTheTruth ==
  \A r \in Request :
    /\ result[r] \in NotRunResult => stage[r] \notin Started
    /\ result[r] \in HostResult =>
         stage[r] = "exited" /\ (result[r] = "completed" <=> native[r] = "completed")

\* A call whose callback is admitted has not dropped it: what is admitted runs.
AdmittedKeepsCallback == \A r \in Request : stage[r] = "admitted" => r \in callback

\* What is returned is over: no body starts or runs after its call has returned.
ReturnedIsOver ==
  \A r \in Request : call[r] = "returned" => stage[r] \notin {"admitted", "running"}

\* A callback that arrives after a fault is a no-op (the comment in ExecuteAsync):
\* no body runs in the host once its call has reported the fault and returned.
FaultedCallIsOver ==
  \A r \in Request :
    native[r] = "faulted" /\ call[r] = "returned" => stage[r] # "running"

\* Every call returns: before the start by the deadline, after it by the host, whose
\* completion is not missed wherever it falls between the reads of the bridge.
NativeCallReturns == \A r \in Request : call[r] = "bridging" ~> call[r] = "returned"

-----------------------------------------------------------------------------
\* Where a request is for CivilCommand: the host's completion ends its command.
NativeCommandOf(r) ==
  IF stage[r] \in {"pending", "abandoned"}
    THEN IF result[r] # "none" THEN result[r]
         ELSE IF call[r] = "none" THEN "none" ELSE "pending"
  ELSE IF stage[r] # "exited" THEN "running"
  ELSE IF native[r] = "faulted" THEN "command_failed"
  ELSE IF native[r] = "completed" THEN "completed" ELSE "exited"

Civil == INSTANCE CivilCommand WITH command <- [r \in Request |-> NativeCommandOf(r)]

\* The native backend keeps the promise of CivilCommand.
NativeImplementsCommand == Civil!CommandSpec
=============================================================================
