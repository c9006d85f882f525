------------------- MODULE CommandContextAdmissionProofs -------------------
(***************************************************************************)
(* For any number of requests, and a host that calls nobody back between   *)
(* the completion of its awaiter and the plugin's answer: the result of a  *)
(* call is true of its body, nothing runs after its call has returned, and *)
(* the native backend implements CivilCommand.                             *)
(***************************************************************************)
EXTENDS CommandContextAdmission, TLAPS

\* What the call of a request knows of the swap and of the host.
CallInv ==
  \A r \in Request :
    /\ call[r] = "none" => stage[r] = "pending" /\ native[r] = "none"
    /\ call[r] = "returned" <=> result[r] # "none"
    /\ call[r] = "awaiting" => stage[r] \in Started
    /\ native[r] = "none" => scheduling[r] = "none"
    /\ scheduling[r] \in HostDone => native[r] = scheduling[r]
    /\ r \in signalled => native[r] \in HostDone

\* Who won the swap: an abandoned request was answered without a run, and one that
\* is pending has its callback until it is answered.
SwapInv ==
  \A r \in Request :
    /\ stage[r] = "abandoned" => result[r] \in NotRunResult
    /\ stage[r] = "pending" /\ native[r] # "none" =>
         call[r] # "returned" /\ r \in callback
    /\ stage[r] = "admitted" => r \in callback
    /\ result[r] \in NotRunResult => stage[r] \in {"abandoned", "pending"}
    /\ result[r] \in HostResult =>
         stage[r] = "exited" /\ (result[r] = "completed" <=> native[r] = "completed")
    /\ result[r] \in HostResult => native[r] \in HostDone

\* A started request is in the command context until the host completes it.
ContextInv ==
  \A r \in Request :
    /\ stage[r] \in {"admitted", "running"} => native[r] = "scheduled"
    /\ stage[r] \in Started /\ native[r] = "scheduled" => context = r
    /\ stage[r] \in Started => native[r] # "none"

NativeInv == NativeTypeOK /\ CallInv /\ SwapInv /\ ContextInv

-----------------------------------------------------------------------------
\* Nothing has been called.
LEMMA NativeInvInit == NativeInit => NativeInv
  BY DEF NativeInit, NativeInv, NativeTypeOK, CallInv, SwapInv, ContextInv, CallStage,
         Started, HostDone, NotRunResult, HostResult

\* The call and its bridge up to the race: they only read the host's completion.
LEMMA BridgeInv ==
  ASSUME NEW r \in Request, NativeInv,
         Schedule(r) \/ ScheduleCancelled(r) \/ CancelNative(r) \/ BridgeStep(r)
  PROVE  NativeInv'
  <1> USE DEF NativeInv, NativeTypeOK, callVars, nativeHostVars, CallStage, HostDone, GoTo
  <1>1. CASE Schedule(r)
    BY <1>1 DEF Schedule, CallInv, SwapInv, ContextInv, Started, NotRunResult, HostResult
  <1>2. CASE ScheduleCancelled(r)
    BY <1>2 DEF ScheduleCancelled, CallInv, SwapInv, ContextInv, Started, NotRunResult,
                HostResult
  <1>3. CASE CancelNative(r)
    BY <1>3 DEF CancelNative, CallInv, SwapInv, ContextInv
  <1>4. CASE ReadCompleted(r)
    BY <1>4 DEF ReadCompleted, CallInv, SwapInv, ContextInv
  <1>5. CASE RegisterContinuation(r) \/ RecheckCompleted(r)
    BY <1>5 DEF RegisterContinuation, RecheckCompleted, CallInv, SwapInv, ContextInv
  <1>6. CASE SchedulingEnds(r)
    BY <1>6 DEF SchedulingEnds, CallInv, SwapInv, ContextInv
  <1> QED
    BY <1>1, <1>2, <1>3, <1>4, <1>5, <1>6 DEF BridgeStep

\* The race: who loses the swap awaits the host, who wins it answers.
LEMMA RaceInv ==
  ASSUME NEW r \in Request, NativeInv, RaceStep(r)
  PROVE  NativeInv'
  <1> USE DEF NativeInv, NativeTypeOK, nativeHostVars, CallStage, GoTo
  <1>1. CASE CheckStarted(r) \/ KeepStarted(r)
    BY <1>1 DEF CheckStarted, KeepStarted, CallInv, SwapInv, ContextInv
  <1>2. ASSUME NEW task \in {"started", "scheduling", "deadline"}, Wake(r, task)
        PROVE  NativeInv'
    BY <1>2 DEF Wake, CallInv, SwapInv, ContextInv
  <1>3. CASE AbandonUnadmitted(r) \/ AbandonLate(r)
    <2> USE <1>3 DEF AbandonUnadmitted, AbandonLate, TryAbandon, NotRunResult
    <2>1. NativeTypeOK' /\ ContextInv'
      BY DEF ContextInv, Started
    <2>2. CallInv' /\ SwapInv'
      BY DEF CallInv, SwapInv, HostResult, Started
    <2> QED
      BY <2>1, <2>2
  <1>4. CASE AwaitScheduling(r)
    <2> USE <1>4 DEF AwaitScheduling, HostResult, HostDone
    <2>1. stage[r] = "exited" /\ native[r] = scheduling[r]
      BY DEF CallInv, ContextInv, Started
    <2>2. NativeTypeOK' /\ ContextInv'
      BY DEF ContextInv
    <2>3. CallInv' /\ SwapInv'
      BY <2>1 DEF CallInv, SwapInv, NotRunResult
    <2> QED
      BY <2>2, <2>3
  <1> QED
    BY <1>1, <1>2, <1>3, <1>4 DEF RaceStep

\* A callback is admitted by a host that has not completed, into an empty context.
LEMMA AdmittedInTime ==
  ASSUME NEW r \in Request, NativeInv, ~LateCallback, CallbackAdmitted(r)
  PROVE  native[r] = "scheduled" /\ call[r] # "returned" /\ r \in callback
  BY DEF NativeInv, SwapInv, CallbackAdmitted, MayCallBack, HostDone

\* The host's side.
LEMMA HostInv ==
  ASSUME NEW r \in Request, NativeInv, ~LateCallback,
         CallbackStep(r) \/ \E how \in HostDone : HostEnds(r, how)
  PROVE  NativeInv'
  <1> USE DEF NativeInv, NativeTypeOK, callVars, Started
  <1>1. CASE CallbackAdmitted(r)
    <2> USE <1>1 DEF CallbackAdmitted, MayCallBack
    <2>1. native[r] = "scheduled" /\ call[r] # "returned" /\ r \in callback
      BY AdmittedInTime
    <2>2. \A s \in Request : stage[s] \in Started => native[s] # "scheduled"
      BY NativeAssumption DEF ContextInv
    <2>3. NativeTypeOK' /\ ContextInv'
      BY <2>1, <2>2 DEF ContextInv
    <2>4. CallInv' /\ SwapInv'
      BY <2>1 DEF CallInv, SwapInv, NotRunResult, HostResult
    <2> QED
      BY <2>3, <2>4
  <1>2. CASE CallbackRefused(r)
    BY <1>2 DEF CallbackRefused, CallInv, SwapInv, ContextInv
  <1>3. CASE BodyStarts(r)
    <2> USE <1>3 DEF BodyStarts
    <2>1. r \in callback /\ native[r] = "scheduled"
      BY DEF SwapInv, ContextInv
    <2>2. NativeTypeOK' /\ ContextInv'
      BY <2>1 DEF ContextInv
    <2>3. CallInv' /\ SwapInv'
      BY <2>1 DEF CallInv, SwapInv, NotRunResult, HostResult
    <2> QED
      BY <2>2, <2>3
  <1>4. CASE BodyExits(r)
    <2> USE <1>4 DEF BodyExits, HostDone
    <2>1. native[r] = "scheduled"
      BY DEF ContextInv
    <2>2. NativeTypeOK' /\ ContextInv'
      BY <2>1 DEF ContextInv
    <2>3. CallInv' /\ SwapInv'
      BY <2>1 DEF CallInv, SwapInv, NotRunResult, HostResult
    <2> QED
      BY <2>2, <2>3
  <1>5. ASSUME NEW how \in HostDone, HostEnds(r, how) PROVE NativeInv'
    <2> USE <1>5 DEF HostEnds, HostDone
    <2>1. NativeTypeOK'
      BY NativeAssumption
    <2>2. ContextInv'
      BY DEF ContextInv
    <2>3. CallInv' /\ SwapInv'
      BY DEF CallInv, SwapInv
    <2> QED
      BY <2>1, <2>2, <2>3
  <1> QED
    BY <1>1, <1>2, <1>3, <1>4, <1>5 DEF CallbackStep

\* Every step preserves the invariant.
LEMMA NativeInvStep ==
  ASSUME ~LateCallback, NativeInv, [NativeNext]_nativeVars
  PROVE  NativeInv'
  <1>1. CASE NativeNext
    BY <1>1, BridgeInv, RaceInv, HostInv DEF NativeNext
  <1>2. CASE UNCHANGED nativeVars
    BY <1>2 DEF nativeVars, callVars, nativeHostVars, NativeInv, NativeTypeOK, CallInv,
                SwapInv, ContextInv
  <1> QED
    BY <1>1, <1>2

\* The invariant holds in every reachable state.
THEOREM NativeInvariant ==
  ASSUME ~LateCallback
  PROVE  NativeSpec => []NativeInv
  BY NativeInvInit, NativeInvStep, PTL DEF NativeSpec

-----------------------------------------------------------------------------
\* Whichever task ends the race and whoever wins the swap, the result of a call is
\* true of its body.
THEOREM NativeResultTrue ==
  ASSUME ~LateCallback
  PROVE  NativeSpec => []ResultTellsTheTruth
  <1>1. NativeInv => ResultTellsTheTruth
    BY DEF NativeInv, SwapInv, ResultTellsTheTruth, Started
  <1> QED
    BY <1>1, NativeInvariant, PTL

\* No body runs or starts after its call has returned.
THEOREM NativeReturnIsFinal ==
  ASSUME ~LateCallback
  PROVE  NativeSpec => []ReturnedIsOver
  <1>1. NativeInv => ReturnedIsOver
    BY DEF NativeInv, NativeTypeOK, CallInv, SwapInv, ReturnedIsOver
  <1> QED
    BY <1>1, NativeInvariant, PTL

\* The caller's clean-up never takes the callback of a request that was admitted.
THEOREM NativeCallbackKept ==
  ASSUME ~LateCallback
  PROVE  NativeSpec => []AdmittedKeepsCallback
  <1>1. NativeInv => AdmittedKeepsCallback
    BY DEF NativeInv, SwapInv, AdmittedKeepsCallback
  <1> QED
    BY <1>1, NativeInvariant, PTL

\* The variables of the calls and of the host keep their types.
THEOREM NativeTypeCorrect ==
  ASSUME ~LateCallback
  PROVE  NativeSpec => []NativeTypeOK
  <1>1. NativeInv => NativeTypeOK
    BY DEF NativeInv
  <1> QED
    BY <1>1, NativeInvariant, PTL

-----------------------------------------------------------------------------
(* The native backend implements CivilCommand.                             *)

NativeCommands == [r \in Request |-> NativeCommandOf(r)]

\* The variables the abstract command of a request depends on.
SameCommand(s) ==
  /\ stage'[s] = stage[s] /\ result'[s] = result[s] /\ native'[s] = native[s]
  /\ call'[s] = "none" <=> call[s] = "none"

\* A step that moves one request moves the abstract command of that request only.
LEMMA NativeMoves ==
  ASSUME NEW r \in Request, \A s \in Request \ {r} : SameCommand(s)
  PROVE  NativeCommands' = [NativeCommands EXCEPT ![r] = NativeCommandOf(r)']
  <1>1. ASSUME NEW s \in Request \ {r} PROVE NativeCommandOf(s)' = NativeCommandOf(s)
    <2>1. SameCommand(s)
      OBVIOUS
    <2> QED
      BY <2>1 DEF NativeCommandOf, SameCommand
  <1> QED
    BY <1>1 DEF NativeCommands

\* A step that moves no request leaves the abstract commands alone.
LEMMA NativeStays ==
  ASSUME \A s \in Request : SameCommand(s)
  PROVE  UNCHANGED NativeCommands
  BY DEF NativeCommands, NativeCommandOf, SameCommand

\* Scheduling is Submit; the rest of the bridge is invisible.
LEMMA BridgeRefines ==
  ASSUME NEW r \in Request, NativeInv,
         Schedule(r) \/ ScheduleCancelled(r) \/ CancelNative(r) \/ BridgeStep(r)
  PROVE  Civil!CommandNext \/ UNCHANGED <<NativeCommands, cancelled>>
  <1> USE DEF NativeInv, NativeTypeOK, callVars, nativeHostVars, GoTo
  <1>1. CASE Schedule(r)
    <2> USE <1>1 DEF Schedule
    <2>1. NativeCommandOf(r) = "none" /\ NativeCommandOf(r)' = "pending"
      BY DEF NativeCommandOf, CallInv
    <2>2. NativeCommands' = [NativeCommands EXCEPT ![r] = "pending"]
      BY <2>1, NativeMoves DEF SameCommand
    <2> QED
      BY <2>1, <2>2 DEF Civil!CommandNext, Civil!Submit, Civil!Advance, NativeCommands
  <1>2. CASE ScheduleCancelled(r)
    <2> USE <1>2 DEF ScheduleCancelled
    <2>1. NativeCommandOf(r) = "none" /\ NativeCommandOf(r)' = "cancelled"
      BY DEF NativeCommandOf, CallInv
    <2>2. NativeCommands' = [NativeCommands EXCEPT ![r] = "cancelled"]
      BY <2>1, NativeMoves DEF SameCommand
    <2>3. Civil!Abandon(r, "cancelled")
      BY <2>1, <2>2 DEF Civil!Abandon, Civil!Advance, NativeCommands
    <2> QED
      BY <2>3 DEF Civil!CommandNext, Civil!NotRun
  <1>3. CASE CancelNative(r)
    <2>1. UNCHANGED NativeCommands
      BY <1>3, NativeStays DEF CancelNative, SameCommand
    <2> QED
      BY <1>3, <2>1 DEF CancelNative, Civil!CommandNext, Civil!Cancel, NativeCommands
  <1>4. CASE BridgeStep(r)
    <2>1. \A s \in Request : SameCommand(s)
      BY <1>4 DEF BridgeStep, ReadCompleted, RegisterContinuation, RecheckCompleted,
                  SchedulingEnds, SameCommand
    <2>2. UNCHANGED cancelled
      BY <1>4 DEF BridgeStep, ReadCompleted, RegisterContinuation, RecheckCompleted,
                  SchedulingEnds
    <2> QED
      BY <2>1, <2>2, NativeStays
  <1> QED
    BY <1>1, <1>2, <1>3, <1>4

\* A call that wins the swap is Abandon; the rest of the race is invisible.
LEMMA RaceRefines ==
  ASSUME NEW r \in Request, NativeInv, RaceStep(r)
  PROVE  Civil!CommandNext \/ UNCHANGED <<NativeCommands, cancelled>>
  <1> USE DEF NativeInv, NativeTypeOK, nativeHostVars, GoTo
  <1>1. CASE AbandonUnadmitted(r) \/ AbandonLate(r)
    <2> DEFINE reason == result'[r]
    <2>1. /\ stage[r] = "pending" /\ call[r] = "woken" /\ stage'[r] = "abandoned"
          /\ \A s \in Request \ {r} : SameCommand(s)
          /\ UNCHANGED cancelled
          /\ reason \in NotRunResult
          /\ reason = "cancelled" => r \in cancelled
      BY <1>1 DEF AbandonUnadmitted, AbandonLate, TryAbandon, NotRunResult, SameCommand
    <2>2. NativeCommandOf(r) = "pending" /\ NativeCommandOf(r)' = reason
      BY <2>1 DEF NativeCommandOf, CallInv, NotRunResult
    <2>3. NativeCommands' = [NativeCommands EXCEPT ![r] = reason]
      BY <2>1, <2>2, NativeMoves
    <2>4. Civil!Abandon(r, reason)
      BY <2>1, <2>2, <2>3 DEF Civil!Abandon, Civil!Advance, NativeCommands
    <2> QED
      BY <2>1, <2>4 DEF Civil!CommandNext, Civil!NotRun, NotRunResult
  <1>2. CASE AwaitScheduling(r)
    <2>1. stage[r] \in Started /\ UNCHANGED <<stage, native, cancelled>>
      BY <1>2 DEF AwaitScheduling, CallInv
    <2>2. NativeCommandOf(r)' = NativeCommandOf(r)
      BY <2>1 DEF NativeCommandOf, Started
    <2>3. \A s \in Request \ {r} : SameCommand(s)
      BY <1>2 DEF AwaitScheduling, SameCommand
    <2> QED
      BY <2>1, <2>2, <2>3, NativeMoves DEF NativeCommands
  <1>3. CASE CheckStarted(r) \/ KeepStarted(r)
    BY <1>3, NativeStays DEF CheckStarted, KeepStarted, SameCommand
  <1>4. ASSUME NEW task \in {"started", "scheduling", "deadline"}, Wake(r, task)
        PROVE  UNCHANGED <<NativeCommands, cancelled>>
    BY <1>4, NativeStays DEF Wake, SameCommand
  <1> QED
    BY <1>1, <1>2, <1>3, <1>4 DEF RaceStep

\* An admitted callback is Start: the context is empty, so nobody is in a command.
\* The body's end is Exit and the host's completion of a started request is End.
LEMMA HostRefines ==
  ASSUME NEW r \in Request, NativeInv, ~LateCallback,
         CallbackStep(r) \/ \E how \in HostDone : HostEnds(r, how)
  PROVE  Civil!CommandNext \/ UNCHANGED <<NativeCommands, cancelled>>
  <1> USE DEF NativeInv, NativeTypeOK, callVars
  <1>1. CASE CallbackAdmitted(r)
    <2> USE <1>1 DEF CallbackAdmitted, MayCallBack
    <2>1. native[r] = "scheduled" /\ call[r] # "returned"
      BY AdmittedInTime
    <2>2. NativeCommandOf(r) = "pending" /\ NativeCommandOf(r)' = "running"
      BY <2>1 DEF NativeCommandOf, CallInv
    <2>3. NativeCommands' = [NativeCommands EXCEPT ![r] = "running"]
      BY <2>2, NativeMoves DEF SameCommand
    <2>4. ASSUME NEW s \in Request PROVE NativeCommandOf(s) \notin {"running", "exited"}
      BY NativeAssumption
         DEF ContextInv, NativeCommandOf, Started, HostDone, NotRunResult, HostResult
    <2>5. Civil!Start(r)
      BY <2>2, <2>3, <2>4
         DEF Civil!Start, Civil!Advance, Civil!InCommand, NativeCommands
    <2> QED
      BY <2>5 DEF Civil!CommandNext
  <1>2. CASE CallbackRefused(r)
    BY <1>2, NativeStays DEF CallbackRefused, SameCommand
  <1>3. CASE BodyStarts(r)
    <2>1. r \in callback /\ stage[r] = "admitted"
      BY <1>3 DEF BodyStarts, SwapInv
    <2>2. NativeCommandOf(r)' = NativeCommandOf(r)
      BY <1>3, <2>1 DEF BodyStarts, NativeCommandOf
    <2>3. \A s \in Request \ {r} : SameCommand(s)
      BY <1>3 DEF BodyStarts, SameCommand
    <2> QED
      BY <1>3, <2>2, <2>3, NativeMoves DEF BodyStarts, NativeCommands
  <1>4. CASE BodyExits(r)
    <2> USE <1>4 DEF BodyExits
    <2>1. NativeCommandOf(r) = "running" /\ NativeCommandOf(r)' = "exited"
      BY DEF NativeCommandOf, ContextInv
    <2>2. NativeCommands' = [NativeCommands EXCEPT ![r] = "exited"]
      BY <2>1, NativeMoves DEF SameCommand
    <2> QED
      BY <2>1, <2>2 DEF Civil!CommandNext, Civil!Exit, Civil!Advance, NativeCommands
  <1>5. ASSUME NEW how \in HostDone, HostEnds(r, how)
        PROVE  Civil!CommandNext \/ UNCHANGED <<NativeCommands, cancelled>>
    <2> USE <1>5 DEF HostEnds, HostDone
    <2>1. CASE stage[r] = "exited"
      <3> DEFINE end == IF how = "faulted" THEN "command_failed" ELSE "completed"
      <3>1. NativeCommandOf(r) = "exited" /\ NativeCommandOf(r)' = end
        BY <2>1 DEF NativeCommandOf
      <3>2. NativeCommands' = [NativeCommands EXCEPT ![r] = end]
        BY <3>1, NativeMoves DEF SameCommand
      <3>3. Civil!End(r, end)
        BY <3>1, <3>2 DEF Civil!End, Civil!Advance, NativeCommands
      <3> QED
        BY <3>3 DEF Civil!CommandNext, Civil!HostEnded
    <2>2. CASE stage[r] \in {"pending", "abandoned"}
      <3>1. NativeCommandOf(r)' = NativeCommandOf(r)
        BY <2>2 DEF NativeCommandOf
      <3>2. NativeCommands' = [NativeCommands EXCEPT ![r] = NativeCommandOf(r)]
        BY <3>1, NativeMoves DEF SameCommand
      <3> QED
        BY <3>2 DEF NativeCommands
    <2> QED
      BY <2>1, <2>2 DEF Started
  <1> QED
    BY <1>1, <1>2, <1>3, <1>4, <1>5 DEF CallbackStep

\* The native backend keeps the promise the rest of the plugin is built on.
THEOREM NativeImplementsCivilCommand ==
  ASSUME ~LateCallback
  PROVE  NativeSpec => NativeImplementsCommand
  <1>1. NativeInit => Civil!CommandInit
    BY DEF NativeInit, Civil!CommandInit, NativeCommandOf
  <1>2. ASSUME NativeInv, [NativeNext]_nativeVars
        PROVE  Civil!CommandNext \/ UNCHANGED <<NativeCommands, cancelled>>
    <2>1. CASE NativeNext
      BY <1>2, <2>1, BridgeRefines, RaceRefines, HostRefines DEF NativeNext
    <2>2. CASE UNCHANGED nativeVars
      BY <2>2, NativeStays DEF nativeVars, callVars, nativeHostVars, SameCommand
    <2> QED
      BY <1>2, <2>1, <2>2
  <1>3. ASSUME NativeInv, [NativeNext]_nativeVars
        PROVE  [Civil!CommandNext]_(Civil!commandVars)
    BY <1>2, <1>3 DEF Civil!commandVars, NativeCommands
  <1> QED
    BY <1>1, <1>3, NativeInvariant, PTL
       DEF NativeSpec, NativeImplementsCommand, Civil!CommandSpec
=============================================================================
