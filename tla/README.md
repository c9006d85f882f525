# Verification of civil3d-mcp-roslyn

TLA+ models of the control of the plugin and the MCP server, model-checked with
TLC, and theorems about them proved with TLAPS.  `PROJECT.json` lists the
components, the runs, the seeded faults every property is tested against, the
source lines each definition stands for, the hazards and the theorems.

    tlc -config MCGuards.cfg MCGuards
    tlapm GuardProofs.tla

## The system

An MCP server (Node, `src/src`) offers `civil3d_query`, `civil3d_execute` and
`civil3d_skills`.  It chooses a running Civil 3D instance, opens one TCP
connection per command to the plugin (`src/plugin/Civil3dMcpPlugin`) loaded
there, and turns the plugin's error codes into structured errors.  The plugin
runs one C# script at a time on the host's UI thread.

    executeTool / queryTool -> ConnectionManager -> SocketClient
        | one connection, one JSON-RPC frame each way
    RpcTcpServer -> PluginRuntime.HandleRawRequestAsync
        |- getCivil3DHealth, apiLookup ------------- answered beside the gate
        |- IdempotencyRegistry.Reserve                 keyed writes only
        '- SerializedOperationGate.EnterAsync
             '- CommandDispatcher -> CivilExecution
                  '- ModalCommandAdmission (or CommandContextAdmission)
                       '- host command: guard, lock, transaction, script,
                          commit, dispose, save

| Component | State | Operations | Hard behaviour | What makes it correct |
|---|---|---|---|---|
| Operation gate | semaphore, waiting count, active flag, name | enter, refuse, activate, abort, exit | permit and status change in separate steps, cancelled waits, no FIFO | one holder, permit never lost, exact status |
| Idempotency registry | key table, completion order | reserve, complete, release | retries while the first runs, eviction at 256 | a remembered key is completed once, none is left in progress |
| Modal backend | table of requests, flags under a lock, event handlers, typed tokens | execute, idle, run, abandon, end, detach | pool threads, timers, UI thread and user race | runs or is abandoned, never both; completed by its own command's end |
| Native backend | scheduling task, start state, completion bridge | schedule, invoke, abandon | lost continuation, late callback | the same promise |
| Request handling and execution | one handler per connection; captured exception, commit flag | reserve ... settle, the body | failure at every stage, cancellation at every stage | the answer is true, the write happens once, nothing is left held |
| TCP server, socket client | buffers, pending response, timers, peer-close watch | read, answer, watch, stop; connect, send, receive, time out, disconnect | time-out against answer against end against error; frames in any pieces; death of either process | settled once and truly; both ends let go; cancelled only when given up |
| Connection manager | none of its own: endpoint records, probes of one call | read records, probe, read identities, decide, connect | records of crashed sessions, ports that are reused, sessions that start, stop and switch drawings meanwhile | an unguarded call is never sent on a guess; a guarded one reaches its drawing |
| Endpoint registration, entry | the server, its port, a record file | start with port fallback, stop, crash | failure or probe between listener, record and port | a record names a listening server |
| MCP tools, structured errors, audit | calls in flight | refuse, resolve, select, send, answer, log | several calls on one event loop, a skill file edited meanwhile, an exception nobody classified | `not_started` only when true; one true event per accepted call |
| Skills tool | none: the files are read on every call | list, search, get, bind by name | files change between two pages or between get and run | walks lose and repeat nothing they need not; binding replaces only initialisers |
| Script executor | LRU cache, ambient token | cache, compile, run | cache limit, time-out against cancellation, one text compiled twice | bounded, consistent cache; no commit after a cancelled script |
| Result serializer | active references, node count | convert | cycles, sharing, each limit at its edge | converts exactly what it should, cuts with a note |
| Progress, observer | process-wide handler, lock-free event fields | start, match, expire, dispose, read | exception threads, timer, caller and reader, no lock among them | one end, nothing left subscribed, a coherent report |
| API lookup, benchmark tools, recipes | | | | no control of the running system |

## The modules

| Module | Models | How |
|---|---|---|
| `ExclusiveResource` | what the gate promises | `Take`, `Give` |
| `SerializedOperationGate` | `SerializedOperationGate.cs` | one action per lock block and per semaphore operation; `gatePc` is where a caller is in `EnterAsync` or `Exit` |
| `IdempotencyRegistry` | `IdempotencyRegistry.cs` | every public operation is one lock block, so one action; the history `evicted` remembers whose key was forgotten |
| `CivilCommand` | what a backend promises | a request ends without a run, or runs once and alone and ends with its host command |
| `ModalCommandAdmission` | `ModalCommandAdmission.cs` | the request's flags as sets of requests; `ui` is the one UI thread; the host and its user are external actions |
| `CommandContextAdmission` | `CommandContextAdmission.cs` | `call` is where `ExecuteAsync` and its bridge are, `stage` the swapped state of the request and its body; `native` and `context` are the host |
| `StructuredError` | `structuredError.ts` | `Outcome(code)`, `Result`, `ForeignError`: what a caller is told |
| `PluginRuntime` | `PluginRuntime.cs`, `CommandDispatcher.cs`, `CivilExecution.cs`, `RoslynExecutor.cs` | instances of the gate, the registry and `CivilCommand`; `phase` is where a handler is, `body` where `ExecuteBody` is |
| `RpcConnection` | `SocketClient.ts`, `withDirectConnection`, `RpcTcpServer.cs` | one connection, both ends; a frame is a count of body bytes and a delimiter, any non-empty part may arrive as one chunk; `told` is what each promise settled with |
| `InstanceSelection` | `ConnectionManager.ts`, `instanceSelection.ts`, `EndpointRegistration.cs`, start and stop in `PluginRuntime.cs` | sessions with `server`, `port`, `record`, `drawing`; one call with `stage`, what it has read and probed and what it chose |
| `SkillCatalog` | list and search of `skillsTool.ts` | skills are numbers in sorted order; a cursor is an offset and its filters; files come and go between pages |
| `SkillBinding` | `skillBinding.ts`, get of `skillsTool.ts` | a template is a sequence of tokens; get, an edit and a run by name |
| `CodeTools` | `executeTool.ts`, `queryTool.ts`, `scriptSource.ts`, `operationAudit.ts` | calls in flight, the skill files they read, the log they write; selection and connection are their outcomes |
| `ScriptCache` | `ScriptCache.cs` and its use in `RoslynExecutor.cs` | dictionary and list of recency; lookup and addition are two lock sections |
| `CompletionObserver` | `FirstChanceCompletionObserver.cs`, the first-chance fields of `OperationProgress.cs` | one action per interlocked or volatile access; `work` is what each thread, the timer and the caller are doing to an observer |
| `ResultTraversal` | `ResultSerializer.cs` | the depth-first walk with its stack (`frames`), compared with a definition by unfolding (`Level`, `Acceptable`) |
| `MC...` | | instances for TLC |
| `GuardProofs`, `ServerToolsProofs`, `ExecutionPartsProofs`, other `...Proofs` | | theorems and proofs: of the gate and the registry; of `SkillCatalog`, `CodeTools` and `SkillBinding`; of `ScriptCache`, `ResultTraversal` and `CompletionObserver`; of the module they are named after |

`PluginRuntime` composes the gate and the registry as they are and the backend
by its promise: both backends implement `CivilCommand` (checked in their runs and
proved for every instance), so what holds of the plugin over `CivilCommand`
holds over either.  Each action of `PluginRuntime` is one atomic piece of a
handler (what happens between two awaits) or of the body (what happens between
two calls that may fail); it conjoins the action of the component it calls.

The two halves of the system meet in what one promises the other.
`RpcConnection` takes from `PluginRuntime` that a handler answers, with or without
having run the caller's code, or is dropped once cancelled; `CodeTools` takes the same, and from
`RpcConnection` and `InstanceSelection` the codes with which they end.  A product
of all of them would be out of TLC's reach and show nothing the parts do not.

Definitions whose comment begins "Faulty variant" are no part of a
specification: each is the code with a plausible mistake, and the property named
with it in `PROJECT.json` fails when it replaces the original.

### Reading the models against the code

- `SemaphoreSlim` may admit any waiter.  A cancelled wait takes no permit.
- An entry that fails between the permit and the lock block of `EnterAsync`
  (`SerializedOperationGate.cs:62-67`: the allocation of the progress record) gives
  the permit back, but its `catch` block leaves it counted as waiting
  (`StrandCount`): the waiting count stays one too high for good.  The history
  `stranded` counts such entries, and the properties say that nothing else puts
  the count off.  It is only reported, never decided on.
- The registry's `Complete` throws if its reservation is not active; that it
  never is inactive is `ReservationOwnsEntry`.
- In the modal backend `_sync` makes `Abandon`, `Queue`, `Run` and `End` atomic.
  `Queue` subscribes and types outside the lock; nothing else touches
  what it changes before the next UI step, so it is one action.  The idle handler
  is split at every point where a pool thread can intervene.
- A token is typed once; the host may read it at any later time or never; Escape
  or closing a document discards it.  The user may switch documents or start a
  command of their own whenever the plugin's code is not running.  The host
  ends one command before the next begins.
- The modal backend's `_started`, `_abandoned`, completion and event
  subscription determine the stage of `CivilCommand`: see `CommandOf`.
- In the native backend every read of a task or of the swapped state that another
  thread can invalidate is a step.  The host forgets a continuation that is
  registered after its completion, as the comment in `ScheduleAsync` reports.
  `LateCallback` lets the host call back after its completion and before the
  plugin has answered; without it, it may do so only after the answer.  The
  model may stop (each request is called once), so its run does not ask for the
  absence of deadlock; `NativeCallReturns` says that no call hangs.
- In `PluginRuntime` the body asks for the active drawing once and may find any,
  or none.  A script ends by a value, an exception, its time-out or, when its
  client is gone, the caller's cancellation, before or after its first
  statement.  `Commit` and `Save` may throw.  Results in text are reduced to
  their codes.
- `Cancel` covers both the peer-close watch and the server's stop.
- `DisposeMayThrow` lets the transaction or the document lock throw from `Dispose`
  after the commit.  `writes` sets it FALSE, for the divergence below.
- In `RpcConnection` the client is one event loop, so each of its callbacks is one
  action; the plugin's side is split at every await.  Either process may die, the
  server may stop, and another program may have the port.  A handler may answer any
  code, an error or a result, without having run the caller's code
  (`AnswerWithoutRun`: input, compilation, sandbox, drawing, a health call) or
  after it (`StartWork`, `EndWork`).  An operation may go on to a second
  command after its first was refused as too large (`SendAfterRefusal`).
- In `CodeTools` the files of a skill or a script are read before anything is sent,
  and reading them may fail in a way nobody classified (`Resolve`): the call is
  then told `unknown`, and there is no audit event.
- In `InstanceSelection` a probe is one step, taken when its answer is computed,
  and may be lost.  Paths and fingerprints are compared, never built.
- In `CompletionObserver` an exception that does not match changes nothing and is
  left out; `_handling` is per thread and only stops a thread from looking at what
  its own handler raises.
- In `ResultTraversal` an endless sequence is one with more items than the limit:
  the walk never asks for a second one past it.

## What is checked

| Run | Shows | Bounds |
|---|---|---|
| `guards` | the gate: an honest status, progress, implements `ExclusiveResource`; the registry: a completed key is forgotten only when the table is full, the oldest first | 3 callers that come again without end: a holder, a waiter and one that is cancelled or fails, the most that interact; 2 entries that fail before the lock block; 7 requests, 4 keys, capacity 2: a retry, a conflict, a keyless write, and evictions of one key after the other, each followed by a reuse |
| `modal_backend` | truthful completion, no handler leaked, every call returns, implements `CivilCommand` | 2 requests (one abandoned whose token arrives late, one live), 2 documents and none |
| `native_backend` | truthful results, every call returns, so no completion is missed by the bridge, implements `CivilCommand` | 2 requests: one in the command context, one that waits, is abandoned or is called back late |
| `late_callback` | fails, see below | as `native_backend`, `LateCallback = TRUE` |
| `writes` | the gate is held to the host's end; answers are true; the write happens once unless its key was evicted | a keyed saving write, its retry and a second key, capacity 1; 2 documents |
| `refusals` | what is told `not_started` has not run and will not; success is durable; nothing is left held | 5 requests refused at each stage, the drawing untitled, `Dispose` may throw |
| `progress` | every handler ends | 2 requests: the waiter needs the other's end |
| `native_fault` | fails, see below | a keyed saving write, its retry and a drawing query, native backend |
| `connection` | `not_started` and answers are true, both ends measure alike, work given up ends | 3 commands in any order, one after another or at once, one too large; answered with and without a run; answers of 1 to 3 bytes against a limit of 2, so below, at and above it, in all pieces |
| `selection` | guarded and unguarded calls reach what they should or fail closed | 3 sessions, one without records, 2 drawings, 3 ports, 2 records read, 2 changes during a call: as many as a session needs to stop and another to take its port |
| `mcp_tools` | what a walk over pages gives, whose cursor is honoured; only initialisers change, types are kept, "run by name" is true, of an edited file as it then is; audit, refusal of writes and outcome are true | 4 skills with pages of 1 and 2, so that an edit falls before, on and after the cursor; each form of declaration, each JSON type, numbers at and past `IntMax` and `SafeMax`; 2 calls of any kind at once, every ending |
| `execution_parts` | the last used scripts are kept; a value is converted exactly if the definition accepts it, cuts are reported; no subscription stays, an event is of its operation, the report is coherent | 2 executors, 4 texts, capacity 2; all 80000 values of two containers of any kind, up to 3 children, over a list of one item, with depth 2, 2 items, 5 nodes, so that each limit is met and passed; 2 operations, 2 exception threads |

Components that share no state are checked in one run: a behaviour of
`MCGuards`, `MCServerTools` and `MCExecutionParts` starts by choosing one of its
parts and leaves the others alone.  `MCGuards` guards the gate's fairness with
that choice, so that it says nothing of the registry's behaviours.

A type invariant, or another property a theorem states for every value of the
constants, has no run of its own: `GateTypeOK`, `MutualExclusion`,
`WaitingCountExact`, `RegistryTypeOK`, `ReservationOwnsEntry`,
`NoKeyLeftInProgress`, `EvictionListExact`, `CompletedIsRemembered`,
`OncePerRememberedKey`, `AdmissionTypeOK`, `OneFate`, `BodyRunsInItsDocument`,
`CompletedByOwnCommand`, `NativeTypeOK`, `ReturnedIsOver`,
`AdmittedKeepsCallback`, `RuntimeTypeOK`,
`ConnectionTypeOK`, `CancelledOnlyIfGivenUp`, `SettledOnce`, `SelectionTypeOK`,
`ChosenWasAlive`, `CatalogTypeOK`, `WalkIsComplete`, `RemovalsRepeatNothing`,
`CursorIsBound`, `CacheTypeOK`, `ScriptIsOfItsText`, `NewestIsKept`,
`ObserverTypeOK` and `TerminalIsFinal`.

Beside the runs stand configurations for questions they leave open:
`ScriptCache.cfg` (dictionary and list agree, the newest compilation is kept),
`MCObserverThreads.cfg` (ends are final, the subscription ends),
`MCConnectionSingle.cfg` (each side of a connection ends; a transport error has a
cause) and `MCSelectionSettles.cfg` (every call ends).  `MCObserverThreads.cfg` and
`MCObserverDispose.cfg` are for the module `CompletionObserver` itself, every other
configuration for the module its component's run names.

Requests, commands and calls are handled once, so the counters are bounded by
their number.  Two bounds are artificial: `MaxChanges`, on what the sessions do
during a call, and `StrandedLimit`, on the entries into the gate that fail before
its lock block (2 in `guards` and `progress`, 0 in the larger runs of the plugin, where
`NothingIsLeft` proves for every limit what they check).  `Capacity` stands for 256 idempotency keys and for the script
cache's limit, `BodyLimit` for the frame limit, `MaxRecords` for 64.

**Fairness.**  The gate: a caller that has begun to enter or leave goes on (the
lease is held by a `using`), and the semaphore serves some waiter.  Nobody need
be first, so `GateMovesOn` promises progress of the queue and not of one
waiter.  The modal backend: the timer fires, an await resumes, a command that
was read runs, ends its body and is ended by the host; nothing is assumed of the
user or of the typed token, so `CallReturns` rests on the 15 s deadline.  The
native backend: the same, and a registered continuation is called; the host need
not call back.
`PluginRuntime`: each handler, body and backend goes on; that scripts end rests
on the script time-out, and that the host ends its commands is assumed,
as the README of the repository says it must be ("Long single Civil API calls
cannot be interrupted").
`RpcConnection`: each side's loop goes on and the command timer fires; nothing is
assumed of the peer, so `GivenUpWorkEnds` rests on the watch.  `InstanceSelection`: the call goes on (a probe that
gets no answer ends by its time-out); the sessions owe nothing.  `CompletionObserver`:
the threads run and the timer fires; the native call need never return, so
`SubscriptionEnds` rests on the timer alone, as the comment at
`CommandContextAdmission.cs:41` says.

**Divergences.**  `native_fault` shows that with
`CIVIL3D_MCP_EXECUTION_BACKEND=native` a host fault after the commit releases
the idempotency key: `CivilExecution.cs:183` hands the backend no commit flag,
`PluginRuntime.cs:210` takes the fault for an uncommitted failure, and a retry
commits again.  The modal backend passes the flag
(`ModalCommandAdmission.cs:148`), and `writes` shows it suffices.  The
repository's README, line 196: "A duplicate is rejected as in-progress,
conflicting, or already committed".

`late_callback` shows the window before the mark of abandonment.  The host fails
its awaiter and then calls back.  If `InvokeAsync` wins the swap (line 281) before
the call reads `HasStarted` (line 55, or 73) or swaps itself (line 83), and takes
the callback (line 287) before the `finally` block (lines 112-115) clears it, the
call awaits a task that has already failed, answers with the failure, gives gate
and key back, and the body runs in the host meanwhile and afterwards.
`FaultedCallIsOver` is violated in just that state: the host has failed the
awaiter, the call has returned, the body is running.  A callback that has won the
swap but finds its callback cleared runs nothing and does not count.  The comment
at `CommandContextAdmission.cs:81`: "A native callback that arrives after a fault must
remain a no-op."  Whether Civil 3D ever does this is not known; the repository's
test of a late callback delivers it after the answer.

The other divergences have a configuration each, which TLC finds violated, and
no run.  In the runs they are the cases a property or an input excludes.

- `MCRuntimeDispose.cfg`: a `Dispose` that throws after the commit
  (`CivilExecution.cs:97`) is captured without the commit flag, and the retry of
  the committed write commits again.  Whether the host's `Dispose` can throw is
  outside this repository, so the hazard has no run.  `writes` has it not throw, `refusals` and `progress`
  let it throw.
- `MCConnectionRefusal.cfg`: `sendCommand` empties the response buffer for every
  refused command (`SocketClient.ts:393`), also between two chunks of another
  one's answer.  No operation of the repository sends a second command while one
  is pending.
- `MCSelectionPortReuse.cfg`, `MCSelectionStarting.cfg`, `MCSelectionStale.cfg`: a
  session that was probed may be replaced on its port before the call connects
  (`ConnectionManager.ts:164`); a session that is starting reports port 8080
  whatever it listens on (`PluginRuntime.cs:83`); records of crashed sessions
  displace the record of a live one (`ConnectionManager.ts:222`).  In each an
  unguarded call runs in a session its caller did not mean.  A call with
  `expectedDrawing` is refused by the plugin.
- `MCSkillCatalogLong.cfg`: a long query gives out a cursor the next call refuses
  (`skillsTool.ts:277`).  The queries of `mcp_tools` are short.
- `MCSkillBindingDuplicate.cfg`: a parameter that is listed twice is replaced
  twice, the second time with offsets of the text before (`skillBinding.ts:102`).
- `MCSkillBindingLong.cfg`: a whole number too large for an int that a template
  gives a `var` is taken for an int (`skillBinding.ts:165`), so the variable of a
  run has another C# type than the template's.
- `MCObserverDispose.cfg`: `Dispose` may return before the exception thread that won
  the observer has unsubscribed it (`FirstChanceCompletionObserver.cs:135`);
  `NothingStaysSubscribed` shows that this is harmless.
- `MCResultDictionary.cfg`: the repository's README promises that a collection of
  more than 1000 items keeps its first 1000; a dictionary of that size is refused
  (`ResultSerializer.cs:213`).

## What is proved

| Theorem | Says, for every value of the constants |
|---|---|
| `GateTypeCorrect`, `GateMutualExclusion`, `GateCountExact`, `GateStatusExact` | type; one holder and conservation of the permit; exact waiting count, but for the entries that failed before the lock block; exact status |
| `GateRefinesExclusiveResource` | the gate implements `ExclusiveResource` |
| `RegistryTypeCorrect`, `ReservationsSound`, `KeysAreReleased`, `EvictionListSound`, `CompletedStays`, `CompletedOnce` | type; a held reservation is its key's entry; no key is left in progress; list and table agree; a completed key is remembered until evicted; at most one completion per remembered key |
| `EvictsOldest` | action property: a completed key is forgotten only at capacity, the oldest first |
| `AdmissionTypeCorrect`, `FateIsOne`, `CallerToldTheTruth`, `BodyInItsDocument`, `HandlersAreRemoved`, `EndsItsOwnRequest` | type; one fate per request; a truthful result; the token's document; no handler leaked; a request is completed by its own command only |
| `ModalImplementsCivilCommand` | the modal backend implements `CivilCommand` |
| `NativeTypeCorrect`, `NativeResultTrue`, `NativeReturnIsFinal`, `NativeCallbackKept`, `NativeImplementsCivilCommand` | with `~LateCallback`: type, a true result, nothing runs after the return, an admitted callback is kept; the native backend implements `CivilCommand` |
| `RuntimeTypes`, `GateIsHeld`, `NotStartedIsSaidTruly`, `SuccessHolds`, `CompletedIsSaidTruly`, `NothingIsLeft` | of the composed plugin, either backend: type; the gate is held to the host's end; `not_started`, success and "already committed" are said truly; nothing is left held, and the waiting count is off only by the entries that failed before the gate's lock block |
| `ErrorsRollBack`, `NoWriteTwice` | with the modal backend and `~DisposeMayThrow`: an error means a roll-back; a remembered write commits once |
| `ComponentsAreUsedAsSpecified` | every step of the plugin is a step or a stutter of the gate, of the registry and of the backend's promise |
| `ConnectionTypes`, `NotStartedHolds`, `AnswersHold`, `SizesHold`, `CancelsOnlyGivenUp`, `SettlesOnce` | of one connection: type; `not_started` is true; an answer is the plugin's to this command, which it had read completely, and arrived whole; both ends measure alike; only a settled command is cancelled by the watch; what was told never changes |
| `SelectionTypes`, `ChosenEndpointWasAlive` | type; a record alone never routes a call |
| `UnguardedCallsFailClosed`, `CallsReachTheirDrawing`, `NamedSessionsAreFound` | with `EnoughRecords`: an unguarded call never runs while two sessions are there throughout; a guarded one reaches the one session that has its drawing; a session that is named is found |
| `CatalogTypes`, `WalksAreComplete`, `AdditionsAreSafe`, `RemovalsAreSafe`, `CursorsAreBound` | type; what a walk over pages gives when files stay, come or go; a cursor is bound to its filters |
| `CursorsAreHonoured` | with `ShortQueries`: a cursor is refused only if a file went |
| `RunByNameIsExact` | what get tells of a skill is what a run does, and an edited skill is judged as it is at the run |
| `OnlyInitialisersAreReplaced` | with `ListedOnce`: binding exchanges initialisers and nothing else |
| `BoundTypesAreKept` | with `ListedOnce` and `DefaultsFit`: a bound variable keeps its type and holds the value given |
| `AuditIsExact`, `QueriesAreReadOnly`, `ResultsAreTrue` | one true audit event for each accepted call; `civil3d_query` sends no write; `not_started` and success are true |
| `CacheTypes`, `CacheHoldsTheLastUsed`, `ScriptsAreOfTheirText`, `NewestAreKept` | type; the cache holds the texts used last, in order; a script is of its text; an addition is not evicted by itself |
| `ConversionIsExact`, `CutsAreNeverSilent` | a value is converted exactly if the definition by unfolding accepts it; every place is there but what a note says is cut |
| `ObserverTypes`, `EventsAreOfTheirOperation`, `SnapshotsAreCoherent`, `SubscriptionsAreCleaned`, `TerminalsAreFinal` | type; whose exception is recorded; what a reader sees belongs together; nothing stays subscribed; an end is final |

*The gate.*  Assumption: the callers are a finite set (the count is a
cardinality).  `GateInv` is the conjunction of the type, mutual exclusion,
the count and the status; it is inductive as it stands, and the count is what
keeps `waitingCount` a natural number.  It is exact up to `stranded`, the entries
that failed before the lock block and are counted for good.

*The registry.*  Assumption: `RegistryAssumption`; any number of requests and
keys, any positive capacity.  `RegistryInv` adds to the checked invariants that
a completed entry belongs to a request that completed it and that evicted
requests have completed; without them a step that evicts could not be told from
one that forgets a protected write.  One lemma per operation.

*The modal backend.*  Assumption: `AdmissionAssumption`; any set of requests and
of documents, finite or not.  The checked invariants are not inductive: that a
command's end completes its own request needs the request's handlers to be on
that command's document, hence its one token to have been typed there, hence the
request of the idle handler's snapshot to be still awaited when it is typed.
`AdmissionInv` adds these links as `FateInv` (the flags), `CalledInv` (the
table), `TokenInv` (the typed tokens) and `RunningInv` (a started request is
inside its own command).  The refinement has one lemma per group of actions; the
interesting ones are `CommandEndsRefines` (the event, heard by every subscribed
request, ends one) and `RunStepRefines` (the body starts alone).

*The native backend.*  Assumptions: `NativeAssumption` and `~LateCallback`, which
`late_callback` shows to be needed.  `NativeInv` says what a call knows of the
host (`CallInv`), who won the swap (`SwapInv`) and that a started request is in
the command context until the host completes it (`ContextInv`); the last is why
one body runs at a time, and why an awaited task ends only after its body.

*The plugin.*  Assumption: `RuntimeAssumption`; any finite set of requests, any
inputs, drawings and keys.  `RuntimeInv` ties the handler of a request to its
place in the gate and to its host command, and the code a body ends with to what
the body has done.  It gives everything but the two properties about keys.  For
those the proof is compositional: `ComponentsAreUsedAsSpecified` shows, with
`RuntimeInv`, that the plugin makes only steps of the gate and of the registry;
so the invariants `GateInv` and `RegistryInv`, proved in their own modules and
cited here as `GateLaw` and `RegistryLaw`, hold in it.  `KeyInv` then ties a
request's reservation to its transaction: committed and still being handled
means the reservation is held or completed.  The assumptions of `NoWriteTwice`
are needed: `native_fault` and `MCRuntimeDispose.cfg` break the property without
them.

*The connection.*  Assumption: `ConnectionAssumption`; any operation, sizes,
limit, answers and set of peers.  `ConnectionInv` says where the one command
that may be on the wire is (`PendingInv`), how far the handler is and how far
its frame, and what follows for the caller who has not been told yet; the hard
part is that a caller can be told `not_started` only while no byte of the
command is written.  `SettlesOnce` is an action property from the same invariant.

*The selection.*  Assumption: `SelectionAssumption`; any finite set of sessions,
any ports, drawings and targets, and any number of changes during a call.
`SelectionInv` bounds what a record and a health answer are worth: a session
reports the port it listens on or, while it starts, the default port; every
candidate of a call carries the proof of a probe that was answered during it.
The three routing theorems speak of sessions that stayed as they were during the
whole call, so `RoutingInv` follows a steady session from its record to the
choice: it has been the one on its port (`SteadyInv`, with `PortsInv`), its
endpoint is being probed or has been found (`FoundInv`), its drawing is being
asked for or known (`IdentifiedInv`), and what is chosen among the candidates
can only be it (`ChoiceInv`).  That its record is read takes `EnoughRecords`:
`MaxRecords` is at least the number of sessions that write records.  The code
reads the 64 latest records, those of crashed sessions among them, which the
model has as sessions that are dead.  `MCSelectionStale.cfg` shows that the
theorems need the hypothesis.

*The catalogue.*  Assumption: `CatalogAssumption`; any finite set of skills.  The
cursor is an offset, so the argument is about ranks: a skill is *passed* when
its rank in the present result is below the offset.  A file that comes only
raises ranks, so passed skills may be seen again and none is skipped; one that
goes only lowers them.  The lemmas on ranks and pages rest on the library's
theorems about finite sets.
`CursorsAreHonoured` adds that, while no file goes, a skill stands at the offset
of the cursor; its hypothesis `ShortQueries` excludes what
`MCSkillCatalogLong.cfg` shows.

*The code tools.*  Assumption: `ToolsAssumption`, which names the inputs a client
may send; any number of calls, skills and answers.  `ToolsInv` says of a call
that was accepted that its context has the tool and the script the plugin gets,
and that its script writes only if the tool is `civil3d_execute`
(`AcceptedInv`); and that the log has exactly one event for each such call that
ended, made from that context and its result (`AuditInv`).  A file that is
edited while the call is under way is the reason for the first: it is the script
as resolved that must agree with the flag sent, not the file.

*The binding.*  Assumption: `BindingAssumption`, which says what a template, a
list of parameters and a JSON value are, for any number and length of them, any
bounds `IntMax < SafeMax`.  `RunInv` is small; the work is in what `Bound`
computes.  A text is put together line by line and `Bound` by one replacement
after another, so both are recursions over a number of steps: `AllNumbers` is
induction for a set of numbers (the least number it lacks would be the successor
of one it has, by the well-foundedness of `<`), `Recursion` gives a solution of
the recursive definition, and induction shows that every solution agrees with
it.  `SpliceIs` is one replacement: what stands before an initialiser has the
length its offset says, whatever the literals.  `InOrderOf` says that the stable
sort lists each replacement once, never one to the right of one before it;
`StartsGrow` that a line further down starts further right; so each replacement
leaves the offsets of those still to come alone (`SpliceExchanges`), and the text
after the last is `Text` of the exchanged lines.  `MisfitOf` and its lemmas show
that a value becomes a literal exactly if it fits, which is `RunByNameIsExact`.
For `BoundTypesAreKept`, `NamesOf` finds every place of a text where a name is
declared in its line and back.  `ListedOnce` and `DefaultsFit` are of the skill
files: nothing in the code enforces them, and `MCSkillBindingDuplicate.cfg` and
`MCSkillBindingLong.cfg` show that the theorems need them.

*The script cache.*  Assumption: `CacheAssumption`; any capacity, texts and
executors.  `CacheInv`: the list is the beginning of the history of uses (each
text once, newest first), as long as the capacity allows, and the dictionary has
exactly its texts.  The lemmas say what moving a text to the front of the
history does to its beginning, place by place.

*The conversion.*  Assumptions: `LimitAssumption` and `GraphAssumption`: a value
is a closed graph with a root, cyclic or not, of any size.  The definition it is
compared with unfolds the graph level by level to the depth limit.
`TraversalInv`: the frames of the walk are one branch of the unfolding, what has
been converted is closed under children but for those the frames still have to
take, and nothing has been converted twice.  At the end there is no frame, so
all of the unfolding is there; a refusal is met by a witness of what the
definition refuses, for a cycle a call at every depth (an object below itself
repeats the branch).  The levels are a recursion, handled as above.

*The observer.*  Assumption: `ObserverAssumption`; any finite set of operations,
any threads and events.  `ObservedInv` is said of each observer: at most one of
caller, timer and threads has won it, and only the winner, at the phase it has
reached, has given up the subscription, the count, the timer.  One lemma per
interlocked step.  What a reader has read stays true (`ReaderInv`) because a
field is written before the mark that makes the reader look at it.

Only model-checked: liveness (`GateMovesOn`, `CallReturns`, `NativeCallReturns`,
`EveryRequestEnds`, `GivenUpWorkEnds`, and `SubscriptionEnds` and the ends of calls
and connections in configurations without a run), which TLAPS does not reach under
fairness.  Every invariant and every action property that a passing run checks is
also a theorem.

## What is not modelled

- `ApiLookup.cs`: a stateless filter over reflection metadata.
- `InternalBenchmarkMeasurement.cs` and `src/src/benchmark`: measurement that is off
  by default and feeds nothing back into a call.
- `src/skills`: C# recipes; their control is Civil 3D geometry.
- Of the script executor: the compiler, the rewriting of loops, the sandbox
  patterns and the text of diagnostics.  That a loop stops at a checkpoint is
  assumed where `PluginRuntime` lets a script end by time-out.
- Of `OperationProgress`: stage markers, outcomes and samples, scalars that are
  overwritten under one lock and only read by the health call.
- Data: the syntax of keys, paths, fingerprints, records, front matter and C#,
  UTF-8 and JSON, the wording of messages, the layout of log lines.
