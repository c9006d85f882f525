-------------------------- MODULE CompletionObserver --------------------------
(***************************************************************************)
(* The opt-in diagnostics of a native call: the observer of first-chance   *)
(* exceptions, which one of an exception thread, its expiry timer and the  *)
(* operation's caller stops, the lock-free fields it publishes, and the    *)
(* health reader that looks at them at any time.  Operations run one after *)
(* another, as the gate has it; what is left of one may overlap the next.  *)
(* A step is one interlocked or volatile access.                           *)
(***************************************************************************)
EXTENDS Naturals, FiniteSets, Option

CONSTANTS
  Operation,   \* each with its own progress object and observer
  Thread       \* threads that raise exceptions with the Autodesk frames

Caller == "caller"
Timer == "timer"
Actor == Thread \cup {Caller, Timer}

\* A first-chance exception: who raised it, during which operation.
Event == [by : Thread, during : Operation \cup {None}]

ASSUME ObserverAssumption ==
  /\ IsFiniteSet(Operation) /\ Thread \cap {Caller, Timer} = {}
  /\ None \notin Operation \cup Event

VARIABLES
  pc,         \* where each operation's caller stands
  disposed,   \* _disposed
  owned,      \* _subscriptionOwned
  count,      \* _activeSubscriptions
  handlers,   \* the observers the runtime calls
  expiry,     \* their timers: idle, armed or disposed
  work,       \* what each actor is doing to each observer
  raised,     \* the event each thread delivers and the handlers it still calls
  state,      \* _firstChanceObserverState
  category,   \* _firstChanceCategory, as the event it was taken from
  details,    \* stack flags, context, scheduler and time, likewise
  recorded,   \* _firstChanceRecorded
  reader      \* WithFirstChance: its point and what it has read

stopVars == <<disposed, owned, count, handlers, expiry, work>>
fieldVars == <<state, category, details, recorded>>
observerVars == <<pc, stopVars, raised, fieldVars, reader>>

Quiet == [event |-> None, pending |-> {}]
NotReading == [step |-> "idle", op |-> None, state |-> None, recorded |-> FALSE,
               details |-> None, category |-> None]

ObserverInit ==
  /\ pc = [o \in Operation |-> "idle"]
  /\ disposed = [o \in Operation |-> FALSE] /\ owned = disposed /\ recorded = disposed
  /\ count = 0 /\ handlers = {}
  /\ expiry = [o \in Operation |-> "idle"]
  /\ work = [o \in Operation |-> [a \in Actor |-> "none"]]
  /\ raised = [t \in Thread |-> Quiet]
  /\ state = [o \in Operation |-> "NotStarted"]
  /\ category = [o \in Operation |-> None] /\ details = category
  /\ reader = NotReading

Current == {o \in Operation : pc[o] \notin {"idle", "over"}}

----------------------------------------------------------------------------
(* What several actors do to an observer. *)

Go(o, a, phase) == work' = [work EXCEPT ![o][a] = phase]

\* Stop: the first to exchange _disposed cleans up, the others return.
Stop(o, a) ==
  /\ work[o][a] = "stop"
  /\ disposed' = [disposed EXCEPT ![o] = TRUE]
  /\ Go(o, a, IF disposed[o] THEN "none" ELSE "release")
  /\ UNCHANGED <<pc, owned, count, handlers, expiry, raised, fieldVars, reader>>

Release(o, a) ==
  /\ work[o][a] = "release"
  /\ owned' = [owned EXCEPT ![o] = FALSE]
  /\ Go(o, a, IF owned[o] THEN "unsubscribe" ELSE "timer")
  /\ UNCHANGED <<pc, disposed, count, handlers, expiry, raised, fieldVars, reader>>

Unsubscribe(o, a) ==
  /\ work[o][a] = "unsubscribe"
  /\ handlers' = handlers \ {o}
  /\ Go(o, a, "uncount")
  /\ UNCHANGED <<pc, disposed, owned, count, expiry, raised, fieldVars, reader>>

Uncount(o, a) ==
  /\ work[o][a] = "uncount"
  /\ count' = count - 1
  /\ Go(o, a, "timer")
  /\ UNCHANGED <<pc, disposed, owned, handlers, expiry, raised, fieldVars, reader>>

DisposeTimer(o, a) ==
  /\ work[o][a] = "timer"
  /\ expiry' = [expiry EXCEPT ![o] = "disposed"]
  /\ Go(o, a, "terminal")
  /\ UNCHANGED <<pc, disposed, owned, count, handlers, raised, fieldVars, reader>>

Verdict(o, a) ==
  CASE a = Timer -> "Expired"
    [] a = Caller -> IF pc[o] = "failing" THEN "Failed" ELSE "Stopped"
    [] OTHER -> "Matched"

\* The thread's handler has returned: the runtime calls the next one.
Returned(o, a) ==
  IF a \in Thread THEN [raised EXCEPT ![a].pending = @ \ {o}] ELSE raised

RecordTerminal(o, a) ==
  /\ work[o][a] = "terminal"
  /\ state' = [state EXCEPT ![o] = Verdict(o, a)]
  /\ raised' = Returned(o, a)
  /\ Go(o, a, "none")
  /\ UNCHANGED <<pc, disposed, owned, count, handlers, expiry, category, details, recorded,
                 reader>>

----------------------------------------------------------------------------
(* The exception threads. *)

\* An exception: the runtime calls the handlers subscribed at this moment.
\* _handling is per thread: what a handler itself raises is not looked at.
Raise(t) ==
  /\ raised[t].pending = {} /\ handlers # {}
  /\ raised' = [raised EXCEPT ![t] =
       [event |-> [by |-> t, during |-> IF Current = {} THEN None
                                        ELSE CHOOSE o \in Current : TRUE],
        pending |-> handlers]]
  /\ UNCHANGED <<pc, stopVars, fieldVars, reader>>

\* OnFirstChanceException looks at _disposed, then walks the stack.
EnterHandler(t, o) ==
  /\ o \in raised[t].pending /\ \A p \in Operation : work[p][t] = "none"
  /\ IF disposed[o] THEN raised' = Returned(o, t) /\ UNCHANGED work
                    ELSE Go(o, t, "matched") /\ UNCHANGED raised
  /\ UNCHANGED <<pc, disposed, owned, count, handlers, expiry, fieldVars, reader>>

\* It matched: one exception at most wins the observer.
Claim(t, o) ==
  /\ work[o][t] = "matched"
  /\ disposed' = [disposed EXCEPT ![o] = TRUE]
  /\ IF disposed[o] THEN Go(o, t, "none") /\ raised' = Returned(o, t)
                    ELSE Go(o, t, "category") /\ UNCHANGED raised
  /\ UNCHANGED <<pc, owned, count, handlers, expiry, fieldVars, reader>>

\* Faulty variant: the mark is set with the category, before the details.
RecordCategoryMarked(t, o) ==
  /\ work[o][t] = "category"
  /\ category' = [category EXCEPT ![o] = raised[t].event] /\ Go(o, t, "details")
  /\ recorded' = [recorded EXCEPT ![o] = TRUE]
  /\ UNCHANGED <<pc, disposed, owned, count, handlers, expiry, raised, state, details, reader>>

RecordCategory(t, o) ==
  /\ work[o][t] = "category"
  /\ IF category[o] = None
       THEN category' = [category EXCEPT ![o] = raised[t].event] /\ Go(o, t, "details")
       ELSE UNCHANGED category /\ Go(o, t, "release")
  /\ UNCHANGED <<pc, disposed, owned, count, handlers, expiry, raised, state, details, recorded,
                 reader>>

RecordDetails(t, o) ==
  /\ work[o][t] = "details"
  /\ details' = [details EXCEPT ![o] = raised[t].event]
  /\ Go(o, t, "recorded")
  /\ UNCHANGED <<pc, disposed, owned, count, handlers, expiry, raised, state, category, recorded,
                 reader>>

SetRecorded(t, o) ==
  /\ work[o][t] = "recorded"
  /\ recorded' = [recorded EXCEPT ![o] = TRUE]
  /\ Go(o, t, "release")
  /\ UNCHANGED <<pc, disposed, owned, count, handlers, expiry, raised, state, category, details,
                 reader>>

----------------------------------------------------------------------------
(* The caller: the constructor, the native call, Dispose. *)

Moves(o, from, to) == pc[o] = from /\ pc' = [pc EXCEPT ![o] = to]

\* The gate lets the next operation in when the last has returned.
Construct(o) ==
  /\ Current = {} /\ Moves(o, "idle", "count")
  /\ owned' = [owned EXCEPT ![o] = TRUE]
  /\ UNCHANGED <<disposed, count, handlers, expiry, work, raised, fieldVars, reader>>

Count(o) ==
  /\ Moves(o, "count", "subscribe")
  /\ count' = count + 1
  /\ UNCHANGED <<disposed, owned, handlers, expiry, work, raised, fieldVars, reader>>

Subscribe(o) ==
  /\ Moves(o, "subscribe", "check")
  /\ handlers' = handlers \cup {o}
  /\ UNCHANGED <<disposed, owned, count, expiry, work, raised, fieldVars, reader>>

\* An event may already have won the observer: nothing is recorded or armed.
Check(o) ==
  /\ \/ pc[o] = "check" /\ pc' = [pc EXCEPT ![o] = IF disposed[o] THEN "running" ELSE "record"]
     \/ pc[o] = "check again" /\ pc' = [pc EXCEPT ![o] = IF disposed[o] THEN "running" ELSE "arm"]
  /\ UNCHANGED <<stopVars, raised, fieldVars, reader>>

RecordStarted(o) ==
  /\ Moves(o, "record", "check again")
  /\ state' = [state EXCEPT ![o] = IF @ = "NotStarted" THEN "Running" ELSE @]
  /\ UNCHANGED <<stopVars, raised, category, details, recorded, reader>>

\* Timer.Change; of a timer disposed by a winner the exception is swallowed.
Arm(o) ==
  /\ Moves(o, "arm", "running")
  /\ expiry' = [expiry EXCEPT ![o] = IF @ = "disposed" THEN @ ELSE "armed"]
  /\ UNCHANGED <<disposed, owned, count, handlers, work, raised, fieldVars, reader>>

\* Faulty variant: the constructor rethrows without stopping.
SetupFailsOpen(o) ==
  /\ pc[o] = "subscribe" \/ (pc[o] = "arm" /\ expiry[o] = "idle")
  /\ pc' = [pc EXCEPT ![o] = "unobserved"]
  /\ UNCHANGED <<stopVars, raised, fieldVars, reader>>

\* Subscribing or starting the timer fails: the constructor stops what it began.
SetupFails(o) ==
  /\ pc[o] = "subscribe" \/ (pc[o] = "arm" /\ expiry[o] = "idle")
  /\ pc' = [pc EXCEPT ![o] = "failing"]
  /\ Go(o, Caller, "stop")
  /\ UNCHANGED <<disposed, owned, count, handlers, expiry, raised, fieldVars, reader>>

\* Start returns null and the native call goes on without an observer.
StartReturnsNull(o) ==
  /\ work[o][Caller] = "none" /\ Moves(o, "failing", "unobserved")
  /\ UNCHANGED <<stopVars, raised, fieldVars, reader>>

\* The operation is over: Dispose, if Start returned an observer.
EndCall(o) ==
  /\ \/ Moves(o, "running", "closing") /\ Go(o, Caller, "stop")
     \/ Moves(o, "unobserved", "over") /\ UNCHANGED work
  /\ UNCHANGED <<disposed, owned, count, handlers, expiry, raised, fieldVars, reader>>

DisposeReturns(o) ==
  /\ work[o][Caller] = "none" /\ Moves(o, "closing", "over")
  /\ UNCHANGED <<stopVars, raised, fieldVars, reader>>

Expire(o) ==
  /\ expiry[o] = "armed"
  /\ expiry' = [expiry EXCEPT ![o] = "idle"]
  /\ Go(o, Timer, "stop")
  /\ UNCHANGED <<pc, disposed, owned, count, handlers, raised, fieldVars, reader>>

----------------------------------------------------------------------------
(* The health reader: its lock keeps the observer out of nothing. *)

ReadState(o) ==
  /\ reader.step = "idle" /\ pc[o] # "idle"
  /\ reader' = [reader EXCEPT !.step = "recorded", !.op = o, !.state = state[o]]
  /\ UNCHANGED <<pc, stopVars, raised, fieldVars>>

ReadRecorded ==
  /\ reader.step = "recorded"
  /\ reader' = [reader EXCEPT !.recorded = recorded[reader.op],
                              !.step = IF recorded[reader.op] THEN "details" ELSE "done"]
  /\ UNCHANGED <<pc, stopVars, raised, fieldVars>>

ReadDetails ==
  /\ reader.step = "details"
  /\ reader' = [reader EXCEPT !.details = details[reader.op], !.step = "category"]
  /\ UNCHANGED <<pc, stopVars, raised, fieldVars>>

ReadCategory ==
  /\ reader.step = "category"
  /\ reader' = [reader EXCEPT !.category = category[reader.op], !.step = "done"]
  /\ UNCHANGED <<pc, stopVars, raised, fieldVars>>

ReturnSnapshot ==
  /\ reader.step = "done" /\ reader' = NotReading
  /\ UNCHANGED <<pc, stopVars, raised, fieldVars>>

----------------------------------------------------------------------------

CleanUp(o, a) ==
  \/ Stop(o, a) \/ Release(o, a) \/ Unsubscribe(o, a) \/ Uncount(o, a)
  \/ DisposeTimer(o, a) \/ RecordTerminal(o, a)

Handle(t, o) ==
  \/ EnterHandler(t, o) \/ Claim(t, o)
  \/ RecordCategory(t, o) \/ RecordDetails(t, o) \/ SetRecorded(t, o)

SetUp(o) ==
  \/ Count(o) \/ Subscribe(o) \/ Check(o) \/ RecordStarted(o) \/ Arm(o) \/ SetupFails(o)
  \/ StartReturnsNull(o)

Read == (\E o \in Operation : ReadState(o)) \/ ReadRecorded \/ ReadDetails \/ ReadCategory
        \/ ReturnSnapshot

ObserverNext ==
  \/ \E o \in Operation :
       \/ Construct(o) \/ SetUp(o) \/ EndCall(o) \/ DisposeReturns(o)
       \/ Expire(o)
       \/ \E a \in Actor : CleanUp(o, a)
       \/ \E t \in Thread : Handle(t, o)
  \/ \E t \in Thread : Raise(t)
  \/ Read

\* The threads run and the timer fires.  Nothing says that the native call
\* ends, that an exception comes or that anyone asks for the health.
ObserverFairness ==
  \A o \in Operation :
    /\ WF_observerVars(SetUp(o)) /\ WF_observerVars(Expire(o))
    /\ \A a \in Actor : WF_observerVars(CleanUp(o, a))
    /\ \A t \in Thread : WF_observerVars(Handle(t, o))

ObserverSpec == ObserverInit /\ [][ObserverNext]_observerVars
FairObserverSpec == ObserverSpec /\ ObserverFairness

----------------------------------------------------------------------------
(* Properties. *)

Terminal == {"Matched", "Expired", "Stopped", "Failed"}

\* The variables keep their types; the count is never negative.
ObserverTypeOK ==
  /\ pc \in [Operation -> {"idle", "count", "subscribe", "check", "record", "check again", "arm",
                           "failing", "unobserved", "running", "closing", "over"}]
  /\ disposed \in [Operation -> BOOLEAN] /\ owned \in [Operation -> BOOLEAN]
  /\ count \in 0..Cardinality(Operation) /\ handlers \subseteq Operation
  /\ expiry \in [Operation -> {"idle", "armed", "disposed"}]
  /\ work \in [Operation -> [Actor -> {"none", "stop", "matched", "category", "details",
        "recorded", "release", "unsubscribe", "uncount", "timer", "terminal"}]]
  /\ raised \in [Thread -> [event : Event \cup {None}, pending : SUBSET Operation]]
  /\ state \in [Operation -> {"NotStarted", "Running"} \cup Terminal]
  /\ category \in [Operation -> Event \cup {None}] /\ details \in [Operation -> Event \cup {None}]
  /\ recorded \in [Operation -> BOOLEAN]
  /\ reader.step \in {"idle", "recorded", "details", "category", "done"}

\* What a health call reports hangs together although it takes no lock the
\* observer knows: "Matched" comes with the event, no other end of the
\* observer does, and all fields are of one event.
SnapshotIsCoherent ==
  reader.step = "done" =>
    /\ reader.state = "Matched" => reader.recorded
    /\ reader.recorded => /\ reader.state \notin Terminal \ {"Matched"}
                          /\ reader.category # None /\ reader.details = reader.category

\* An operation's diagnostics never show an exception of another operation,
\* although the subscription is process-wide and a thread may still hold the
\* handler when its observer has been disposed.
EventIsOfItsOperation ==
  \A o \in Operation : category[o] # None => category[o].during = o

AtRest ==
  \A o \in Operation :
    /\ pc[o] \in {"idle", "over"} /\ expiry[o] # "armed"
    /\ \A a \in Actor : work[o][a] = "none"

\* When nobody is at work no handler is subscribed and the count is zero,
\* however setup, match, expiry and Dispose met.
NothingStaysSubscribed == AtRest => handlers = {} /\ count = 0

\* The end an observer reported is not taken back, not even by the
\* constructor that is still reporting its start.
TerminalIsFinal ==
  [][\A o \in Operation : state[o] \in Terminal => state'[o] = state[o]]_observerVars

\* "Its own deadline covers a hung awaitable": a subscribed handler is
\* removed in the end even when the native call never returns.
SubscriptionEnds == \A o \in Operation : o \in handlers ~> o \notin handlers

\* "Disposing the observer must unsubscribe it immediately."  It does not when
\* an exception thread has won the observer and has not cleaned up yet.
DisposeUnsubscribes == \A o \in Operation : pc[o] = "over" => o \notin handlers
=============================================================================
