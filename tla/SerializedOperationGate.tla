---------------------- MODULE SerializedOperationGate ----------------------
(***************************************************************************)
(* The gate in front of the Civil API: a one-permit SemaphoreSlim and,     *)
(* under a lock of its own, the status the health call reports.  The       *)
(* semaphore and the status change in separate steps, so a status snapshot *)
(* may fall between them.  SemaphoreSlim is not FIFO: any queued caller    *)
(* may be the next one.  A caller re-enters after it has left.             *)
(***************************************************************************)
EXTENDS Naturals, FiniteSets

CONSTANTS Caller,         \* tasks that call EnterAsync
          NoCaller,       \* "no current operation"
          StrandedLimit   \* bound: entries that fail before the lock block

ASSUME CallerAssumption ==
  /\ IsFiniteSet(Caller)
  /\ NoCaller \notin Caller
  /\ StrandedLimit \in Nat

VARIABLES
  permits,           \* count of the semaphore
  waitingCount,      \* _waitingCount
  isActive,          \* _isActive
  currentOperation,  \* _currentOperation: the caller it was set by
  gatePc,            \* where each caller is in EnterAsync, its lease, Exit
  stranded           \* history: entries that failed before the lock block

gateVars == <<permits, waitingCount, isActive, currentOperation, gatePc, stranded>>

(***************************************************************************)
(* outside   not in the gate                                               *)
(* queued    counted, awaiting WaitAsync                                   *)
(* refused   WaitAsync threw, the count not yet taken back                 *)
(* admitted  WaitAsync returned, the status not yet set                    *)
(* active    holds the lease                                               *)
(* leaving   status cleared, the permit not yet returned                   *)
(***************************************************************************)
GateStage == {"outside", "queued", "refused", "admitted", "active", "leaving"}

GateInit ==
  /\ permits = 1
  /\ waitingCount = 0
  /\ isActive = FALSE
  /\ currentOperation = NoCaller
  /\ gatePc = [c \in Caller |-> "outside"]
  /\ stranded = 0

Move(c, from, to) ==
  /\ gatePc[c] = from
  /\ gatePc' = [gatePc EXCEPT ![c] = to]

\* EnterAsync up to the await: the caller counts itself as waiting.
JoinQueue(c) ==
  /\ Move(c, "outside", "queued")
  /\ waitingCount' = waitingCount + 1
  /\ UNCHANGED <<permits, isActive, currentOperation, stranded>>

\* Faulty variant of Acquire: a wait that gives up, whose answer is ignored.
AcquireUnguarded(c) ==
  /\ Move(c, "queued", "admitted")
  /\ permits' = IF permits > 0 THEN permits - 1 ELSE 0
  /\ UNCHANGED <<waitingCount, isActive, currentOperation, stranded>>

\* WaitAsync takes the permit.
Acquire(c) ==
  /\ Move(c, "queued", "admitted")
  /\ permits > 0
  /\ permits' = permits - 1
  /\ UNCHANGED <<waitingCount, isActive, currentOperation, stranded>>

\* WaitAsync throws: the caller's token is cancelled and no permit was taken.
Refuse(c) ==
  /\ Move(c, "queued", "refused")
  /\ UNCHANGED <<permits, waitingCount, isActive, currentOperation, stranded>>

\* The catch block of the wait.
LeaveQueue(c) ==
  /\ Move(c, "refused", "outside")
  /\ waitingCount' = waitingCount - 1
  /\ UNCHANGED <<permits, isActive, currentOperation, stranded>>

\* The lock block after the wait; the caller gets its lease.
Activate(c) ==
  /\ Move(c, "admitted", "active")
  /\ waitingCount' = waitingCount - 1
  /\ isActive' = TRUE
  /\ currentOperation' = c
  /\ UNCHANGED <<permits, stranded>>

\* Faulty variant of AbortEntry: the permit is not released.
AbortEntryKeepsPermit(c) ==
  /\ Move(c, "admitted", "outside")
  /\ waitingCount' = waitingCount - 1
  /\ isActive' = FALSE
  /\ currentOperation' = NoCaller
  /\ UNCHANGED <<permits, stranded>>

\* The second catch block, when something throws before the lock block: activated
\* is false, so the permit goes back and the caller stays counted as waiting.
StrandCount(c) ==
  /\ Move(c, "admitted", "leaving")
  /\ stranded < StrandedLimit
  /\ stranded' = stranded + 1
  /\ UNCHANGED <<permits, waitingCount, isActive, currentOperation>>

\* The same, when something throws after the lock block and before the lease is
\* returned.  Activation and its undoing are one step here.
AbortEntry(c) ==
  /\ Move(c, "admitted", "leaving")
  /\ waitingCount' = waitingCount - 1
  /\ isActive' = FALSE
  /\ currentOperation' = NoCaller
  /\ UNCHANGED <<permits, stranded>>

\* Faulty variant of BeginExit: the status is left for the next caller to set.
BeginExitKeepsStatus(c) ==
  /\ Move(c, "active", "leaving")
  /\ UNCHANGED <<permits, waitingCount, isActive, currentOperation, stranded>>

\* Lease.Dispose, then the lock block of Exit.
BeginExit(c) ==
  /\ Move(c, "active", "leaving")
  /\ isActive' = FALSE
  /\ currentOperation' = NoCaller
  /\ UNCHANGED <<permits, waitingCount, stranded>>

\* The semaphore's Release, outside the lock.
ReturnPermit(c) ==
  /\ Move(c, "leaving", "outside")
  /\ permits' = permits + 1
  /\ UNCHANGED <<waitingCount, isActive, currentOperation, stranded>>

CallerStep(c) ==
  \/ JoinQueue(c)
  \/ Acquire(c)
  \/ Refuse(c)
  \/ LeaveQueue(c)
  \/ Activate(c)
  \/ StrandCount(c)
  \/ AbortEntry(c)
  \/ BeginExit(c)
  \/ ReturnPermit(c)

GateNext == \E c \in Caller : CallerStep(c)

\* A caller that has begun to enter or to leave goes on by itself, and a lease
\* is always disposed (it is held by a using statement).  Nothing obliges a
\* caller to come, or to be cancelled; WaitAsync serves some queued caller
\* whenever the permit is there.
GateFairness ==
  /\ WF_gateVars(\E c \in Caller : Acquire(c))
  /\ \A c \in Caller :
       WF_gateVars(LeaveQueue(c) \/ Activate(c) \/ AbortEntry(c)
                     \/ BeginExit(c) \/ ReturnPermit(c))

GateSpec == GateInit /\ [][GateNext]_gateVars /\ GateFairness

-----------------------------------------------------------------------------
Holders == {c \in Caller : gatePc[c] \in {"admitted", "active", "leaving"}}

Counted == {c \in Caller : gatePc[c] \in {"queued", "refused", "admitted"}}

GateTypeOK ==
  /\ permits \in {0, 1}
  /\ waitingCount \in Nat
  /\ isActive \in BOOLEAN
  /\ currentOperation \in Caller \cup {NoCaller}
  /\ gatePc \in [Caller -> GateStage]
  /\ stranded \in 0..StrandedLimit

\* Two callers never hold the permit together, and the permit is never lost:
\* it is in the semaphore exactly when nobody holds it.  Broken by a path
\* through EnterAsync or Exit that releases twice or not at all.
MutualExclusion ==
  /\ \A c, d \in Holders : c = d
  /\ permits = 1 <=> Holders = {}

\* The queueDepth of the health call is the number of callers that have come and
\* are neither refused nor running, and of the entries that ever failed between
\* the wait and the lock block: these alone are never taken back.
WaitingCountExact == waitingCount = Cardinality(Counted) + stranded

\* The status names the caller that holds the lease, or nobody: a health call
\* never shows the operation before, and never hides a running one.
StatusNamesLeaseHolder ==
  /\ \A c \in Caller : gatePc[c] = "active" <=> (isActive /\ currentOperation = c)
  /\ isActive <=> currentOperation # NoCaller

\* While somebody waits the gate does not stay shut: a queued caller is admitted,
\* unless all of them are cancelled.
GateMovesOn ==
  (\E c \in Caller : gatePc[c] = "queued")
    ~> (\/ \E c \in Caller : gatePc[c] = "admitted"
        \/ \A c \in Caller : gatePc[c] # "queued")

-----------------------------------------------------------------------------
\* The caller that holds the permit holds the abstract resource.
CurrentHolder ==
  IF Holders = {} THEN NoCaller ELSE CHOOSE c \in Caller : c \in Holders

Abstract == INSTANCE ExclusiveResource WITH holder <- CurrentHolder

\* The gate implements an exclusive resource: it passes from one caller to
\* another only through the free state.
ImplementsExclusiveResource == Abstract!Spec
=============================================================================
