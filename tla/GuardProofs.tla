------------------------------ MODULE GuardProofs ------------------------------
(***************************************************************************)
(* Proofs about the two guards a request passes.                           *)
(*                                                                         *)
(* The operation gate, for any finite set of callers: its type, mutual     *)
(* exclusion with conservation of the permit, the exactness of the status  *)
(* the health call reports, and that it implements an exclusive resource.  *)
(*                                                                         *)
(* The idempotency table, for any keys, bindings, requests and capacity of *)
(* at least one: reservations own their entries, no key is left in         *)
(* progress, the eviction list is exact, and a key completes once while it *)
(* is remembered.                                                          *)
(***************************************************************************)
EXTENDS SerializedOperationGate, IdempotencyRegistry, FiniteSetTheorems, SequenceTheorems, TLAPS

(***************************************************************************)
(* The inductive invariant.  WaitingCountExact is what keeps waitingCount  *)
(* a natural number: a caller that counts itself out is in Counted.        *)
(***************************************************************************)
GateInv ==
  /\ GateTypeOK
  /\ MutualExclusion
  /\ WaitingCountExact
  /\ StatusNamesLeaseHolder

\* Initially nobody is in the gate.
LEMMA GateInvInit == GateInit => GateInv
  <1> SUFFICES ASSUME GateInit PROVE GateInv
    OBVIOUS
  <1>1. Holders = {} /\ Counted = {}
    BY DEF GateInit, Holders, Counted
  <1>2. MutualExclusion
    BY <1>1 DEF GateInit, MutualExclusion
  <1>3. WaitingCountExact
    BY <1>1, FS_EmptySet DEF GateInit, WaitingCountExact
  <1>4. StatusNamesLeaseHolder
    BY CallerAssumption DEF GateInit, StatusNamesLeaseHolder
  <1>5. GateTypeOK
    <2>4. stranded \in 0..StrandedLimit
      BY CallerAssumption DEF GateInit
    <2>1. permits \in {0, 1} /\ waitingCount \in Nat /\ isActive \in BOOLEAN
      BY DEF GateInit
    <2>2. currentOperation \in Caller \cup {NoCaller}
      BY DEF GateInit
    <2>3. gatePc \in [Caller -> GateStage]
      BY DEF GateInit, GateStage
    <2> QED
      BY <2>1, <2>2, <2>3, <2>4 DEF GateTypeOK
  <1> QED
    BY <1>2, <1>3, <1>4, <1>5 DEF GateInv

\* The callers that count as waiting are finitely many, so they can be counted.
LEMMA CountedFinite == IsFiniteSet(Counted)
  BY CallerAssumption, FS_Subset DEF Counted

\* One step of one caller preserves the invariant, conjunct by conjunct.
LEMMA GateInvStep ==
  ASSUME NEW c \in Caller, GateInv, CallerStep(c)
  PROVE  GateInv'
  <1> USE DEF GateInv
  <1>n. /\ Cardinality(Counted) \in Nat /\ (c \in Counted => Cardinality(Counted) > 0)
        /\ stranded \in Nat /\ StrandedLimit \in Nat
    <2>1. c \in Counted => Cardinality(Counted) # 0
      BY CountedFinite, FS_EmptySet
    <2>2. stranded \in Nat /\ StrandedLimit \in Nat
      BY CallerAssumption DEF GateTypeOK
    <2> QED
      BY <2>1, <2>2, CountedFinite, FS_CardinalityType
  <1>1. CASE JoinQueue(c)
    <2> USE <1>1 DEF JoinQueue, Move, GateTypeOK, GateStage
    <2>1. Holders' = Holders
      BY DEF Holders
    <2>2. Counted' = Counted \cup {c} /\ c \notin Counted
      BY DEF Counted
    <2>3. WaitingCountExact'
      BY <2>2, <1>n, CountedFinite, FS_AddElement DEF WaitingCountExact
    <2>4. MutualExclusion'
      BY <2>1 DEF MutualExclusion
    <2>5. StatusNamesLeaseHolder'
      BY DEF StatusNamesLeaseHolder
    <2> QED
      BY <2>3, <2>4, <2>5
  <1>2. CASE Acquire(c)
    <2> USE <1>2 DEF Acquire, Move, GateTypeOK, GateStage
    <2>1. Holders = {} /\ Holders' = {c}
      BY DEF Holders, MutualExclusion
    <2>2. Counted' = Counted
      BY DEF Counted
    <2>3. WaitingCountExact'
      BY <2>2 DEF WaitingCountExact
    <2>4. MutualExclusion'
      BY <2>1 DEF MutualExclusion
    <2>5. StatusNamesLeaseHolder'
      BY DEF StatusNamesLeaseHolder
    <2> QED
      BY <2>3, <2>4, <2>5
  <1>3. CASE Refuse(c)
    <2> USE <1>3 DEF Refuse, Move, GateTypeOK, GateStage
    <2>1. Holders' = Holders /\ Counted' = Counted
      BY DEF Holders, Counted
    <2>2. StatusNamesLeaseHolder'
      BY DEF StatusNamesLeaseHolder
    <2> QED
      BY <2>1, <2>2 DEF MutualExclusion, WaitingCountExact
  <1>4. CASE LeaveQueue(c)
    <2> USE <1>4 DEF LeaveQueue, Move, GateTypeOK, GateStage
    <2>1. Holders' = Holders
      BY DEF Holders
    <2>2. Counted' = Counted \ {c} /\ c \in Counted
      BY DEF Counted
    <2>3. WaitingCountExact' /\ waitingCount' \in Nat
      <3>1. Cardinality(Counted') = Cardinality(Counted) - 1
        BY <2>2, CountedFinite, FS_RemoveElement
      <3> QED
        BY <2>2, <3>1, <1>n DEF WaitingCountExact
    <2>4. MutualExclusion'
      BY <2>1 DEF MutualExclusion
    <2>5. StatusNamesLeaseHolder'
      BY DEF StatusNamesLeaseHolder
    <2> QED
      BY <2>3, <2>4, <2>5
  <1>5. CASE Activate(c)
    <2> USE <1>5 DEF Activate, Move, GateTypeOK, GateStage
    <2>1. Holders' = Holders /\ c \in Holders
      BY DEF Holders
    <2>2. Counted' = Counted \ {c} /\ c \in Counted
      BY DEF Counted
    <2>3. WaitingCountExact' /\ waitingCount' \in Nat
      <3>1. Cardinality(Counted') = Cardinality(Counted) - 1
        BY <2>2, CountedFinite, FS_RemoveElement
      <3> QED
        BY <2>2, <3>1, <1>n DEF WaitingCountExact
    <2>4. MutualExclusion'
      BY <2>1 DEF MutualExclusion
    <2>5. StatusNamesLeaseHolder'
      <3>1. \A d \in Caller : d # c => gatePc[d] # "active"
        BY <2>1 DEF MutualExclusion, Holders
      <3> QED
        BY <3>1, CallerAssumption DEF StatusNamesLeaseHolder
    <2> QED
      BY <2>3, <2>4, <2>5
  <1>6. CASE StrandCount(c)
    <2> USE <1>6 DEF StrandCount, Move, GateTypeOK, GateStage
    <2>1. Holders' = Holders /\ c \in Holders
      BY DEF Holders
    <2>2. Counted' = Counted \ {c} /\ c \in Counted
      BY DEF Counted
    <2>3. WaitingCountExact'
      <3>1. Cardinality(Counted') = Cardinality(Counted) - 1
        BY <2>2, CountedFinite, FS_RemoveElement
      <3> QED
        BY <2>2, <3>1, <1>n DEF WaitingCountExact
    <2>4. MutualExclusion'
      BY <2>1 DEF MutualExclusion
    <2>5. StatusNamesLeaseHolder'
      BY DEF StatusNamesLeaseHolder
    <2>6. stranded' \in 0..StrandedLimit
      BY <1>n
    <2> QED
      BY <2>3, <2>4, <2>5, <2>6
  <1>7. CASE AbortEntry(c)
    <2> USE <1>7 DEF AbortEntry, Move, GateTypeOK, GateStage
    <2>1. Holders' = Holders /\ c \in Holders
      BY DEF Holders
    <2>2. Counted' = Counted \ {c} /\ c \in Counted
      BY DEF Counted
    <2>3. WaitingCountExact' /\ waitingCount' \in Nat
      <3>1. Cardinality(Counted') = Cardinality(Counted) - 1
        BY <2>2, CountedFinite, FS_RemoveElement
      <3> QED
        BY <2>2, <3>1, <1>n DEF WaitingCountExact
    <2>4. MutualExclusion'
      BY <2>1 DEF MutualExclusion
    <2>5. StatusNamesLeaseHolder'
      <3>1. \A d \in Caller : gatePc[d] # "active"
        BY <2>1 DEF MutualExclusion, Holders
      <3> QED
        BY <3>1 DEF StatusNamesLeaseHolder
    <2> QED
      BY <2>3, <2>4, <2>5
  <1>8. CASE BeginExit(c)
    <2> USE <1>8 DEF BeginExit, Move, GateTypeOK, GateStage
    <2>1. Holders' = Holders /\ c \in Holders /\ Counted' = Counted
      BY DEF Holders, Counted
    <2>2. MutualExclusion' /\ WaitingCountExact'
      BY <2>1 DEF MutualExclusion, WaitingCountExact
    <2>3. StatusNamesLeaseHolder'
      <3>1. \A d \in Caller : d # c => gatePc[d] # "active"
        BY <2>1 DEF MutualExclusion, Holders
      <3> QED
        BY <3>1 DEF StatusNamesLeaseHolder
    <2> QED
      BY <2>2, <2>3
  <1>9. CASE ReturnPermit(c)
    <2> USE <1>9 DEF ReturnPermit, Move, GateTypeOK, GateStage
    <2>1. c \in Holders /\ Counted' = Counted
      BY DEF Holders, Counted
    <2>2. Holders' = {} /\ permits = 0
      BY <2>1 DEF Holders, MutualExclusion
    <2>3. MutualExclusion' /\ WaitingCountExact'
      BY <2>1, <2>2 DEF MutualExclusion, WaitingCountExact
    <2>4. StatusNamesLeaseHolder'
      BY DEF StatusNamesLeaseHolder
    <2> QED
      BY <2>2, <2>3, <2>4
  <1> QED
    BY <1>1, <1>2, <1>3, <1>4, <1>5, <1>6, <1>7, <1>8, <1>9 DEF CallerStep

\* The invariant holds throughout, for every finite set of callers.
THEOREM GateInvariant == GateSpec => []GateInv
  <1>1. GateInv /\ UNCHANGED gateVars => GateInv'
    BY DEF GateInv, gateVars, GateTypeOK, MutualExclusion, WaitingCountExact,
           StatusNamesLeaseHolder, Holders, Counted
  <1>2. GateInv /\ [GateNext]_gateVars => GateInv'
    BY <1>1, GateInvStep DEF GateNext
  <1> QED
    BY <1>2, GateInvInit, PTL DEF GateSpec

\* SerializedOperationGate keeps its counters in range.
THEOREM GateTypeCorrect == GateSpec => []GateTypeOK
  <1>1. GateInv => GateTypeOK
    BY DEF GateInv
  <1> QED
    BY <1>1, GateInvariant, PTL

\* maxConcurrency = 1: two callers never hold the permit, and it is never lost.
THEOREM GateMutualExclusion == GateSpec => []MutualExclusion
  <1>1. GateInv => MutualExclusion
    BY DEF GateInv
  <1> QED
    BY <1>1, GateInvariant, PTL

\* The queueDepth the health call reads exceeds the callers that wait by exactly the
\* entries that failed before the lock block, whatever else refuses, fails or ends.
THEOREM GateCountExact == GateSpec => []WaitingCountExact
  <1>1. GateInv => WaitingCountExact
    BY DEF GateInv
  <1> QED
    BY <1>1, GateInvariant, PTL

\* The operation the health call names is the one that holds the lease.
THEOREM GateStatusExact == GateSpec => []StatusNamesLeaseHolder
  <1>1. GateInv => StatusNamesLeaseHolder
    BY DEF GateInv
  <1> QED
    BY <1>1, GateInvariant, PTL

-----------------------------------------------------------------------------
(***************************************************************************)
(* Refinement.  The current holder is well defined because at most one     *)
(* caller is in Holders.                                                   *)
(***************************************************************************)
LEMMA HolderOf ==
  ASSUME GateInv, NEW c \in Caller, c \in Holders
  PROVE  CurrentHolder = c
  BY DEF CurrentHolder, GateInv, MutualExclusion, Holders

\* Acquire takes the resource, ReturnPermit gives it back, and every other step
\* leaves the holder alone.
LEMMA GateStepRefines ==
  ASSUME NEW c \in Caller, GateInv, GateInv', CallerStep(c)
  PROVE  Abstract!Next \/ CurrentHolder' = CurrentHolder
  <1> USE DEF GateInv, GateTypeOK, GateStage
  <1>1. CASE Acquire(c)
    <2>1. Holders = {} /\ Holders' = {c}
      BY <1>1 DEF Acquire, Move, Holders, MutualExclusion
    <2>2. CurrentHolder = NoCaller
      BY <2>1 DEF CurrentHolder
    <2>3. CurrentHolder' = c
      BY <2>1 DEF CurrentHolder
    <2> QED
      BY <2>2, <2>3 DEF Abstract!Next, Abstract!Take
  <1>2. CASE ReturnPermit(c)
    <2>1. c \in Holders /\ Holders' = {}
      BY <1>2 DEF ReturnPermit, Move, Holders, MutualExclusion
    <2>2. CurrentHolder = c
      BY <2>1, HolderOf
    <2>3. CurrentHolder' = NoCaller
      BY <2>1 DEF CurrentHolder
    <2> QED
      BY <2>2, <2>3 DEF Abstract!Next, Abstract!Give
  <1>3. CASE \/ JoinQueue(c) \/ Refuse(c) \/ LeaveQueue(c) \/ Activate(c)
             \/ StrandCount(c) \/ AbortEntry(c) \/ BeginExit(c)
    <2>1. Holders' = Holders
      BY <1>3 DEF JoinQueue, Refuse, LeaveQueue, Activate, StrandCount, AbortEntry,
                  BeginExit, Move, Holders
    <2> QED
      BY <2>1 DEF CurrentHolder
  <1> QED
    BY <1>1, <1>2, <1>3 DEF CallerStep

\* The gate implements an exclusive resource, for every finite set of callers.
THEOREM GateRefinesExclusiveResource == GateSpec => ImplementsExclusiveResource
  <1>1. GateInit => Abstract!Init
    BY DEF GateInit, Abstract!Init, CurrentHolder, Holders
  <1>2. GateInv /\ GateInv' /\ [GateNext]_gateVars => [Abstract!Next]_CurrentHolder
    <2>1. ASSUME UNCHANGED gateVars
          PROVE  CurrentHolder' = CurrentHolder
      BY <2>1 DEF gateVars, CurrentHolder, Holders
    <2> QED
      BY <2>1, GateStepRefines DEF GateNext
  <1> QED
    BY <1>1, <1>2, GateInvariant, PTL
      DEF GateSpec, ImplementsExclusiveResource, Abstract!Spec

-----------------------------------------------------------------------------
(* The idempotency registry.                                               *)

(***************************************************************************)
(* The conjuncts need one another: an eviction is harmless to a held       *)
(* reservation only because the list names completed keys, and the list    *)
(* names each key once only because a held reservation is in progress.     *)
(***************************************************************************)
CompletedByOwner ==
  \A k \in Key : entries[k].state = "completed" =>
    /\ reservation[entries[k].owner] = "completed"
    /\ entries[k].owner \notin evicted
    /\ KeyOf[entries[k].owner] = k

EvictedAreCompleted == \A o \in evicted : reservation[o] = "completed"

RegistryInv ==
  /\ RegistryTypeOK
  /\ ReservationOwnsEntry
  /\ NoKeyLeftInProgress
  /\ EvictionListExact
  /\ CompletedIsRemembered
  /\ CompletedByOwner
  /\ EvictedAreCompleted

\* The empty table satisfies the invariant.
LEMMA RegistryInvInit == RegistryInit => RegistryInv
  <1> SUFFICES ASSUME RegistryInit PROVE RegistryInv
    OBVIOUS
  <1> USE RegistryAssumption DEF RegistryInit
  <1>1. RegistryTypeOK
    BY DEF RegistryTypeOK, ReservationState
  <1>2. ReservationOwnsEntry /\ CompletedIsRemembered /\ EvictedAreCompleted
    BY DEF ReservationOwnsEntry, CompletedIsRemembered, EvictedAreCompleted
  <1>3. NoKeyLeftInProgress /\ CompletedByOwner
    BY DEF NoKeyLeftInProgress, CompletedByOwner, Absent
  <1>4. EvictionListExact
    BY DEF EvictionListExact, Absent
  <1> QED
    BY <1>1, <1>2, <1>3, <1>4 DEF RegistryInv

\* What the type invariant says of one entry.
LEMMA EntryCases ==
  ASSUME RegistryTypeOK, NEW k \in Key
  PROVE  /\ entries[k].state \in {"absent", "in_progress", "completed"}
         /\ entries[k].state = "absent" <=> entries[k] = Absent
         /\ entries[k].state # "absent" =>
              entries[k].owner \in Owner /\ entries[k].binding \in Binding
         /\ entries[k].state # "absent" => 
              entries[k] = [state |-> entries[k].state, binding |-> entries[k].binding,
                            owner |-> entries[k].owner]
  BY DEF RegistryTypeOK, Entry, Absent

\* The entry of a held reservation, field by field.
LEMMA HeldEntry ==
  ASSUME RegistryInv, NEW o \in Owner, reservation[o] = "held"
  PROVE  /\ KeyOf[o] \in Key
         /\ entries[KeyOf[o]] =
              [state |-> "in_progress", binding |-> BindingOf[o], owner |-> o]
         /\ entries[KeyOf[o]].state = "in_progress"
         /\ entries[KeyOf[o]].binding = BindingOf[o]
         /\ entries[KeyOf[o]].owner = o
         /\ o \notin evicted
  <1>1. KeyOf[o] # NoKey /\ entries[KeyOf[o]] =
          [state |-> "in_progress", binding |-> BindingOf[o], owner |-> o]
    BY DEF RegistryInv, ReservationOwnsEntry
  <1>2. o \notin evicted
    BY DEF RegistryInv, EvictedAreCompleted
  <1> QED
    BY <1>1, <1>2, RegistryAssumption

\* The same for a completed key that is still remembered.
LEMMA RememberedEntry ==
  ASSUME RegistryInv, NEW o \in Owner, reservation[o] = "completed", o \notin evicted
  PROVE  /\ KeyOf[o] \in Key
         /\ entries[KeyOf[o]] =
              [state |-> "completed", binding |-> BindingOf[o], owner |-> o]
         /\ entries[KeyOf[o]].state = "completed"
         /\ entries[KeyOf[o]].owner = o
  <1>1. KeyOf[o] # NoKey /\ entries[KeyOf[o]] =
          [state |-> "completed", binding |-> BindingOf[o], owner |-> o]
    BY DEF RegistryInv, CompletedIsRemembered
  <1> QED
    BY <1>1, RegistryAssumption

\* No other request owns the entry of a held reservation.
LEMMA HeldAlone ==
  ASSUME RegistryInv, NEW o \in Owner, reservation[o] = "held",
         NEW p \in Owner, p # o,
         reservation[p] = "held" \/ (reservation[p] = "completed" /\ p \notin evicted)
  PROVE  KeyOf[p] \in Key /\ KeyOf[p] # KeyOf[o]
  <1>1. KeyOf[p] \in Key /\ entries[KeyOf[p]].owner = p
    BY HeldEntry, RememberedEntry
  <1>2. entries[KeyOf[o]].owner = o
    BY HeldEntry
  <1> QED
    BY <1>1, <1>2

\* MarkCompleted replaces one entry: that of the reservation.
LEMMA MarkCompletedEntry ==
  ASSUME RegistryInv, NEW o \in Owner, reservation[o] = "held"
  PROVE  MarkCompleted(o) = [entries EXCEPT ![KeyOf[o]] =
           [state |-> "completed", binding |-> BindingOf[o], owner |-> o]]
  <1>1. [entries[KeyOf[o]] EXCEPT !.state = "completed"] =
          [state |-> "completed", binding |-> BindingOf[o], owner |-> o]
    <2>1. [[state |-> "in_progress", binding |-> BindingOf[o], owner |-> o]
             EXCEPT !.state = "completed"] =
            [state |-> "completed", binding |-> BindingOf[o], owner |-> o]
      OBVIOUS
    <2> QED
      BY <2>1, HeldEntry
  <1> QED
    BY <1>1 DEF MarkCompleted

\* A reservation of a free key (Reserve, lines that add the entry) keeps it.
LEMMA ReserveNewStep ==
  ASSUME NEW o \in Owner, RegistryInv, ReserveNew(o)
  PROVE  RegistryInv'
  <1> USE RegistryAssumption DEF RegistryInv, ReserveNew, SetReservation
  <1> DEFINE k == KeyOf[o]
             e == [state |-> "in_progress", binding |-> BindingOf[o], owner |-> o]
  <1>0. /\ k \in Key /\ e \in Entry /\ entries[k] = Absent
        /\ entries' = [entries EXCEPT ![k] = e]
        /\ \A j \in Key : j # k => entries'[j] = entries[j]
        /\ entries'[k] = e
        /\ reservation' = [reservation EXCEPT ![o] = "held"] /\ reservation[o] = "none"
    BY DEF RegistryTypeOK, Entry
  <1>1. RegistryTypeOK'
    BY <1>0 DEF RegistryTypeOK, ReservationState
  <1>2. ReservationOwnsEntry'
    BY <1>0 DEF RegistryTypeOK, ReservationOwnsEntry, Absent
  <1>3. NoKeyLeftInProgress'
    BY <1>0, EntryCases DEF RegistryTypeOK, NoKeyLeftInProgress
  <1>4. EvictionListExact'
    BY <1>0 DEF RegistryTypeOK, EvictionListExact, Absent
  <1>5. CompletedIsRemembered'
    BY <1>0 DEF RegistryTypeOK, CompletedIsRemembered, Absent
  <1>6. CompletedByOwner'
    BY <1>0, EntryCases DEF RegistryTypeOK, CompletedByOwner
  <1>7. EvictedAreCompleted'
    BY <1>0 DEF RegistryTypeOK, EvictedAreCompleted
  <1> QED
    BY <1>1, <1>2, <1>3, <1>4, <1>5, <1>6, <1>7

\* A reservation that changes only itself, to a state without an entry.
LEMMA ReserveWithoutEntryStep ==
  ASSUME NEW o \in Owner, RegistryInv, ReserveKeyless(o) \/ ReserveRejected(o)
  PROVE  RegistryInv'
  <1> USE DEF RegistryInv
  <1>0. /\ UNCHANGED <<entries, completedKeys, evicted>>
        /\ reservation[o] = "none"
        /\ \/ reservation' = [reservation EXCEPT ![o] = "keyless"]
           \/ reservation' = [reservation EXCEPT ![o] = "rejected"]
    BY DEF ReserveKeyless, ReserveRejected, SetReservation
  <1>1. RegistryTypeOK'
    BY <1>0 DEF RegistryTypeOK, ReservationState
  <1>2. ReservationOwnsEntry' /\ CompletedIsRemembered' /\ EvictedAreCompleted'
    BY <1>0 DEF RegistryTypeOK, ReservationOwnsEntry, CompletedIsRemembered,
                EvictedAreCompleted
  <1>3. NoKeyLeftInProgress' /\ CompletedByOwner'
    BY <1>0, EntryCases DEF RegistryTypeOK, NoKeyLeftInProgress, CompletedByOwner
  <1>4. EvictionListExact'
    BY <1>0 DEF EvictionListExact
  <1> QED
    BY <1>1, <1>2, <1>3, <1>4

\* A completion below the capacity keeps it.
LEMMA CompleteWithRoomStep ==
  ASSUME NEW o \in Owner, RegistryInv, CompleteWithRoom(o)
  PROVE  RegistryInv'
  <1> USE RegistryAssumption DEF RegistryInv, CompleteWithRoom, SetReservation
  <1> DEFINE k == KeyOf[o]
             e == [state |-> "completed", binding |-> BindingOf[o], owner |-> o]
  <1>a. /\ k \in Key /\ e \in Entry /\ entries[k].state = "in_progress"
        /\ entries[k] = [state |-> "in_progress", binding |-> BindingOf[o], owner |-> o]
        /\ reservation' = [reservation EXCEPT ![o] = "completed"] /\ reservation[o] = "held"
        /\ o \notin evicted
    BY HeldEntry DEF RegistryTypeOK, Entry
  <1>b. entries' = [entries EXCEPT ![k] = e]
    BY <1>a, MarkCompletedEntry
  <1>0. /\ entries'[k] = e /\ entries'[k].state = "completed"
        /\ \A j \in Key : j # k => entries'[j] = entries[j]
        /\ entries' \in [Key -> Entry \cup {Absent}]
    BY <1>a, <1>b DEF RegistryTypeOK
  <1>1. RegistryTypeOK'
    BY <1>0, <1>a DEF RegistryTypeOK, ReservationState
  <1>2. ReservationOwnsEntry'
    <2> SUFFICES ASSUME NEW p \in Owner, reservation'[p] = "held"
                 PROVE  /\ KeyOf[p] # NoKey
                        /\ entries'[KeyOf[p]] =
                             [state |-> "in_progress", binding |-> BindingOf[p], owner |-> p]
      BY DEF ReservationOwnsEntry
    <2>1. p # o /\ reservation[p] = "held"
      BY <1>a DEF RegistryTypeOK
    <2> QED
      BY <2>1, <1>0, <1>a, HeldEntry, HeldAlone
  <1>3. NoKeyLeftInProgress'
    BY <1>0, <1>a, EntryCases DEF RegistryTypeOK, NoKeyLeftInProgress
  <1>4. EvictionListExact'
    <2>1. /\ completedKeys' = Append(completedKeys, k)
          /\ Len(completedKeys') = Len(completedKeys) + 1
          /\ completedKeys'[Len(completedKeys) + 1] = k
          /\ \A i \in 1 .. Len(completedKeys) :
               completedKeys'[i] = completedKeys[i] /\ completedKeys[i] \in Key
      BY <1>0, <1>a DEF RegistryTypeOK
    <2>2. \A i \in 1 .. Len(completedKeys) : completedKeys[i] # k
      BY <1>0, <1>a DEF EvictionListExact
    <2>3. Len(completedKeys) \in Nat
      BY DEF RegistryTypeOK
    <2>4. \A i \in 1 .. Len(completedKeys') : entries'[completedKeys'[i]].state = "completed"
      BY <1>0, <1>a, <2>1, <2>2, <2>3 DEF EvictionListExact
    <2>5. \A j \in Key : entries'[j].state = "completed" =>
            \E i \in 1 .. Len(completedKeys') : completedKeys'[i] = j
      BY <1>0, <1>a, <2>1, <2>3 DEF EvictionListExact
    <2>6. \A i, j \in 1 .. Len(completedKeys') : completedKeys'[i] = completedKeys'[j] => i = j
      BY <2>1, <2>2, <2>3 DEF EvictionListExact
    <2> QED
      BY <2>1, <2>3, <2>4, <2>5, <2>6 DEF EvictionListExact
  <1>5. CompletedIsRemembered'
    <2> SUFFICES ASSUME NEW p \in Owner, reservation'[p] = "completed", p \notin evicted
                 PROVE  /\ KeyOf[p] # NoKey
                        /\ entries'[KeyOf[p]] =
                             [state |-> "completed", binding |-> BindingOf[p], owner |-> p]
      BY DEF CompletedIsRemembered
    <2>1. CASE p = o
      BY <2>1, <1>0, <1>a, RegistryAssumption
    <2>2. CASE p # o
      <3>1. reservation[p] = "completed"
        BY <2>2, <1>a DEF RegistryTypeOK
      <3> QED
        BY <3>1, <2>2, <1>0, <1>a, RememberedEntry, HeldAlone, RegistryAssumption
    <2> QED
      BY <2>1, <2>2
  <1>6. CompletedByOwner'
    BY <1>0, <1>a, EntryCases DEF RegistryTypeOK, CompletedByOwner
  <1>7. EvictedAreCompleted'
    BY <1>0, <1>a DEF RegistryTypeOK, EvictedAreCompleted
  <1> QED
    BY <1>1, <1>2, <1>3, <1>4, <1>5, <1>6, <1>7

\* A completion that evicts the oldest key keeps it.
LEMMA CompleteEvictingStep ==
  ASSUME NEW o \in Owner, RegistryInv, CompleteEvicting(o)
  PROVE  RegistryInv'
  <1> USE RegistryAssumption DEF RegistryInv, CompleteEvicting, SetReservation
  <1> DEFINE k == KeyOf[o]
             e == [state |-> "completed", binding |-> BindingOf[o], owner |-> o]
             n == Len(completedKeys)
             old == completedKeys[1]
             gone == entries[old].owner
  <1>a. /\ k \in Key /\ e \in Entry /\ entries[k].state = "in_progress"
        /\ entries[k] = [state |-> "in_progress", binding |-> BindingOf[o], owner |-> o]
        /\ reservation' = [reservation EXCEPT ![o] = "completed"] /\ reservation[o] = "held"
        /\ o \notin evicted
    BY HeldEntry DEF RegistryTypeOK, Entry
  <1>b. /\ n \in Nat \ {0} /\ n = Capacity /\ Head(completedKeys) = old
        /\ \A i \in 1 .. n : completedKeys[i] \in Key /\ completedKeys[i] # k
    BY <1>a DEF RegistryTypeOK, EvictionListExact
  <1>c. /\ old \in Key /\ old # k /\ entries[old].state = "completed"
        /\ gone \in Owner /\ gone \notin evicted /\ KeyOf[gone] = old
        /\ reservation[gone] = "completed"
    <2>1. old \in Key /\ old # k /\ entries[old].state = "completed"
      BY <1>b DEF EvictionListExact
    <2>2. gone \in Owner
      BY <2>1, EntryCases
    <2> QED
      BY <2>1, <2>2 DEF CompletedByOwner
  <1>m. MarkCompleted(o) = [entries EXCEPT ![k] = e]
    BY <1>a, MarkCompletedEntry
  <1>e. entries' = [[entries EXCEPT ![k] = e] EXCEPT ![old] = Absent]
    BY <1>m, <1>b
  <1>0. /\ entries'[k] = e /\ entries'[k].state = "completed" /\ entries'[old] = Absent
        /\ \A j \in Key : j # k /\ j # old => entries'[j] = entries[j]
        /\ entries' \in [Key -> Entry \cup {Absent}]
        /\ evicted' = evicted \cup {gone}
    <2>1. entries \in [Key -> Entry \cup {Absent}] /\ k \in Key /\ old \in Key /\ old # k
      BY <1>a, <1>c DEF RegistryTypeOK
    <2>2. e \in Entry \cup {Absent} /\ e.state = "completed"
      BY <1>a
    <2>3. evicted' = evicted \cup {gone}
      BY <1>b
    <2>4. [entries EXCEPT ![k] = e] \in [Key -> Entry \cup {Absent}]
      BY <2>1, <2>2
    <2> QED
      BY <1>e, <2>1, <2>2, <2>3, <2>4
  <1>q. /\ completedKeys' \in Seq(Key)
        /\ Len(completedKeys') = n
        /\ completedKeys'[n] = k
        /\ \A i \in 1 .. n - 1 : completedKeys'[i] = completedKeys[i + 1]
    <2>1. Tail(completedKeys) \in Seq(Key) /\ Len(Tail(completedKeys)) = n - 1
      BY <1>b DEF RegistryTypeOK
    <2>2. \A i \in 1 .. n - 1 : Tail(completedKeys)[i] = completedKeys[i + 1]
      BY <1>b, <2>1 DEF RegistryTypeOK
    <2>3. completedKeys' = Append(Tail(completedKeys), k)
      OBVIOUS
    <2> QED
      BY <1>a, <1>b, <2>1, <2>2, <2>3
  <1>1. RegistryTypeOK'
    BY <1>0, <1>a, <1>c, <1>q DEF RegistryTypeOK, ReservationState
  <1>2. ReservationOwnsEntry'
    <2> SUFFICES ASSUME NEW p \in Owner, reservation'[p] = "held"
                 PROVE  /\ KeyOf[p] # NoKey
                        /\ entries'[KeyOf[p]] =
                             [state |-> "in_progress", binding |-> BindingOf[p], owner |-> p]
      BY DEF ReservationOwnsEntry
    <2>1. p # o /\ reservation[p] = "held"
      BY <1>a DEF RegistryTypeOK
    <2>2. KeyOf[p] # old
      BY <2>1, <1>c, HeldEntry
    <2> QED
      BY <2>1, <2>2, <1>0, <1>a, HeldEntry, HeldAlone, RegistryAssumption
  <1>3. NoKeyLeftInProgress'
    BY <1>0, <1>a, EntryCases DEF RegistryTypeOK, NoKeyLeftInProgress, Absent
  <1>4. EvictionListExact'
    <2>1. \A i \in 1 .. n : completedKeys'[i] # old
      BY <1>b, <1>c, <1>q DEF EvictionListExact
    <2>2. \A i \in 1 .. n : i = n \/ (completedKeys'[i] = completedKeys[i + 1] /\ i + 1 \in 1 .. n)
      BY <1>b, <1>q
    <2>3. \A i \in 1 .. n : entries'[completedKeys'[i]].state = "completed"
      BY <1>0, <1>b, <1>q, <2>1, <2>2 DEF EvictionListExact
    <2>4. \A j \in Key : entries'[j].state = "completed" => \E i \in 1 .. n : completedKeys'[i] = j
      <3> SUFFICES ASSUME NEW j \in Key, entries'[j].state = "completed"
                   PROVE  \E i \in 1 .. n : completedKeys'[i] = j
        OBVIOUS
      <3>1. CASE j = k
        BY <3>1, <1>q, <1>b
      <3>2. CASE j # k
        <4>1. j # old /\ entries[j].state = "completed"
          BY <3>2, <1>0 DEF Absent
        <4>2. PICK i \in 1 .. n : completedKeys[i] = j
          BY <4>1 DEF EvictionListExact
        <4>3. i - 1 \in 1 .. n - 1 /\ (i - 1) + 1 = i
          BY <4>1, <4>2, <1>b
        <4>4. completedKeys'[i - 1] = j
          BY <4>2, <4>3, <1>q
        <4>5. i - 1 \in 1 .. n
          BY <4>3, <1>b
        <4> QED
          BY <4>4, <4>5
      <3> QED
        BY <3>1, <3>2
    <2>5. \A i, j \in 1 .. n : completedKeys'[i] = completedKeys'[j] => i = j
      BY <1>b, <1>q, <2>2 DEF EvictionListExact
    <2> QED
      BY <1>b, <1>q, <2>3, <2>4, <2>5 DEF EvictionListExact
  <1>5. CompletedIsRemembered'
    <2> SUFFICES ASSUME NEW p \in Owner, reservation'[p] = "completed", p \notin evicted'
                 PROVE  /\ KeyOf[p] # NoKey
                        /\ entries'[KeyOf[p]] =
                             [state |-> "completed", binding |-> BindingOf[p], owner |-> p]
      BY DEF CompletedIsRemembered
    <2>1. CASE p = o
      BY <2>1, <1>0, <1>a, RegistryAssumption
    <2>2. CASE p # o
      <3>1. reservation[p] = "completed" /\ p \notin evicted /\ p # gone
        BY <2>2, <1>0, <1>a DEF RegistryTypeOK
      <3>2. KeyOf[p] # old
        BY <3>1, RememberedEntry
      <3> QED
        BY <3>1, <3>2, <2>2, <1>0, <1>a, RememberedEntry, HeldAlone, RegistryAssumption
    <2> QED
      BY <2>1, <2>2
  <1>6. CompletedByOwner'
    <2> SUFFICES ASSUME NEW j \in Key, entries'[j].state = "completed"
                 PROVE  /\ reservation'[entries'[j].owner] = "completed"
                        /\ entries'[j].owner \notin evicted'
                        /\ KeyOf[entries'[j].owner] = j
      BY DEF CompletedByOwner
    <2>1. CASE j = k
      BY <2>1, <1>0, <1>a, <1>c DEF RegistryTypeOK
    <2>2. CASE j # k
      <3>1. j # old /\ entries'[j] = entries[j]
        BY <2>2, <1>0 DEF Absent
      <3>2. entries[j].owner \in Owner
        BY <3>1, EntryCases
      <3> QED
        BY <3>1, <3>2, <1>0, <1>a, <1>c DEF RegistryTypeOK, CompletedByOwner
    <2> QED
      BY <2>1, <2>2
  <1>7. EvictedAreCompleted'
    BY <1>0, <1>a, <1>c DEF RegistryTypeOK, EvictedAreCompleted
  <1> QED
    BY <1>1, <1>2, <1>3, <1>4, <1>5, <1>6, <1>7

\* Releasing a reservation (Release of the registry) keeps it.
LEMMA ReleaseStep ==
  ASSUME NEW o \in Owner, RegistryInv, Release(o)
  PROVE  RegistryInv'
  <1> USE RegistryAssumption DEF RegistryInv, Release, SetReservation
  <1> DEFINE k == KeyOf[o]
  <1>a. /\ k \in Key /\ IsActive(o)
        /\ reservation' = [reservation EXCEPT ![o] = "released"] /\ reservation[o] = "held"
    BY HeldEntry DEF IsActive
  <1>0. /\ entries'[k] = Absent
        /\ \A j \in Key : j # k => entries'[j] = entries[j]
        /\ entries' \in [Key -> Entry \cup {Absent}]
        /\ entries[k].state = "in_progress" /\ entries[k].owner = o
    BY <1>a, HeldEntry DEF RegistryTypeOK
  <1>1. RegistryTypeOK'
    BY <1>0, <1>a DEF RegistryTypeOK, ReservationState
  <1>2. ReservationOwnsEntry'
    <2> SUFFICES ASSUME NEW p \in Owner, reservation'[p] = "held"
                 PROVE  /\ KeyOf[p] # NoKey
                        /\ entries'[KeyOf[p]] =
                             [state |-> "in_progress", binding |-> BindingOf[p], owner |-> p]
      BY DEF ReservationOwnsEntry
    <2>1. p # o /\ reservation[p] = "held"
      BY <1>a DEF RegistryTypeOK
    <2> QED
      BY <2>1, <1>0, <1>a, HeldEntry, HeldAlone
  <1>3. NoKeyLeftInProgress'
    BY <1>0, <1>a, EntryCases DEF RegistryTypeOK, NoKeyLeftInProgress, Absent
  <1>4. EvictionListExact'
    BY <1>0, <1>a DEF RegistryTypeOK, EvictionListExact, Absent
  <1>5. CompletedIsRemembered'
    <2> SUFFICES ASSUME NEW p \in Owner, reservation'[p] = "completed", p \notin evicted
                 PROVE  /\ KeyOf[p] # NoKey
                        /\ entries'[KeyOf[p]] =
                             [state |-> "completed", binding |-> BindingOf[p], owner |-> p]
      BY DEF CompletedIsRemembered
    <2>1. p # o /\ reservation[p] = "completed"
      BY <1>a DEF RegistryTypeOK
    <2> QED
      BY <2>1, <1>0, <1>a, RememberedEntry, HeldAlone, RegistryAssumption
  <1>6. CompletedByOwner'
    BY <1>0, <1>a, EntryCases DEF RegistryTypeOK, CompletedByOwner, Absent
  <1>7. EvictedAreCompleted'
    BY <1>0, <1>a DEF RegistryTypeOK, EvictedAreCompleted
  <1> QED
    BY <1>1, <1>2, <1>3, <1>4, <1>5, <1>6, <1>7

\* Every operation of the registry keeps the invariant.
LEMMA RegistryInvStep == RegistryInv /\ [RegistryNext]_registryVars => RegistryInv'
  <1>1. RegistryInv /\ UNCHANGED registryVars => RegistryInv'
    BY DEF registryVars, RegistryInv, RegistryTypeOK, ReservationOwnsEntry,
           NoKeyLeftInProgress, EvictionListExact, CompletedIsRemembered,
           CompletedByOwner, EvictedAreCompleted
  <1>2. ASSUME NEW o \in Owner, RegistryInv, RegistryStep(o)
        PROVE  RegistryInv'
    BY <1>2, ReserveNewStep, ReserveWithoutEntryStep, CompleteWithRoomStep,
       CompleteEvictingStep, ReleaseStep DEF RegistryStep, Complete
  <1> QED
    BY <1>1, <1>2 DEF RegistryNext

\* The invariant holds throughout, for every table.
THEOREM RegistryInvariant == RegistrySpec => []RegistryInv
  BY RegistryInvInit, RegistryInvStep, PTL DEF RegistrySpec

\* The table, the eviction list and the reservations stay in their types.
THEOREM RegistryTypeCorrect == RegistrySpec => []RegistryTypeOK
  <1>1. RegistryInv => RegistryTypeOK
    BY DEF RegistryInv
  <1> QED
    BY <1>1, RegistryInvariant, PTL

\* No key stays in progress when its request has ended.
THEOREM KeysAreReleased == RegistrySpec => []NoKeyLeftInProgress
  <1>1. RegistryInv => NoKeyLeftInProgress
    BY DEF RegistryInv
  <1> QED
    BY <1>1, RegistryInvariant, PTL

\* A completed key is remembered with its binding until it is evicted.
THEOREM CompletedStays == RegistrySpec => []CompletedIsRemembered
  <1>1. RegistryInv => CompletedIsRemembered
    BY DEF RegistryInv
  <1> QED
    BY <1>1, RegistryInvariant, PTL

\* Complete never finds its reservation gone.
THEOREM ReservationsSound == RegistrySpec => []ReservationOwnsEntry
  <1>1. RegistryInv => ReservationOwnsEntry
    BY DEF RegistryInv
  <1> QED
    BY <1>1, RegistryInvariant, PTL

\* The eviction list names the completed keys, each once, within the capacity.
THEOREM EvictionListSound == RegistrySpec => []EvictionListExact
  <1>1. RegistryInv => EvictionListExact
    BY DEF RegistryInv
  <1> QED
    BY <1>1, RegistryInvariant, PTL

\* While a key is remembered, at most one request completes under it.
THEOREM CompletedOnce == RegistrySpec => []OncePerRememberedKey
  <1>1. RegistryInv => OncePerRememberedKey
    BY RememberedEntry DEF OncePerRememberedKey
  <1> QED
    BY <1>1, RegistryInvariant, PTL

\* What a step may do to a completed key, as an action.
EvictionRule ==
  \A k \in Key : entries[k].state = "completed" /\ entries'[k] # entries[k] =>
    /\ Len(completedKeys) = Capacity
    /\ \A o \in Owner : o \in evicted' \ evicted => KeyOf[o] = completedKeys[1]
    /\ \A i \in 2 .. Len(completedKeys) : entries'[completedKeys[i]].state = "completed"

\* A completion at capacity forgets the head of the list and nothing else.
LEMMA EvictingKeepsRule ==
  ASSUME NEW o \in Owner, RegistryInv, CompleteEvicting(o)
  PROVE  EvictionRule
  <1> DEFINE k == KeyOf[o]
             e == [state |-> "completed", binding |-> BindingOf[o], owner |-> o]
             n == Len(completedKeys)
             old == completedKeys[1]
             gone == entries[old].owner
  <1>1. k \in Key /\ entries[k].state = "in_progress" /\ reservation[o] = "held"
    BY HeldEntry DEF CompleteEvicting, SetReservation
  <1>2. RegistryTypeOK /\ EvictionListExact /\ CompletedByOwner
    BY DEF RegistryInv
  <1>3. /\ n \in Nat \ {0} /\ n = Capacity /\ Head(completedKeys) = old
        /\ \A i \in 1 .. n : completedKeys[i] \in Key /\ completedKeys[i] # k
        /\ \A i \in 2 .. n : completedKeys[i] # old
    <2>1. completedKeys \in Seq(Key) /\ n \in Nat /\ n <= Capacity /\ n >= Capacity
      BY <1>2 DEF RegistryTypeOK, EvictionListExact, CompleteEvicting
    <2>2. n \in Nat \ {0} /\ n = Capacity /\ Head(completedKeys) = old
      BY <2>1, RegistryAssumption
    <2>3. \A i \in 1 .. n : completedKeys[i] \in Key /\ completedKeys[i] # k
      BY <1>1, <1>2, <2>1 DEF EvictionListExact
    <2>4. \A i \in 2 .. n : completedKeys[i] # old
      BY <1>2, <2>2 DEF EvictionListExact
    <2> QED
      BY <2>2, <2>3, <2>4
  <1>4. old \in Key /\ old # k /\ entries[old].state = "completed" /\ KeyOf[gone] = old
    <2>1. old \in Key /\ old # k /\ entries[old].state = "completed"
      BY <1>2, <1>3 DEF EvictionListExact
    <2> QED
      BY <1>2, <2>1 DEF CompletedByOwner
  <1>5. entries' = [[entries EXCEPT ![k] = e] EXCEPT ![old] = Absent]
    BY <1>1, <1>3, MarkCompletedEntry DEF CompleteEvicting
  <1>6. \A j \in Key : j # k /\ j # old => entries'[j] = entries[j]
    BY <1>1, <1>2, <1>4, <1>5 DEF RegistryTypeOK
  <1>7. \A p \in Owner : p \in evicted' \ evicted => KeyOf[p] = old
    BY <1>3, <1>4 DEF CompleteEvicting
  <1>8. \A i \in 2 .. n : entries'[completedKeys[i]].state = "completed"
    BY <1>2, <1>3, <1>6 DEF EvictionListExact
  <1> QED
    BY <1>3, <1>7, <1>8 DEF EvictionRule

\* No other operation touches a completed key.
LEMMA OthersKeepRule ==
  ASSUME NEW o \in Owner, RegistryInv,
         ReserveKeyless(o) \/ ReserveNew(o) \/ ReserveRejected(o)
           \/ CompleteWithRoom(o) \/ Release(o)
  PROVE  EvictionRule
  <1>1. RegistryTypeOK
    BY DEF RegistryInv
  <1>2. CASE ReserveKeyless(o) \/ ReserveRejected(o)
    BY <1>2 DEF ReserveKeyless, ReserveRejected, EvictionRule
  <1>3. CASE ReserveNew(o)
    BY <1>1, <1>3, RegistryAssumption DEF ReserveNew, EvictionRule, RegistryTypeOK, Absent
  <1>4. CASE CompleteWithRoom(o)
    <2>1. reservation[o] = "held" /\ entries' = MarkCompleted(o)
      BY <1>4 DEF CompleteWithRoom, SetReservation
    <2>2. KeyOf[o] \in Key /\ entries[KeyOf[o]].state = "in_progress"
      BY <2>1, HeldEntry
    <2>3. \A j \in Key : j # KeyOf[o] => entries'[j] = entries[j]
      BY <1>1, <2>1, <2>2, MarkCompletedEntry DEF RegistryTypeOK
    <2> QED
      BY <2>2, <2>3 DEF EvictionRule
  <1>5. CASE Release(o)
    <2>1. reservation[o] = "held"
      BY <1>5 DEF Release, SetReservation
    <2>2. KeyOf[o] \in Key /\ entries[KeyOf[o]].state = "in_progress"
      BY <2>1, HeldEntry
    <2>3. \A j \in Key : j # KeyOf[o] => entries'[j] = entries[j]
      BY <1>1, <1>5, <2>2 DEF RegistryTypeOK, Release
    <2> QED
      BY <2>2, <2>3 DEF EvictionRule
  <1> QED
    BY <1>2, <1>3, <1>4, <1>5

\* A completed key is forgotten only by an eviction at capacity, the oldest first.
THEOREM EvictsOldest == RegistrySpec => EvictsOldestWhenFull
  <1>1. RegistryInv /\ RegistryNext => EvictionRule
    BY EvictingKeepsRule, OthersKeepRule DEF RegistryNext, RegistryStep, Complete
  <1>2. RegistryInv /\ [RegistryNext]_registryVars => [EvictionRule]_registryVars
    BY <1>1
  <1> QED
    BY <1>2, RegistryInvariant, PTL DEF RegistrySpec, EvictsOldestWhenFull, EvictionRule
=============================================================================
