------------------------ MODULE IdempotencyRegistry ------------------------
(***************************************************************************)
(* The session's table of idempotency keys.  A keyed write reserves its    *)
(* key before it waits for the gate, completes it once the write has       *)
(* committed and releases it otherwise.  Completed keys are kept in order  *)
(* of completion and the oldest is forgotten when there are too many.      *)
(* Every operation is one lock block, so one step.                         *)
(***************************************************************************)
EXTENDS Naturals, Sequences

CONSTANTS
  Owner,       \* requests, each of which reserves at most once
  Key,         \* idempotency keys
  Binding,     \* (code hash, drawing identity, saveDrawing)
  KeyOf,       \* the key of a request, or NoKey
  BindingOf,   \* the binding of a request
  Capacity,    \* CompletedCapacity, 256 in the code
  NoKey, NoOwner, NoBinding

ASSUME RegistryAssumption ==
  /\ KeyOf \in [Owner -> Key \cup {NoKey}]
  /\ BindingOf \in [Owner -> Binding]
  /\ Capacity \in Nat \ {0}
  /\ NoKey \notin Key /\ NoOwner \notin Owner

VARIABLES
  entries,        \* _entries; an absent key maps to Absent
  completedKeys,  \* _completedKeys, oldest first
  reservation,    \* the IdempotencyReservation of each request
  evicted         \* history: requests whose completed key was forgotten

registryVars == <<entries, completedKeys, reservation, evicted>>

\* The owner of an entry is not in the code; it names the reservation that
\* added the entry.
Entry == [state : {"in_progress", "completed"}, binding : Binding, owner : Owner]

Absent == [state |-> "absent", binding |-> NoBinding, owner |-> NoOwner]

ReservationState ==
  {"none", "keyless", "held", "completed", "released", "rejected"}

RegistryInit ==
  /\ entries = [k \in Key |-> Absent]
  /\ completedKeys = <<>>
  /\ reservation = [o \in Owner |-> "none"]
  /\ evicted = {}

SetReservation(o, from, to) ==
  /\ reservation[o] = from
  /\ reservation' = [reservation EXCEPT ![o] = to]

\* What Reserve answers for a key that is in the table.
Rejection(o) ==
  IF entries[KeyOf[o]].binding # BindingOf[o] THEN "IDEMPOTENCY_CONFLICT"
  ELSE IF entries[KeyOf[o]].state = "completed" THEN "IDEMPOTENCY_COMPLETED"
  ELSE "IDEMPOTENCY_IN_PROGRESS"

ReserveKeyless(o) ==
  /\ KeyOf[o] = NoKey
  /\ SetReservation(o, "none", "keyless")
  /\ UNCHANGED <<entries, completedKeys, evicted>>

ReserveNew(o) ==
  /\ KeyOf[o] # NoKey
  /\ entries[KeyOf[o]] = Absent
  /\ SetReservation(o, "none", "held")
  /\ entries' = [entries EXCEPT ![KeyOf[o]] =
                   [state |-> "in_progress", binding |-> BindingOf[o], owner |-> o]]
  /\ UNCHANGED <<completedKeys, evicted>>

ReserveRejected(o) ==
  /\ KeyOf[o] # NoKey
  /\ entries[KeyOf[o]] # Absent
  /\ SetReservation(o, "none", "rejected")
  /\ UNCHANGED <<entries, completedKeys, evicted>>

\* The test Complete and Release make on the entry of the reservation's key.
IsActive(o) ==
  /\ entries[KeyOf[o]].binding = BindingOf[o]
  /\ entries[KeyOf[o]].state = "in_progress"

MarkCompleted(o) == [entries EXCEPT ![KeyOf[o]].state = "completed"]

\* Complete while there is room.  When the entry is not active the code throws
\* InvalidOperationException; ReservationOwnsEntry says it never does.
CompleteWithRoom(o) ==
  /\ SetReservation(o, "held", "completed")
  /\ IsActive(o)
  /\ Len(completedKeys) < Capacity
  /\ completedKeys' = Append(completedKeys, KeyOf[o])
  /\ entries' = MarkCompleted(o)
  /\ UNCHANGED evicted

\* Faulty variant of CompleteEvicting: a key is forgotten one too early.
CompleteEvictingEarly(o) ==
  LET oldest == Head(completedKeys) IN
  /\ SetReservation(o, "held", "completed")
  /\ IsActive(o)
  /\ Len(completedKeys) >= Capacity - 1
  /\ completedKeys' = Append(Tail(completedKeys), KeyOf[o])
  /\ entries' = [MarkCompleted(o) EXCEPT ![oldest] = Absent]
  /\ evicted' = evicted \cup {entries[oldest].owner}

\* Complete at capacity.  The eviction loop runs once: a call adds one key.
CompleteEvicting(o) ==
  LET oldest == Head(completedKeys) IN
  /\ SetReservation(o, "held", "completed")
  /\ IsActive(o)
  /\ Len(completedKeys) >= Capacity
  /\ completedKeys' = Append(Tail(completedKeys), KeyOf[o])
  /\ entries' = [MarkCompleted(o) EXCEPT ![oldest] = Absent]
  /\ evicted' = evicted \cup {entries[oldest].owner}

Complete(o) == CompleteWithRoom(o) \/ CompleteEvicting(o)

\* ReleaseIfIncomplete of a reservation that was not completed.
Release(o) ==
  /\ SetReservation(o, "held", "released")
  /\ entries' = IF IsActive(o) THEN [entries EXCEPT ![KeyOf[o]] = Absent] ELSE entries
  /\ UNCHANGED <<completedKeys, evicted>>

RegistryStep(o) ==
  \/ ReserveKeyless(o)
  \/ ReserveNew(o)
  \/ ReserveRejected(o)
  \/ Complete(o)
  \/ Release(o)

RegistryNext == \E o \in Owner : RegistryStep(o)

RegistrySpec == RegistryInit /\ [][RegistryNext]_registryVars

-----------------------------------------------------------------------------
RegistryTypeOK ==
  /\ entries \in [Key -> Entry \cup {Absent}]
  /\ completedKeys \in Seq(Key)
  /\ reservation \in [Owner -> ReservationState]
  /\ evicted \subseteq Owner

\* A reservation that is neither completed nor released is the entry of its key,
\* so the exception in Complete is unreachable and a Release never removes what
\* another request reserved.
ReservationOwnsEntry ==
  \A o \in Owner : reservation[o] = "held" =>
    /\ KeyOf[o] # NoKey
    /\ entries[KeyOf[o]] =
         [state |-> "in_progress", binding |-> BindingOf[o], owner |-> o]

\* A key is in progress only while the request that reserved it is: no failure
\* leaves a key that answers IDEMPOTENCY_IN_PROGRESS for the rest of the session.
NoKeyLeftInProgress ==
  \A k \in Key : entries[k].state = "in_progress" =>
    /\ reservation[entries[k].owner] = "held"
    /\ KeyOf[entries[k].owner] = k

\* The eviction list and the table agree: the list names the completed keys, each
\* once, and at most Capacity of them.  A stale or double entry in the list would
\* make an eviction drop a key that is in progress again.
EvictionListExact ==
  /\ \A i \in 1 .. Len(completedKeys) : entries[completedKeys[i]].state = "completed"
  /\ \A k \in Key : entries[k].state = "completed" =>
       \E i \in 1 .. Len(completedKeys) : completedKeys[i] = k
  /\ \A i, j \in 1 .. Len(completedKeys) : completedKeys[i] = completedKeys[j] => i = j
  /\ Len(completedKeys) <= Capacity

\* A completed key is remembered with the binding of the request that completed
\* it, until it is evicted.
CompletedIsRemembered ==
  \A o \in Owner : reservation[o] = "completed" /\ o \notin evicted =>
    /\ KeyOf[o] # NoKey
    /\ entries[KeyOf[o]] =
         [state |-> "completed", binding |-> BindingOf[o], owner |-> o]

\* Two requests complete under one key only if the key of one was evicted
\* between: while a key is remembered its write is completed once.
OncePerRememberedKey ==
  \A o, p \in Owner :
    /\ o # p
    /\ KeyOf[o] = KeyOf[p]
    /\ reservation[o] = "completed"
    /\ reservation[p] = "completed"
    => o \in evicted \/ p \in evicted

\* A completed key is forgotten only when the table is full, and then it is the
\* one completed longest ago: every other remembered key stays.
EvictsOldestWhenFull ==
  [][\A k \in Key : entries[k].state = "completed" /\ entries'[k] # entries[k] =>
       /\ Len(completedKeys) = Capacity
       /\ \A o \in Owner : o \in evicted' \ evicted => KeyOf[o] = completedKeys[1]
       /\ \A i \in 2 .. Len(completedKeys) : entries'[completedKeys[i]].state = "completed"
    ]_registryVars
=============================================================================
