------------------------- MODULE ExclusiveResource -------------------------
(***************************************************************************)
(* What the operation gate of the plugin promises, and nothing else: a     *)
(* resource that is free or belongs to exactly one caller, and is handed   *)
(* over only through the free state.  SerializedOperationGate implements   *)
(* it; the Civil API is the resource.                                      *)
(***************************************************************************)
CONSTANTS Caller,    \* the requests that compete for the resource
          NoCaller   \* the resource is free; not a member of Caller

VARIABLE holder

Init == holder = NoCaller

Take(c) ==
  /\ holder = NoCaller
  /\ holder' = c

Give(c) ==
  /\ holder = c
  /\ holder' = NoCaller

Next == \E c \in Caller : Take(c) \/ Give(c)

Spec == Init /\ [][Next]_holder
=============================================================================
