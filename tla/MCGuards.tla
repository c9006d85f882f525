------------------------------- MODULE MCGuards -------------------------------
(***************************************************************************)
(* The two guards a request passes, the gate and the idempotency registry. *)
(* They share no state, so a behaviour is one of the gate or one of the    *)
(* registry; PluginRuntime has them together.                              *)
(*                                                                         *)
(* Seven requests over four keys and room for two completed ones: a retry, *)
(* a conflicting use and a later reuse of k1, and enough other completions *)
(* to evict it, and to show a table that holds one key more than it may.   *)
(***************************************************************************)
EXTENDS SerializedOperationGate, IdempotencyRegistry

CONSTANTS o1, o2, o3, o4, o5, o6, o7, k1, k2, k3, k4, b1, b2

MCOwner == {o1, o2, o3, o4, o5, o6, o7}

MCKeyOf ==
  [o \in MCOwner |-> CASE o \in {o1, o2, o3} -> k1
                       [] o = o4 -> k2
                       [] o = o5 -> k3
                       [] o = o6 -> k4
                       [] o = o7 -> NoKey]

MCBindingOf == [o \in MCOwner |-> IF o = o3 THEN b2 ELSE b1]

VARIABLE part

guardVars == <<part, gateVars, registryVars>>

GuardsInit == part \in {"gate", "registry"} /\ GateInit /\ RegistryInit

GuardsNext ==
  /\ UNCHANGED part
  /\ \/ part = "gate" /\ GateNext /\ UNCHANGED registryVars
     \/ part = "registry" /\ RegistryNext /\ UNCHANGED gateVars

\* GateFairness, in the behaviours that are the gate's.
GuardsSpec ==
  /\ GuardsInit /\ [][GuardsNext]_guardVars
  /\ WF_guardVars(part = "gate" /\ \E c \in Caller : Acquire(c) /\ UNCHANGED <<part, registryVars>>)
  /\ \A c \in Caller :
       WF_guardVars(/\ part = "gate" /\ UNCHANGED <<part, registryVars>>
                    /\ \/ LeaveQueue(c) \/ Activate(c) \/ AbortEntry(c)
                       \/ BeginExit(c) \/ ReturnPermit(c))
=============================================================================
