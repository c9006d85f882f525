--------------------------- MODULE MCExecutionParts ---------------------------
(***************************************************************************)
(* Three parts of an execution that share no state: the cache its script   *)
(* comes from, the conversion of its return value and the diagnostics of   *)
(* its native call.  A behaviour is one of one part.                       *)
(*                                                                         *)
(* The values are all those made of two containers of any kind and up to   *)
(* one child more than the limit, each other or itself among them, a list  *)
(* of one item and that item, which may be convertible or not.             *)
(***************************************************************************)
EXTENDS ScriptCache, ResultTraversal, CompletionObserver, TLC

CONSTANTS a, b, inner, leaf

Children == UNION {[1..n -> {a, b, inner}] : n \in 0..(MaxCollectionItems + 1)}

SmallGraphs ==
  {[kind |-> (a :> ka) @@ (b :> kb) @@ (inner :> "list") @@ (leaf :> kl),
    kids |-> (a :> ca) @@ (b :> cb) @@ (inner :> <<leaf>>) @@ (leaf :> <<>>)]
   : ka \in Containers, kb \in Containers, kl \in Kinds \ Containers,
     ca \in Children, cb \in Children}

\* Operations and threads are alike.
Alike == Permutations(Operation) \cup Permutations(Thread)

VARIABLE part

partVars == <<part, cacheVars, traversalVars, observerVars>>

SomeGraph == CHOOSE g \in Graphs : TRUE

\* The value is only told apart where it is converted.
PartsInit ==
  /\ part \in {"cache", "conversion", "observer"}
  /\ CacheInit /\ TraversalInit /\ ObserverInit
  /\ part # "conversion" => graph = SomeGraph

PartsNext ==
  /\ UNCHANGED part
  /\ \/ part = "cache" /\ CacheNext /\ UNCHANGED <<traversalVars, observerVars>>
     \/ part = "conversion" /\ TraversalNext /\ UNCHANGED <<cacheVars, observerVars>>
     \/ part = "observer" /\ ObserverNext /\ UNCHANGED <<cacheVars, traversalVars>>

PartsSpec == PartsInit /\ [][PartsNext]_partVars
=============================================================================
