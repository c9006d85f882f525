--------------------------- MODULE ResultTraversal ---------------------------
(***************************************************************************)
(* The conversion of a script's return value to JSON: a depth-first walk   *)
(* over an object graph the script built, with a depth limit, a node       *)
(* budget, a detector of reference cycles and a limit of items at which    *)
(* lists are cut with a note and everything else is refused.  A result is  *)
(* the set of places (paths) it has a value for.                           *)
(***************************************************************************)
EXTENDS Naturals, Sequences, FiniteSets, FiniteSetsExt, Option

CONSTANTS
  Graphs,      \* return values: [kind |-> of each object, kids |-> of each object]
  Root,
  MaxDepth, MaxCollectionItems, MaxTotalNodes

ASSUME LimitAssumption == {MaxDepth, MaxCollectionItems, MaxTotalNodes} \subseteq Nat

\* "failing" is a lazy sequence whose query throws after its last item;
\* "clashing" an object two of whose members have one camel-case name.
Lists == {"list", "sequence", "failing"}
Containers == Lists \cup {"dictionary", "clashing"}
Kinds == Containers \cup {"scalar", "unsupported"}

\* A graph is closed, its scalars have no children, and a call is not None.
ASSUME GraphAssumption ==
  \A g \in Graphs :
    LET Objects == DOMAIN g.kids IN
    /\ Root \in Objects /\ g.kind \in [Objects -> Kinds]
    /\ \A obj \in Objects : g.kids[obj] \in Seq(Objects)
    /\ \A obj \in Objects : g.kind[obj] = "scalar" => g.kids[obj] = <<>>
    /\ None \notin [obj : Objects, path : Seq(Nat)]

VARIABLES
  graph,
  pending,    \* the object and path Convert is called with, None between two
  frames,     \* containers being converted: object, path, children taken
  active,     \* _activeReferences
  nodes,      \* _totalNodes
  places,     \* the paths converted so far
  truncations,
  outcome

traversalVars == <<graph, pending, frames, active, nodes, places, truncations, outcome>>

Kind(obj) == graph.kind[obj]
Kids(obj) == graph.kids[obj]

TraversalInit ==
  /\ graph \in Graphs
  /\ pending = [obj |-> Root, path |-> <<>>]
  /\ frames = <<>> /\ active = {} /\ nodes = 0
  /\ places = {} /\ truncations = {} /\ outcome = "running"

Top == frames[Len(frames)]

\* Why Convert throws at the object itself.
Throws(obj, path) ==
  \/ Len(path) > MaxDepth                          \* EnsureDepth
  \/ nodes + 1 > MaxTotalNodes                     \* ConsumeNode
  \/ Kind(obj) = "unsupported"
  \/ Kind(obj) \in Containers \ Lists /\ Len(Kids(obj)) > MaxCollectionItems
  \/ obj \in active                                \* TrackReference

Refuse ==
  /\ outcome' = "refused" /\ pending' = None
  /\ UNCHANGED <<graph, frames, active, nodes, places, truncations>>

ConvertRefused ==
  /\ pending # None /\ Throws(pending.obj, pending.path)
  /\ Refuse

\* A scalar is its value; a container opens a frame.
Convert ==
  /\ pending # None /\ ~Throws(pending.obj, pending.path)
  /\ nodes' = nodes + 1 /\ places' = places \cup {pending.path} /\ pending' = None
  /\ IF Kind(pending.obj) \in Containers
       THEN /\ frames' = Append(frames, [obj |-> pending.obj, path |-> pending.path, taken |-> 0])
            /\ active' = active \cup {pending.obj}
       ELSE UNCHANGED <<frames, active>>
  /\ UNCHANGED <<graph, truncations, outcome>>

Taking == outcome = "running" /\ pending = None /\ frames # <<>>
HasNext == Top.taken < Len(Kids(Top.obj))
AtLimit == Kind(Top.obj) \in Lists /\ Top.taken = MaxCollectionItems

\* The next item or member; a name already taken is refused when it is added.
Clashes == Kind(Top.obj) = "clashing" /\ Top.taken = 1

TakeNext ==
  /\ Taking /\ HasNext /\ ~AtLimit /\ ~Clashes
  /\ pending' = [obj |-> Kids(Top.obj)[Top.taken + 1], path |-> Append(Top.path, Top.taken + 1)]
  /\ frames' = [frames EXCEPT ![Len(frames)].taken = @ + 1]
  /\ UNCHANGED <<graph, active, nodes, places, truncations, outcome>>

NextThrows ==
  /\ Taking
  /\ \/ HasNext /\ Clashes
     \/ ~HasNext /\ Kind(Top.obj) = "failing"
  /\ Refuse

\* Faulty variant: the reference stays, as in a set of visited objects.
LeaveVisited ==
  /\ frames' = SubSeq(frames, 1, Len(frames) - 1)
  /\ UNCHANGED active

\* The container is done: its frame goes, and so does its active reference.
Leave ==
  /\ frames' = SubSeq(frames, 1, Len(frames) - 1)
  /\ active' = active \ {Top.obj}

Total == IF Kind(Top.obj) = "list" THEN Len(Kids(Top.obj)) ELSE None

\* Faulty variant: the limit is the end of the list.
CutSilently ==
  /\ Taking /\ HasNext /\ AtLimit
  /\ Leave
  /\ UNCHANGED <<graph, pending, nodes, places, truncations, outcome>>

\* One item past the limit is there: the list ends here, with a note.
Cut ==
  /\ Taking /\ HasNext /\ AtLimit
  /\ truncations' = truncations \cup {[path |-> Top.path, total |-> Total]}
  /\ Leave
  /\ UNCHANGED <<graph, pending, nodes, places, outcome>>

Close ==
  /\ Taking /\ ~HasNext /\ Kind(Top.obj) # "failing"
  /\ Leave
  /\ UNCHANGED <<graph, pending, nodes, places, truncations, outcome>>

Return ==
  /\ outcome = "running" /\ pending = None /\ frames = <<>>
  /\ outcome' = "converted"
  /\ UNCHANGED <<graph, pending, frames, active, nodes, places, truncations>>

TraversalNext ==
  \/ ConvertRefused \/ Convert \/ TakeNext \/ NextThrows \/ Cut \/ Close \/ Return

TraversalSpec == TraversalInit /\ [][TraversalNext]_traversalVars

----------------------------------------------------------------------------
(* What the result should be, said of the graph alone. *)

Kept(obj) ==
  IF Kind(obj) \in Lists THEN Min({Len(Kids(obj)), MaxCollectionItems}) ELSE Len(Kids(obj))

\* The places of the unfolded value, level by level, one beyond the limit.
Level[d \in 0..(MaxDepth + 1)] ==
  IF d = 0 THEN {[obj |-> Root, path |-> <<>>]}
  ELSE UNION {{[obj |-> Kids(v.obj)[i], path |-> Append(v.path, i)] : i \in 1..Kept(v.obj)}
              : v \in Level[d - 1]}

Unfolded == UNION {Level[d] : d \in 0..MaxDepth}

\* A value is converted if its unfolding is finite and small and nothing in
\* it must be refused.  A shared object is no reason, and a cycle needs none
\* of its own: its unfolding is too deep.
Acceptable(members) ==
  /\ Level[MaxDepth + 1] = {}
  /\ Cardinality(Unfolded) <= MaxTotalNodes
  /\ \A v \in Unfolded :
       LET size == Len(Kids(v.obj)) IN
       /\ Kind(v.obj) # "unsupported"
       /\ Kind(v.obj) = "failing" => size > MaxCollectionItems
       /\ Kind(v.obj) = "clashing" => size < 2
       /\ Kind(v.obj) \notin Lists => size <= members

Overlong(v) == Kind(v.obj) \in Lists /\ Len(Kids(v.obj)) > MaxCollectionItems

\* The walk converts what should be converted and refuses the rest: sharing
\* is not taken for a cycle, and no cycle, depth or breadth escapes the limits.
ConvertsExactlyTheAcceptable ==
  outcome # "running" => (outcome = "converted" <=> Acceptable(MaxCollectionItems))

\* "The cut is never silent": a converted result has every place of the value
\* but the items past the limit, and says so of each list it cut, with the
\* length where one is known.
CutsAreReported ==
  outcome = "converted" =>
    /\ places = {v.path : v \in Unfolded}
    /\ truncations = {[path |-> v.path,
                       total |-> IF Kind(v.obj) = "list" THEN Len(Kids(v.obj)) ELSE None]
                      : v \in {w \in Unfolded : Overlong(w)}}

\* "A collection with more than 1000 items keeps its first 1000": true of lists
\* and sequences; a longer dictionary, supported as well, is refused.
LongCollectionsAreKept ==
  outcome = "refused" =>
    ~Acceptable(Max({Len(Kids(obj)) : obj \in DOMAIN graph.kids} \cup {0}))
=============================================================================
