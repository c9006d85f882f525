-------------------------- MODULE InstanceSelection --------------------------
(***************************************************************************)
(* Several Civil 3D sessions on one machine, and one call of the MCP       *)
(* server that has to reach the right one: the sessions start and stop     *)
(* their servers, publish and leave behind endpoint records, crash and     *)
(* switch drawings, while withApplicationConnection reads the records,     *)
(* probes, decides and connects.                                           *)
(*                                                                         *)
(* A probe is one step, taken when its answer is computed; it may also be  *)
(* lost.  Paths and fingerprints are compared, never built.                *)
(***************************************************************************)
EXTENDS Naturals, FiniteSets

CONSTANTS
  Session,      \* plugin sessions, numbered in the order they started
  Legacy,       \* those of a plugin that publishes no record and has no instanceId
  Port, DefaultPort,
  Drawing,
  Targets,      \* what the caller may ask for, see TargetType
  MaxRecords,   \* MAX_ENDPOINT_RECORDS
  MaxChanges,   \* bound: what the sessions do while the call is under way
  None

\* instanceId and expectedDrawing of the call, and CIVIL3D_PORT.
TargetType ==
  [instance : (Session \ Legacy) \cup {None}, expected : Drawing \cup {None}, port : Port \cup {None}]

ASSUME SelectionAssumption ==
  /\ Session \subseteq Nat \ {0} /\ IsFiniteSet(Session) /\ Legacy \subseteq Session
  /\ DefaultPort \in Port /\ Targets \subseteq TargetType /\ MaxRecords \in Nat \ {0}
  /\ MaxChanges \in Nat
  /\ None \notin Session \cup Port \cup Drawing

VARIABLES
  server,    \* where StartServer or StopServer of each session is
  port,      \* the port it listens on, None if it does not
  reported,  \* PluginRuntime.Port
  record,    \* the port in its endpoint record, None if there is none
  drawing,   \* its active drawing
  target,    \* what the caller asked for
  stage,     \* where the call is
  probing,   \* records whose probe has not answered
  registered,  \* the endpoints found alive
  asking,    \* endpoints whose drawing identity is awaited
  candidates,  \* endpoints and drawings
  chosen,    \* the endpoint the call is sent to
  accepted,  \* the session that accepted it
  outcome,   \* the code the call ended with
  ranIn,     \* the session and drawing its script ran in
  steady,    \* history: sessions available, and each probe of them answered, so far
  listened,  \* history: sessions and ports listening during the call
  showed,    \* history: sessions and drawings active during the call
  changes    \* how often a session has done something, up to MaxChanges

sessionVars == <<server, port, reported, record, drawing>>
callVars == <<stage, probing, registered, asking, candidates, chosen, accepted, outcome, ranIn>>
historyVars == <<steady, listened, showed>>
selectionVars == <<sessionVars, target, callVars, historyVars, changes>>

\* instanceId, processId and legacy of LiveEndpoint are one: the session.
Endpoint == [id : Session \cup {None}, port : Port]

FixedEndpoint == [id |-> None, port |-> IF target.port = None THEN DefaultPort ELSE target.port]

Listens(s) == port[s] # None

\* Available: running with its record in place, or a legacy plugin on its port.
Available(s) == IF s \in Legacy THEN Listens(s) ELSE server[s] = "running"

SelectionInit ==
  /\ \E up \in SUBSET Session :
       /\ server \in [Session -> {"down", "running", "dead"}]
       /\ \A s \in Session : (server[s] = "running") = (s \in up)
       /\ port \in [Session -> Port \cup {None}]
       /\ \A s \in Session : (Listens(s) = (s \in up)) /\ (s \in Legacy \cap up => port[s] = DefaultPort)
       /\ \A s, t \in up : s # t => port[s] # port[t]
       /\ record \in [Session -> Port \cup {None}]
       /\ \A s \in Session : s \in Legacy => record[s] = None
       /\ \A s \in up \ Legacy : record[s] = port[s]
  /\ reported = [s \in Session |-> IF Listens(s) THEN port[s] ELSE DefaultPort]
  /\ drawing \in [Session -> Drawing]
  /\ target \in Targets
  /\ stage = "new" /\ outcome = "none"
  /\ probing = {} /\ registered = {} /\ asking = {} /\ candidates = {}
  /\ chosen = FixedEndpoint /\ accepted = None /\ ranIn = None
  /\ changes = 0 /\ steady = {s \in Session : Available(s)}
  /\ listened = {<<s, port[s]>> : s \in {t \in Session : Listens(t)}}
  /\ showed = {<<s, drawing[s]>> : s \in Session}

-----------------------------------------------------------------------------
(* The sessions.                                                           *)

Sees == /\ listened' = listened \cup {<<s, port'[s]>> : s \in {t \in Session : port'[t] # None}}
        /\ showed' = showed \cup {<<s, drawing'[s]>> : s \in Session}
        /\ steady' = {s \in steady : port'[s] = port[s]}

\* StartServer: the default port, or any free one when it is taken.
Bind(s, p) ==
  /\ server[s] = "down"
  /\ \A t \in Session : port[t] # p
  /\ p # DefaultPort => s \notin Legacy /\ \E t \in Session : port[t] = DefaultPort
  /\ port' = [port EXCEPT ![s] = p]
  /\ server' = [server EXCEPT ![s] = IF s \in Legacy THEN "running" ELSE "bound"]
  /\ UNCHANGED <<reported, record, drawing, target, callVars>> /\ Sees

\* EndpointRegistration.Create.
Publish(s) ==
  /\ server[s] = "bound"
  /\ server' = [server EXCEPT ![s] = "published"]
  /\ record' = [record EXCEPT ![s] = port[s]]
  /\ UNCHANGED <<port, reported, drawing, target, callVars, historyVars>>

\* The record cannot be written: StartServer stops the server and throws.
PublishFails(s) ==
  /\ server[s] = "bound"
  /\ server' = [server EXCEPT ![s] = "down"]
  /\ port' = [port EXCEPT ![s] = None]
  /\ UNCHANGED <<reported, record, drawing, target, callVars>> /\ Sees

Started(s) ==
  /\ server[s] = "published"
  /\ server' = [server EXCEPT ![s] = "running"]
  /\ reported' = [reported EXCEPT ![s] = port[s]]
  /\ UNCHANGED <<port, record, drawing, target, callVars, historyVars>>

\* What a call loses with its session's server: it is dropped or has not arrived.
LoseCall(s) ==
  IF accepted = s /\ stage = "accepted"
  THEN /\ stage' = "over" /\ outcome' = "TRANSPORT_ERROR"
       /\ UNCHANGED <<probing, registered, asking, candidates, chosen, accepted, ranIn>>
  ELSE UNCHANGED callVars

\* StopServer: the listener first, then the record, whose deletion may fail.
StopServer(s) ==
  /\ server[s] = "running"
  /\ server' = [server EXCEPT ![s] = "stopping"]
  /\ port' = [port EXCEPT ![s] = None]
  /\ LoseCall(s) /\ UNCHANGED <<reported, record, drawing, target>> /\ Sees

Unpublish(s) ==
  /\ server[s] = "stopping"
  /\ server' = [server EXCEPT ![s] = "down"]
  /\ record' \in {record, [record EXCEPT ![s] = None]}
  /\ reported' = [reported EXCEPT ![s] = DefaultPort]
  /\ UNCHANGED <<port, drawing, target, callVars, historyVars>>

\* The process ends without Terminate; its record stays.
Crash(s) ==
  /\ server[s] # "dead"
  /\ server' = [server EXCEPT ![s] = "dead"]
  /\ port' = [port EXCEPT ![s] = None]
  /\ LoseCall(s) /\ UNCHANGED <<reported, record, drawing, target>> /\ Sees

SwitchDrawing(s, d) ==
  /\ server[s] # "dead" /\ drawing[s] # d
  /\ drawing' = [drawing EXCEPT ![s] = d]
  /\ UNCHANGED <<server, port, reported, record, target, callVars>> /\ Sees

-----------------------------------------------------------------------------
(* The call: selectEndpoint and the connection to what it selected.        *)

Settle(code) ==
  /\ stage' = "over" /\ outcome' = code
  /\ UNCHANGED <<sessionVars, target, probing, registered, asking, candidates, chosen, accepted,
                 ranIn, historyVars>>

Select(endpoint) ==
  /\ stage' = "selected" /\ chosen' = endpoint
  /\ UNCHANGED <<sessionVars, target, probing, registered, asking, candidates, accepted, outcome,
                 ranIn, historyVars>>

\* CIVIL3D_PORT: the one endpoint, probed only if an instance is asked for.
Direct ==
  /\ stage = "new" /\ target.port # None
  /\ IF target.instance = None THEN Select(FixedEndpoint)
     ELSE \/ \E s \in Session : port[s] = target.port /\ s = target.instance
               /\ Select([id |-> s, port |-> reported[s]])
          \/ Settle("INSTANCE_NOT_FOUND")

\* Faulty variant of Newest: the bound is off by one.
NewestButOne(sessions) ==
  {s \in sessions : Cardinality({t \in sessions : t > s}) + 1 < MaxRecords}

\* readEndpointRecords: the newest by name, and so by start.
Newest(sessions) ==
  {s \in sessions : Cardinality({t \in sessions : t > s}) < MaxRecords}

ReadRecords ==
  /\ stage = "new" /\ target.port = None
  /\ LET read == Newest({s \in Session : record[s] # None})
     IN /\ probing' = {[id |-> s, port |-> record[s]] : s \in read}
        /\ stage' = IF read = {} THEN "choosing" ELSE "probing"
  /\ UNCHANGED <<sessionVars, target, registered, asking, candidates, chosen, accepted, outcome,
                 ranIn, historyVars>>

\* probeEndpoint of a record: health names this very session and port.
IsAlive(endpoint) ==
  \E s \in Session \ Legacy :
    port[s] = endpoint.port /\ s = endpoint.id /\ reported[s] = endpoint.port

Probe(endpoint) ==
  /\ stage = "probing" /\ endpoint \in probing
  /\ probing' = probing \ {endpoint}
  /\ registered' = registered \cup (IF IsAlive(endpoint) THEN {endpoint} ELSE {})
  /\ UNCHANGED <<sessionVars, target, stage, asking, candidates, chosen, accepted, outcome, ranIn,
                 historyVars>>

\* No answer in time.
ProbeLost(endpoint) ==
  /\ stage = "probing" /\ endpoint \in probing
  /\ probing' = probing \ {endpoint}
  /\ steady' = steady \ {endpoint.id}
  /\ UNCHANGED <<sessionVars, target, stage, registered, asking, candidates, chosen, accepted,
                 outcome, ranIn, listened, showed>>

FixedPortFound == \E e \in registered : e.port = DefaultPort

\* probeEndpoint of the fixed port, which takes what health says.
ProbeFixed ==
  /\ stage = "probing" /\ probing = {} /\ stage' = "choosing"
  /\ LET found == {[id |-> IF s \in Legacy THEN None ELSE s, port |-> reported[s]] :
                     s \in {t \in Session : port[t] = DefaultPort}}
     IN registered' = registered \cup
          (IF FixedPortFound THEN {} ELSE {e \in found : \A r \in registered : r.id # e.id})
  /\ UNCHANGED <<sessionVars, target, probing, asking, candidates, chosen, accepted, outcome, ranIn,
                 historyVars>>

ProbeFixedLost ==
  /\ stage = "probing" /\ probing = {} /\ ~FixedPortFound /\ stage' = "choosing"
  /\ steady' = {s \in steady : port[s] # DefaultPort}
  /\ UNCHANGED <<sessionVars, target, probing, registered, asking, candidates, chosen, accepted,
                 outcome, ranIn, listened, showed>>

\* No endpoint answered, or the one that did.
ChooseOnly ==
  /\ stage = "choosing" /\ target.instance = None
  /\ Cardinality(registered) <= 1
  /\ \E e \in IF registered = {} THEN {FixedEndpoint} ELSE registered : Select(e)

ChooseInstance ==
  /\ stage = "choosing" /\ target.instance # None
  /\ IF \E e \in registered : e.id = target.instance
     THEN \E e \in registered : e.id = target.instance /\ Select(e)
     ELSE Settle("INSTANCE_NOT_FOUND")

AskIdentities ==
  /\ stage = "choosing" /\ target.instance = None /\ Cardinality(registered) > 1
  /\ stage' = "identifying" /\ asking' = registered
  /\ UNCHANGED <<sessionVars, target, probing, registered, candidates, chosen, accepted, outcome,
                 ranIn, historyVars>>

\* readDrawingIdentity; a legacy plugin's answer has no instanceId to compare.
ReadIdentity(endpoint) ==
  /\ stage = "identifying" /\ endpoint \in asking
  /\ asking' = asking \ {endpoint}
  /\ candidates' = candidates \cup
       {[endpoint |-> endpoint, drawing |-> drawing[s]] :
          s \in {t \in Session \ Legacy : port[t] = endpoint.port /\ t = endpoint.id}}
  /\ UNCHANGED <<sessionVars, target, stage, probing, registered, chosen, accepted, outcome, ranIn,
                 historyVars>>

IdentityLost(endpoint) ==
  /\ stage = "identifying" /\ endpoint \in asking
  /\ asking' = asking \ {endpoint}
  /\ steady' = steady \ {endpoint.id}
  /\ UNCHANGED <<sessionVars, target, stage, probing, registered, candidates, chosen, accepted,
                 outcome, ranIn, listened, showed>>

Matches == {c \in candidates : c.drawing = target.expected}

\* Faulty variant of ChooseDrawing: one candidate will do.
ChooseAnyCandidate ==
  /\ stage = "identifying" /\ asking = {}
  /\ IF candidates = {} THEN Settle("INSTANCE_SELECTION_REQUIRED")
     ELSE \E c \in IF Matches = {} THEN candidates ELSE Matches : Select(c.endpoint)

\* Faulty variant of ChooseDrawing: every identity has to be known.
ChooseDrawingIfAllKnown ==
  /\ stage = "identifying" /\ asking = {}
  /\ IF Cardinality(Matches) # 1 \/ Cardinality(candidates) < Cardinality(registered)
     THEN Settle("INSTANCE_SELECTION_REQUIRED")
     ELSE \E c \in Matches : Select(c.endpoint)

\* The decision of selectEndpoint among several.
ChooseDrawing ==
  /\ stage = "identifying" /\ asking = {}
  /\ IF target.expected = None \/ Cardinality(Matches) > 1 THEN Settle("INSTANCE_SELECTION_REQUIRED")
     ELSE IF Matches = {} THEN Settle("DRAWING_MISMATCH")
     ELSE \E c \in Matches : Select(c.endpoint)

\* Whoever listens on the port by now accepts the call.
Connect(s) ==
  /\ stage = "selected" /\ port[s] = chosen.port
  /\ stage' = "accepted" /\ accepted' = s
  /\ UNCHANGED <<sessionVars, target, probing, registered, asking, candidates, chosen, outcome,
                 ranIn, historyVars>>

ConnectFails ==
  /\ stage = "selected" /\ \A s \in Session : port[s] # chosen.port
  /\ Settle("CONNECTION_FAILED")

\* The plugin's guard, in the command that runs the script.
Run ==
  /\ stage = "accepted" /\ stage' = "over"
  /\ IF target.expected \in {None, drawing[accepted]}
     THEN outcome' = "ok" /\ ranIn' = [session |-> accepted, drawing |-> drawing[accepted]]
     ELSE outcome' = "GUARD_MISMATCH" /\ UNCHANGED ranIn
  /\ UNCHANGED <<sessionVars, target, probing, registered, asking, candidates, chosen, accepted,
                 historyVars>>

-----------------------------------------------------------------------------
Lifecycle(s) ==
  \/ \E p \in Port : Bind(s, p)
  \/ Publish(s) \/ PublishFails(s) \/ Started(s) \/ StopServer(s) \/ Unpublish(s) \/ Crash(s)
  \/ \E d \in Drawing : SwitchDrawing(s, d)

Call ==
  \/ Direct \/ ReadRecords \/ ProbeFixed \/ ProbeFixedLost
  \/ \E e \in probing : Probe(e) \/ ProbeLost(e)
  \/ ChooseOnly \/ ChooseInstance \/ AskIdentities
  \/ \E e \in asking : ReadIdentity(e) \/ IdentityLost(e)
  \/ ChooseDrawing \/ ConnectFails \/ Run \/ \E s \in Session : Connect(s)

\* What happens to the sessions once the call is over is the next call's matter.
SelectionNext ==
  /\ stage # "over"
  /\ \/ Call /\ UNCHANGED changes
     \/ changes < MaxChanges /\ changes' = changes + 1 /\ \E s \in Session : Lifecycle(s)

SelectionSpec == SelectionInit /\ [][SelectionNext]_selectionVars /\ WF_selectionVars(Call /\ UNCHANGED changes)

-----------------------------------------------------------------------------
(* Properties.                                                             *)

\* The values of every variable; a running session is published where it listens.
SelectionTypeOK ==
  /\ server \in [Session -> {"down", "bound", "published", "running", "stopping", "dead"}]
  /\ port \in [Session -> Port \cup {None}] /\ reported \in [Session -> Port]
  /\ record \in [Session -> Port \cup {None}] /\ drawing \in [Session -> Drawing]
  /\ stage \in {"new", "probing", "choosing", "identifying", "selected", "accepted", "over"}
  /\ probing \subseteq Endpoint /\ registered \subseteq Endpoint /\ asking \subseteq registered
  /\ candidates \subseteq [endpoint : registered, drawing : Drawing]
  /\ chosen \in Endpoint /\ accepted \in Session \cup {None}
  /\ steady \subseteq Session
  /\ \A s \in Session \ Legacy : server[s] = "running" => record[s] = port[s] /\ reported[s] = port[s]

Found == target.port = None

\* An unguarded call that names no instance never runs while two sessions are
\* available and answering throughout: it fails closed.
FailsClosed ==
  outcome = "ok" /\ Found /\ target.instance = None /\ target.expected = None
    => Cardinality(steady) <= 1

\* A record is never trusted: a call that finds sessions is sent only to a session that itself
\* listened on that port during the call.
ChosenWasAlive ==
  Found /\ stage \in {"selected", "accepted"} /\ chosen.id # None => <<chosen.id, chosen.port>> \in listened

\* Sessions that had the expected drawing, and no other, during the whole call.
Constant(s) == \A d \in Drawing : <<s, d>> \in showed => d = target.expected

\* With a drawing expected, a call reaches it if one session alone had it
\* throughout, however the others come, go and switch; and it is never told that
\* nobody has the drawing while somebody does.
RoutedToTheDrawing ==
  Found /\ target.instance = None /\ stage = "over" =>
    \A s \in steady \ Legacy : Constant(s) =>
      /\ outcome # "DRAWING_MISMATCH"
      /\ (\A t \in Session \ {s} : <<t, target.expected>> \notin showed)
           => ranIn = [session |-> s, drawing |-> target.expected]

\* A named session that is available throughout is always found.
SteadyInstanceIsFound == outcome = "INSTANCE_NOT_FOUND" /\ Found => target.instance \notin steady

\* A call that names a session runs in that session.
RunsWhereAsked == ranIn # None /\ target.instance # None => ranIn.session = target.instance

\* CIVIL3D_PORT overrides every other port.
FixedPortIsUsed == stage = "selected" /\ target.port # None => chosen.port = target.port

\* Every call ends, whatever the sessions do.
CallSettles == <>(stage = "over")
=============================================================================
