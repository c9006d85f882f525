----------------------- MODULE InstanceSelectionProofs -----------------------
(***************************************************************************)
(* Proofs about InstanceSelection for any sessions, ports, drawings and    *)
(* targets: what a session's own record and answers are worth, that a call *)
(* is only sent to an endpoint whose session did listen there, and that it *)
(* fails closed and reaches the session it means, as long as no session's  *)
(* record is crowded out of those that are read.                           *)
(***************************************************************************)
EXTENDS InstanceSelection, FiniteSetTheorems, TLAPS

\* A session answers with the port it listens on, or with the default port as
\* long as it has not finished starting.
ReportedInv ==
  /\ server \in [Session -> {"down", "bound", "published", "running", "stopping", "dead"}]
  /\ port \in [Session -> Port \cup {None}] /\ reported \in [Session -> Port]
  /\ record \in [Session -> Port \cup {None}] /\ drawing \in [Session -> Drawing]
  /\ \A s \in Session :
       /\ server[s] \in {"down", "bound", "published"} => reported[s] = DefaultPort
       /\ Listens(s) => reported[s] \in {port[s], DefaultPort}
       /\ server[s] = "bound" => s \notin Legacy
       /\ server[s] = "published" => s \notin Legacy /\ record[s] = port[s]
       /\ server[s] \in {"bound", "published"} => Listens(s)
       /\ server[s] = "running" /\ s \notin Legacy => record[s] = port[s] /\ reported[s] = port[s]

\* listened misses no session that listens.
ListenedInv == \A s \in Session : Listens(s) => <<s, port[s]>> \in listened

Known(endpoint) == endpoint.id # None => <<endpoint.id, endpoint.port>> \in listened

\* What the call knows is made of endpoints that were alive.
CallInv ==
  /\ stage \in {"new", "probing", "choosing", "identifying", "selected", "accepted", "over"}
  /\ target \in TargetType
  /\ probing \subseteq Endpoint /\ registered \subseteq Endpoint /\ asking \subseteq registered
  /\ candidates \subseteq [endpoint : registered, drawing : Drawing]
  /\ chosen \in Endpoint /\ accepted \in Session \cup {None}
  /\ steady \subseteq Session
  /\ \A e \in registered : Known(e)
  /\ Found /\ stage \in {"selected", "accepted"} => Known(chosen)

SelectionInv == ReportedInv /\ ListenedInv /\ CallInv

\* A session starts, stops, ends or switches its drawing.
LEMMA SessionStep ==
  ASSUME SelectionInv, NEW s \in Session, Lifecycle(s)
  PROVE  SelectionInv'
<1> USE SelectionAssumption DEF SelectionInv, ReportedInv, ListenedInv, CallInv, Known, Found,
     Listens, Endpoint, sessionVars, callVars, historyVars, Sees, LoseCall
<1>1. ASSUME NEW p \in Port, Bind(s, p) PROVE SelectionInv'
  <2>1. ReportedInv'
    BY <1>1 DEF Bind
  <2>2. ListenedInv'
    BY <1>1 DEF Bind
  <2>3. CallInv'
    BY <1>1 DEF Bind
  <2> QED
    BY <2>1, <2>2, <2>3 DEF SelectionInv
<1>2. CASE Publish(s)
  <2>1. ReportedInv'
    BY <1>2 DEF Publish
  <2>2. ListenedInv'
    BY <1>2 DEF Publish
  <2>3. CallInv'
    BY <1>2 DEF Publish
  <2> QED
    BY <2>1, <2>2, <2>3 DEF SelectionInv
<1>3. CASE PublishFails(s)
  <2>1. ReportedInv'
    BY <1>3 DEF PublishFails
  <2>2. ListenedInv'
    BY <1>3 DEF PublishFails
  <2>3. CallInv'
    BY <1>3 DEF PublishFails
  <2> QED
    BY <2>1, <2>2, <2>3 DEF SelectionInv
<1>4. CASE Started(s)
  <2>1. ReportedInv'
    BY <1>4 DEF Started
  <2>2. ListenedInv'
    BY <1>4 DEF Started
  <2>3. CallInv'
    BY <1>4 DEF Started
  <2> QED
    BY <2>1, <2>2, <2>3 DEF SelectionInv
<1>5. CASE StopServer(s)
  <2>1. ReportedInv'
    BY <1>5 DEF StopServer
  <2>2. ListenedInv'
    BY <1>5 DEF StopServer
  <2>3. CallInv'
    BY <1>5 DEF StopServer
  <2> QED
    BY <2>1, <2>2, <2>3 DEF SelectionInv
<1>6. CASE Unpublish(s)
  <2>1. ReportedInv'
    BY <1>6 DEF Unpublish
  <2>2. ListenedInv'
    BY <1>6 DEF Unpublish
  <2>3. CallInv'
    BY <1>6 DEF Unpublish
  <2> QED
    BY <2>1, <2>2, <2>3 DEF SelectionInv
<1>7. CASE Crash(s)
  <2>1. ReportedInv'
    BY <1>7 DEF Crash
  <2>2. ListenedInv'
    BY <1>7 DEF Crash
  <2>3. CallInv'
    BY <1>7 DEF Crash
  <2> QED
    BY <2>1, <2>2, <2>3 DEF SelectionInv
<1>8. ASSUME NEW d \in Drawing, SwitchDrawing(s, d) PROVE SelectionInv'
  <2>1. ReportedInv'
    BY <1>8 DEF SwitchDrawing
  <2>2. ListenedInv'
    BY <1>8 DEF SwitchDrawing
  <2>3. CallInv'
    BY <1>8 DEF SwitchDrawing
  <2> QED
    BY <2>1, <2>2, <2>3 DEF SelectionInv
<1> QED
  BY <1>1, <1>2, <1>3, <1>4, <1>5, <1>6, <1>7, <1>8 DEF Lifecycle

\* The call is sent to an endpoint that was alive.
LEMMA Selects ==
  ASSUME CallInv, NEW endpoint \in Endpoint, Select(endpoint), Found => Known(endpoint)
  PROVE  CallInv'
BY DEF CallInv, Select, Found, Known, sessionVars, historyVars

\* The call ends, and what is known of the sessions stays.
LEMMA Settles ==
  ASSUME CallInv, NEW code, Settle(code)
  PROVE  CallInv'
BY DEF CallInv, Settle, Found, Known, sessionVars, historyVars

\* The endpoint of CIVIL3D_PORT, or of the default port.
LEMMA FixedEndpointType ==
  ASSUME CallInv
  PROVE  FixedEndpoint \in Endpoint /\ Known(FixedEndpoint)
BY SelectionAssumption DEF CallInv, FixedEndpoint, Endpoint, TargetType, Known

\* The call reads the records and probes what they name.
LEMMA Discovers ==
  ASSUME SelectionInv,
         \/ Direct \/ ReadRecords \/ ProbeFixed \/ ProbeFixedLost
         \/ \E e \in probing : Probe(e) \/ ProbeLost(e)
  PROVE  SelectionInv'
<1> USE SelectionAssumption DEF SelectionInv, ReportedInv, ListenedInv, CallInv, Known, Found,
     Listens, Endpoint, sessionVars, callVars, historyVars
<1>1. CASE Direct
  <2>1. ReportedInv'
    BY <1>1 DEF Direct, FixedEndpoint, TargetType, Select, Settle
  <2>2. ListenedInv'
    BY <1>1 DEF Direct, FixedEndpoint, TargetType, Select, Settle
  <2>3. CallInv'
    <3>1. ~Found /\ \A s \in Session : [id |-> s, port |-> reported[s]] \in Endpoint
      BY <1>1 DEF Direct
    <3> HIDE DEF CallInv, Endpoint, Known, Found
    <3>2. CASE \E code : Settle(code)
      BY <3>2, Settles DEF SelectionInv
    <3>3. CASE Select(FixedEndpoint)
      BY <3>3, FixedEndpointType, Selects DEF SelectionInv
    <3>4. CASE \E s \in Session : Select([id |-> s, port |-> reported[s]])
      BY <3>1, <3>4, Selects DEF SelectionInv
    <3> QED
      BY <1>1, <3>2, <3>3, <3>4 DEF Direct
  <2> QED
    BY <2>1, <2>2, <2>3 DEF SelectionInv
<1>2. CASE ReadRecords
  <2>1. ReportedInv'
    BY <1>2 DEF ReadRecords, Newest
  <2>2. ListenedInv'
    BY <1>2 DEF ReadRecords, Newest
  <2>3. CallInv'
    <3> DEFINE read == Newest({s \in Session : record[s] # None})
    <3>1. \A s \in read : [id |-> s, port |-> record[s]] \in Endpoint
      BY DEF Newest
    <3>2. probing' = {[id |-> s, port |-> record[s]] : s \in read}
      BY <1>2 DEF ReadRecords
    <3>3. stage' \in {"choosing", "probing"}
      BY <1>2 DEF ReadRecords
    <3> HIDE DEF read
    <3>4. probing' \subseteq Endpoint
      BY <3>1, <3>2
    <3> QED
      BY <1>2, <3>3, <3>4 DEF ReadRecords
  <2> QED
    BY <2>1, <2>2, <2>3 DEF SelectionInv
<1>3. CASE ProbeFixed
  <2>1. ReportedInv'
    BY <1>3 DEF ProbeFixed
  <2>2. ListenedInv'
    BY <1>3 DEF ProbeFixed
  <2>3. CallInv'
    BY <1>3 DEF ProbeFixed
  <2> QED
    BY <2>1, <2>2, <2>3 DEF SelectionInv
<1>4. CASE ProbeFixedLost
  <2>1. ReportedInv'
    BY <1>4 DEF ProbeFixedLost
  <2>2. ListenedInv'
    BY <1>4 DEF ProbeFixedLost
  <2>3. CallInv'
    BY <1>4 DEF ProbeFixedLost
  <2> QED
    BY <2>1, <2>2, <2>3 DEF SelectionInv
<1>5. ASSUME NEW e \in probing, Probe(e) PROVE SelectionInv'
  <2>1. ReportedInv'
    BY <1>5 DEF Probe, IsAlive
  <2>2. ListenedInv'
    BY <1>5 DEF Probe, IsAlive
  <2>3. CallInv'
    BY <1>5 DEF Probe, IsAlive
  <2> QED
    BY <2>1, <2>2, <2>3 DEF SelectionInv
<1>6. ASSUME NEW e \in probing, ProbeLost(e) PROVE SelectionInv'
  <2>1. ReportedInv'
    BY <1>6 DEF ProbeLost
  <2>2. ListenedInv'
    BY <1>6 DEF ProbeLost
  <2>3. CallInv'
    BY <1>6 DEF ProbeLost
  <2> QED
    BY <2>1, <2>2, <2>3 DEF SelectionInv
<1> QED
  BY <1>1, <1>2, <1>3, <1>4, <1>5, <1>6 DEF SelectionInv

\* The call decides for an endpoint, and connects.
LEMMA Chooses ==
  ASSUME SelectionInv,
         \/ ChooseOnly \/ ChooseInstance \/ AskIdentities \/ ChooseDrawing \/ ConnectFails \/ Run
         \/ (\E e \in asking : ReadIdentity(e) \/ IdentityLost(e))
         \/ \E s \in Session : Connect(s)
  PROVE  SelectionInv'
<1> USE SelectionAssumption DEF SelectionInv, ReportedInv, ListenedInv, CallInv, Known, Found,
     Listens, Endpoint, sessionVars, callVars, historyVars
<1>1. CASE ChooseOnly
  <2>1. ReportedInv'
    BY <1>1 DEF ChooseOnly, FixedEndpoint, TargetType, Select
  <2>2. ListenedInv'
    BY <1>1 DEF ChooseOnly, FixedEndpoint, TargetType, Select
  <2>3. CallInv'
    BY <1>1 DEF ChooseOnly, FixedEndpoint, TargetType, Select
  <2> QED
    BY <2>1, <2>2, <2>3 DEF SelectionInv
<1>2. CASE ChooseInstance
  <2>1. ReportedInv'
    BY <1>2 DEF ChooseInstance, Select, Settle
  <2>2. ListenedInv'
    BY <1>2 DEF ChooseInstance, Select, Settle
  <2>3. CallInv'
    <3>1. registered \subseteq Endpoint /\ \A e \in registered : Known(e)
      OBVIOUS
    <3> HIDE DEF CallInv, Endpoint, Known, Found
    <3>2. CASE \E code : Settle(code)
      BY <3>2, Settles DEF SelectionInv
    <3>3. CASE \E e \in registered : Select(e)
      BY <3>1, <3>3, Selects DEF SelectionInv
    <3> QED
      BY <1>2, <3>2, <3>3 DEF ChooseInstance
  <2> QED
    BY <2>1, <2>2, <2>3 DEF SelectionInv
<1>3. CASE AskIdentities
  <2>1. ReportedInv'
    BY <1>3 DEF AskIdentities
  <2>2. ListenedInv'
    BY <1>3 DEF AskIdentities
  <2>3. CallInv'
    BY <1>3 DEF AskIdentities
  <2> QED
    BY <2>1, <2>2, <2>3 DEF SelectionInv
<1>4. CASE ChooseDrawing
  <2>1. ReportedInv'
    BY <1>4 DEF ChooseDrawing, Matches, Select, Settle
  <2>2. ListenedInv'
    BY <1>4 DEF ChooseDrawing, Matches, Select, Settle
  <2>3. CallInv'
    <3>1. ASSUME NEW c \in Matches PROVE c.endpoint \in Endpoint /\ Known(c.endpoint)
      BY <3>1 DEF Matches
    <3> HIDE DEF CallInv, Endpoint, Known, Found
    <3>2. CASE \E code : Settle(code)
      BY <3>2, Settles DEF SelectionInv
    <3>3. CASE \E c \in Matches : Select(c.endpoint)
      BY <3>1, <3>3, Selects DEF SelectionInv
    <3> QED
      BY <1>4, <3>2, <3>3 DEF ChooseDrawing
  <2> QED
    BY <2>1, <2>2, <2>3 DEF SelectionInv
<1>5. CASE ConnectFails
  <2>1. ReportedInv'
    BY <1>5 DEF ConnectFails, Settle
  <2>2. ListenedInv'
    BY <1>5 DEF ConnectFails, Settle
  <2>3. CallInv'
    BY <1>5 DEF ConnectFails, Settle
  <2> QED
    BY <2>1, <2>2, <2>3 DEF SelectionInv
<1>6. CASE Run
  <2>1. ReportedInv'
    BY <1>6 DEF Run
  <2>2. ListenedInv'
    BY <1>6 DEF Run
  <2>3. CallInv'
    BY <1>6 DEF Run
  <2> QED
    BY <2>1, <2>2, <2>3 DEF SelectionInv
<1>7. ASSUME NEW e \in asking, ReadIdentity(e) PROVE SelectionInv'
  <2>1. ReportedInv'
    BY <1>7 DEF ReadIdentity
  <2>2. ListenedInv'
    BY <1>7 DEF ReadIdentity
  <2>3. CallInv'
    BY <1>7 DEF ReadIdentity
  <2> QED
    BY <2>1, <2>2, <2>3 DEF SelectionInv
<1>8. ASSUME NEW e \in asking, IdentityLost(e) PROVE SelectionInv'
  <2>1. ReportedInv'
    BY <1>8 DEF IdentityLost
  <2>2. ListenedInv'
    BY <1>8 DEF IdentityLost
  <2>3. CallInv'
    BY <1>8 DEF IdentityLost
  <2> QED
    BY <2>1, <2>2, <2>3 DEF SelectionInv
<1>9. ASSUME NEW s \in Session, Connect(s) PROVE SelectionInv'
  <2>1. ReportedInv'
    BY <1>9 DEF Connect
  <2>2. ListenedInv'
    BY <1>9 DEF Connect
  <2>3. CallInv'
    BY <1>9 DEF Connect
  <2> QED
    BY <2>1, <2>2, <2>3 DEF SelectionInv
<1> QED
  BY <1>1, <1>2, <1>3, <1>4, <1>5, <1>6, <1>7, <1>8, <1>9 DEF SelectionInv

-----------------------------------------------------------------------------
\* The initial states satisfy the invariant.
LEMMA SelectionStart == SelectionInit => SelectionInv
<1> SUFFICES ASSUME SelectionInit PROVE SelectionInv
  OBVIOUS
<1> USE SelectionAssumption DEF SelectionInit
<1>1. ReportedInv
  BY DEF ReportedInv, Listens
<1>2. ListenedInv
  BY DEF ListenedInv, Listens
<1>3. CallInv
  BY DEF CallInv, Known, Found, Endpoint, FixedEndpoint, TargetType, Available
<1> QED
  BY <1>1, <1>2, <1>3 DEF SelectionInv

\* Every step keeps it.
LEMMA SelectionStep == SelectionInv /\ [SelectionNext]_selectionVars => SelectionInv'
<1> SUFFICES ASSUME SelectionInv, [SelectionNext]_selectionVars
             PROVE  SelectionInv'
  OBVIOUS
<1>1. CASE SelectionNext
  BY <1>1, SessionStep, Discovers, Chooses DEF SelectionNext, Call
<1>2. CASE UNCHANGED selectionVars
  BY <1>2 DEF selectionVars, sessionVars, callVars, historyVars, SelectionInv, ReportedInv,
     ListenedInv, CallInv, Known, Found, Listens
<1> QED
  BY <1>1, <1>2

\* The invariant holds throughout.
THEOREM SelectionInvariance == SelectionSpec => []SelectionInv
<1> QED
  BY SelectionStart, SelectionStep, PTL DEF SelectionSpec

\* A running session's record and answers name the port it listens on, however
\* often it stops, starts elsewhere or fails to publish.
THEOREM SelectionTypes == SelectionSpec => []SelectionTypeOK
<1>1. SelectionInv => SelectionTypeOK
  BY DEF SelectionInv, ReportedInv, CallInv, SelectionTypeOK
<1> QED
  BY <1>1, SelectionInvariance, PTL

\* A call that finds sessions is sent only where the chosen session listened while
\* the call was under way: stale records and reused ports are not trusted.
THEOREM ChosenEndpointWasAlive == SelectionSpec => []ChosenWasAlive
<1>1. SelectionInv => ChosenWasAlive
  BY DEF SelectionInv, CallInv, Known, ChosenWasAlive
<1> QED
  BY <1>1, SelectionInvariance, PTL

-----------------------------------------------------------------------------
(* Which session a call reaches.  A session that stays available and        *)
(* answers is steady; its endpoint is followed from its record to the       *)
(* connection.                                                              *)

\* As many records are read as sessions can publish.
EnoughRecords == Cardinality(Session \ Legacy) <= MaxRecords

\* No two sessions listen on one port; a legacy plugin knows the default port only.
PortsInv ==
  /\ \A s, t \in Session : Listens(s) /\ port[s] = port[t] => s = t
  /\ \A s \in Legacy :
       record[s] = None /\ reported[s] = DefaultPort /\ (Listens(s) => port[s] = DefaultPort)

\* A steady session has been the one on its port, and on no other, all along.
SteadyInv ==
  /\ listened \subseteq Session \X Port
  /\ \A s \in Session : <<s, drawing[s]>> \in showed
  /\ \A s \in steady :
       /\ Listens(s) /\ (s \notin Legacy => server[s] = "running")
       /\ \A l \in listened : l[1] = s <=> l[2] = port[s]

\* The endpoint a steady session is found as.
Own(s) == [id |-> IF s \in Legacy THEN None ELSE s, port |-> port[s]]

\* A steady session is being probed or has been found; only a legacy plugin is
\* not, when no session has a record.
FoundInv ==
  /\ stage = "new" => registered = {}
  /\ \A e, f \in probing \cup registered : e.id = f.id => e = f
  /\ stage = "probing" => \A e \in probing \cup registered : e.id # None
  /\ stage = "probing" => \A e \in registered : e.id \notin Legacy
  /\ Found /\ stage = "probing" => \A s \in steady \ Legacy : Own(s) \in probing \cup registered
  /\ Found /\ stage \in {"choosing", "identifying"} =>
       \A s \in steady : Own(s) \in registered \/ (registered = {} /\ s \in Legacy)

\* A drawing that is known of a session was shown by it; that of a steady
\* session is known or being asked for.
IdentifiedInv ==
  /\ \A c \in candidates :
       c.endpoint.id \in Session \ Legacy /\ <<c.endpoint.id, c.drawing>> \in showed
  /\ Found /\ stage = "identifying" =>
       \A s \in steady \ Legacy :
         Own(s) \in asking \/ \E c \in candidates : c.endpoint = Own(s)

\* No other session has shown the expected drawing.
Alone(s) == \A t \in Session \ {s} : <<t, target.expected>> \notin showed

\* What the choice means for the sessions that are still steady.
ChoiceInv ==
  /\ stage # "over" => outcome = "none"
  /\ Found /\ target.instance = None /\ target.expected = None
       /\ (stage \in {"selected", "accepted"} \/ outcome = "ok")
     => \A s, t \in steady : s = t
  /\ Found /\ target.instance = None =>
       \A s \in steady \ Legacy : Constant(s) =>
         /\ outcome # "DRAWING_MISMATCH"
         /\ Alone(s) =>
              /\ stage = "selected" => chosen = Own(s)
              /\ stage = "accepted" => accepted = s
              /\ stage = "over" => ranIn = [session |-> s, drawing |-> target.expected]
  /\ SteadyInstanceIsFound

RoutingInv == PortsInv /\ SteadyInv /\ FoundInv /\ IdentifiedInv /\ ChoiceInv

-----------------------------------------------------------------------------
\* What a session does to a call: steady sessions keep their ports, drawings
\* shown are only added, and the call stays as it is or is lost with its session.
SessionChange ==
  /\ steady' \subseteq steady /\ \A s \in steady' : port'[s] = port[s]
  /\ showed \subseteq showed'
  /\ UNCHANGED <<target, probing, registered, asking, candidates, chosen, accepted, ranIn>>
  /\ \/ UNCHANGED <<stage, outcome>>
     \/ /\ stage = "accepted" /\ stage' = "over" /\ outcome' = "TRANSPORT_ERROR"
        /\ accepted \notin steady'

\* What a step of a session can change, the two invariants of sessions included.
LEMMA SessionChanges ==
  ASSUME SelectionInv, PortsInv, SteadyInv, NEW s \in Session, Lifecycle(s)
  PROVE  PortsInv' /\ SteadyInv' /\ SessionChange
<1> USE SelectionAssumption DEF SelectionInv, ReportedInv, CallInv, PortsInv, Listens, sessionVars, callVars,
      historyVars, Sees
<1>1. ASSUME NEW p \in Port, Bind(s, p) PROVE PortsInv' /\ SteadyInv' /\ SessionChange
  <2>1. PortsInv'
    BY <1>1 DEF Bind
  <2>2. SteadyInv'
    BY <1>1, <2>1 DEF Bind, SteadyInv
  <2>3. SessionChange
    BY <1>1 DEF Bind, SessionChange
  <2> QED
    BY <2>1, <2>2, <2>3
<1>2. CASE Publish(s)
  <2>1. PortsInv'
    BY <1>2 DEF Publish
  <2>2. SteadyInv'
    BY <1>2 DEF Publish, SteadyInv
  <2>3. SessionChange
    BY <1>2 DEF Publish, SessionChange
  <2> QED
    BY <2>1, <2>2, <2>3
<1>3. CASE PublishFails(s)
  <2>1. PortsInv'
    BY <1>3 DEF PublishFails
  <2>2. SteadyInv'
    BY <1>3, <2>1 DEF PublishFails, SteadyInv
  <2>3. SessionChange
    BY <1>3 DEF PublishFails, SessionChange
  <2> QED
    BY <2>1, <2>2, <2>3
<1>4. CASE Started(s)
  <2>1. PortsInv'
    BY <1>4 DEF Started
  <2>2. SteadyInv'
    BY <1>4 DEF Started, SteadyInv
  <2>3. SessionChange
    BY <1>4 DEF Started, SessionChange
  <2> QED
    BY <2>1, <2>2, <2>3
<1>5. CASE StopServer(s)
  <2>1. PortsInv'
    BY <1>5 DEF StopServer
  <2>2. SteadyInv'
    BY <1>5, <2>1 DEF StopServer, SteadyInv
  <2>3. SessionChange
    BY <1>5 DEF StopServer, LoseCall, SessionChange, SteadyInv
  <2> QED
    BY <2>1, <2>2, <2>3
<1>6. CASE Unpublish(s)
  <2>1. PortsInv'
    BY <1>6 DEF Unpublish
  <2>2. SteadyInv'
    BY <1>6 DEF Unpublish, SteadyInv
  <2>3. SessionChange
    BY <1>6 DEF Unpublish, SessionChange
  <2> QED
    BY <2>1, <2>2, <2>3
<1>7. CASE Crash(s)
  <2>1. PortsInv'
    BY <1>7 DEF Crash
  <2>2. SteadyInv'
    BY <1>7, <2>1 DEF Crash, SteadyInv
  <2>3. SessionChange
    BY <1>7 DEF Crash, LoseCall, SessionChange, SteadyInv
  <2> QED
    BY <2>1, <2>2, <2>3
<1>8. ASSUME NEW d \in Drawing, SwitchDrawing(s, d) PROVE PortsInv' /\ SteadyInv' /\ SessionChange
  <2>1. PortsInv'
    BY <1>8 DEF SwitchDrawing
  <2>2. SteadyInv'
    BY <1>8 DEF SwitchDrawing, SteadyInv
  <2>3. SessionChange
    BY <1>8 DEF SwitchDrawing, SessionChange
  <2> QED
    BY <2>1, <2>2, <2>3
<1> QED
  BY <1>1, <1>2, <1>3, <1>4, <1>5, <1>6, <1>7, <1>8 DEF Lifecycle

\* A step of a session preserves what the call relies on.
LEMMA SessionRouting ==
  ASSUME SelectionInv, RoutingInv, NEW s \in Session, Lifecycle(s)
  PROVE  RoutingInv'
<1>1. PortsInv' /\ SteadyInv' /\ SessionChange
  BY SessionChanges DEF RoutingInv
<1>2. \A t \in steady' : Own(t)' = Own(t)
  BY <1>1 DEF SessionChange, Own
<1>3. FoundInv'
  BY <1>1, <1>2 DEF RoutingInv, FoundInv, Found, SessionChange
<1>4. IdentifiedInv'
  BY <1>1, <1>2 DEF RoutingInv, IdentifiedInv, Found, SessionChange
<1>5. ChoiceInv'
  BY <1>1, <1>2 DEF RoutingInv, ChoiceInv, Found, SessionChange, Constant, Alone, SteadyInstanceIsFound
<1> QED
  BY <1>1, <1>3, <1>4, <1>5 DEF RoutingInv

-----------------------------------------------------------------------------
\* The call's own steps change no session; a lost answer makes one unsteady.
LEMMA CallKeepsSessions ==
  ASSUME SelectionInv, PortsInv, SteadyInv, UNCHANGED sessionVars, UNCHANGED <<listened, showed>>,
         steady' \subseteq steady
  PROVE  PortsInv' /\ SteadyInv'
BY DEF PortsInv, SteadyInv, Listens, sessionVars

\* A finite set of at most one element has no two.
LEMMA AtMostOne ==
  ASSUME NEW S, IsFiniteSet(S)
  PROVE  Cardinality(S) <= 1 <=> \A x, y \in S : x = y
<1>1. Cardinality(S) \in Nat
  BY FS_CardinalityType
<1>2. Cardinality(S) = 0 <=> S = {}
  BY FS_EmptySet
<1>3. Cardinality(S) = 1 <=> \E x : S = {x}
  BY FS_Singleton
<1>4. (\A x, y \in S : x = y) <=> S = {} \/ \E x : S = {x}
  OBVIOUS
<1>5. Cardinality(S) <= 1 <=> Cardinality(S) = 0 \/ Cardinality(S) = 1
  BY <1>1
<1> QED
  BY <1>2, <1>3, <1>4, <1>5

\* No more endpoints are found than there are sessions, and none.
LEMMA RegisteredIsFinite ==
  ASSUME SelectionInv, FoundInv
  PROVE  IsFiniteSet(registered)
<1> DEFINE id == [e \in registered |-> e.id]
<1>1. IsFiniteSet(Session \cup {None})
  BY SelectionAssumption, FS_AddElement
<1>2. id \in Injection(registered, Session \cup {None})
  BY DEF SelectionInv, CallInv, Endpoint, FoundInv, Injection, IsInjective
<1> QED
  BY <1>1, <1>2, FS_Injection

\* Reading the newest records reads those of all available sessions, if no more
\* sessions publish than records are read.
LEMMA NewestIsEnough ==
  ASSUME EnoughRecords, PortsInv, NEW s \in Session \ Legacy, record[s] # None
  PROVE  s \in Newest({t \in Session : record[t] # None})
<1> DEFINE Publishing == Session \ Legacy
           newer == {u \in {t \in Session : record[t] # None} : u > s}
<1>1. IsFiniteSet(Publishing)
  BY SelectionAssumption, FS_Subset
<1>2. ASSUME NEW u \in newer PROVE u \in Publishing \ {s}
  <2>1. u \in Session /\ s \in Session /\ record[u] # None /\ u > s
    OBVIOUS
  <2>2. u \notin Legacy
    BY <2>1 DEF PortsInv
  <2>3. u # s
    BY <2>1, SelectionAssumption
  <2> QED
    BY <2>1, <2>2, <2>3
<1>3. /\ IsFiniteSet(Publishing \ {s})
      /\ Cardinality(Publishing \ {s}) = Cardinality(Publishing) - 1
  BY <1>1, FS_RemoveElement
<1>4. Cardinality(newer) <= Cardinality(Publishing \ {s}) /\ IsFiniteSet(newer)
  <2>1. newer \in SUBSET (Publishing \ {s})
    BY <1>2
  <2> HIDE DEF newer
  <2> QED
    BY <1>3, <2>1, FS_Subset
<1>5. Cardinality(newer) \in Nat /\ Cardinality(Publishing) \in Nat
  BY <1>1, <1>4, FS_CardinalityType
<1>6. Cardinality(newer) < MaxRecords
  BY <1>3, <1>4, <1>5, SelectionAssumption DEF EnoughRecords
<1> QED
  BY <1>6 DEF Newest

\* The call finds out who is there.
LEMMA DiscoveryRouting ==
  ASSUME SelectionInv, RoutingInv, EnoughRecords,
         \/ ReadRecords \/ ProbeFixed \/ ProbeFixedLost
         \/ \E e \in probing : Probe(e) \/ ProbeLost(e)
  PROVE  RoutingInv'
<1> USE SelectionAssumption DEF RoutingInv
<1>1. /\ UNCHANGED <<sessionVars, listened, showed, target, chosen, accepted, outcome, ranIn,
                     asking, candidates>>
      /\ steady' \subseteq steady
      /\ stage \in {"new", "probing"} /\ stage' \in {"probing", "choosing"}
  BY DEF ReadRecords, ProbeFixed, ProbeFixedLost, Probe, ProbeLost, historyVars
<1>2. PortsInv' /\ SteadyInv'
  BY <1>1, CallKeepsSessions
<1>3. \A s \in Session : Own(s)' = Own(s)
  BY <1>1 DEF Own, sessionVars
<1>4. IdentifiedInv'
  BY <1>1 DEF IdentifiedInv, Found
<1>5. ChoiceInv'
  BY <1>1 DEF ChoiceInv, Found, Constant, Alone, SteadyInstanceIsFound
<1>6. FoundInv'
  <2>1. CASE ReadRecords
    <3> DEFINE Read == Newest({s \in Session : record[s] # None})
    <3>1. /\ probing' = {[id |-> s, port |-> record[s]] : s \in Read}
          /\ stage = "new" /\ Found
          /\ stage' = IF Read = {} THEN "choosing" ELSE "probing"
          /\ registered' = registered /\ registered = {} /\ steady' = steady
      BY <2>1 DEF ReadRecords, historyVars, Found, FoundInv
    <3>2. \A s \in steady \ Legacy : s \in Read /\ record[s] = port[s] /\ s \in Session
      <4>1. ASSUME NEW s \in steady \ Legacy PROVE s \in Session \ Legacy /\ record[s] = port[s] /\ record[s] # None
        BY DEF SelectionInv, CallInv, ReportedInv, SteadyInv, Listens
      <4> QED
        BY <4>1, NewestIsEnough
    <3>3. Read \subseteq Session
      BY DEF Newest
    <3> HIDE DEF Read
    <3>4. \A e \in probing' : e.id # None /\ e.id \in Read /\ e = [id |-> e.id, port |-> record[e.id]]
      BY <3>1, <3>3
    <3>5. \A s \in steady \ Legacy : Own(s) \in probing'
      BY <3>1, <3>2 DEF Own
    <3>6. \A e, f \in probing' : e.id = f.id => e = f
      BY <3>4
    <3>7. \A s \in steady' \ Legacy : Own(s)' \in probing'
      BY <1>3, <3>1, <3>2, <3>5
    <3>8. Read = {} => steady' \subseteq Legacy
      BY <3>1, <3>2
    <3> QED
      BY <1>1, <3>1, <3>4, <3>6, <3>7, <3>8 DEF FoundInv
  <2>2. ASSUME NEW e \in probing, Probe(e) PROVE FoundInv'
    <3>1. /\ probing' = probing \ {e} /\ stage = "probing" /\ UNCHANGED <<stage, steady>>
          /\ registered' = registered \cup (IF IsAlive(e) THEN {e} ELSE {})
      BY <2>2 DEF Probe, historyVars
    <3>2. IsAlive(e) => e.id \in Session \ Legacy
      BY DEF IsAlive
    <3>3. ASSUME Found, NEW s \in steady \ Legacy, Own(s) = e PROVE IsAlive(e)
      BY <3>3 DEF IsAlive, Own, SelectionInv, CallInv, ReportedInv, SteadyInv
    <3> QED
      BY <1>1, <1>3, <3>1, <3>2, <3>3 DEF FoundInv, Found, SelectionInv, CallInv
  <2>3. ASSUME NEW e \in probing, ProbeLost(e) PROVE FoundInv'
    <3>1. /\ probing' = probing \ {e} /\ stage = "probing" /\ UNCHANGED <<stage, registered>>
          /\ steady' = steady \ {e.id}
      BY <2>3 DEF ProbeLost
    <3>2. \A s \in steady' \ Legacy : Own(s) # e
      BY <3>1 DEF Own
    <3> QED
      BY <1>1, <1>3, <3>1, <3>2 DEF FoundInv, Found, SelectionInv, CallInv
  <2>4. ASSUME ProbeFixed \/ ProbeFixedLost, Found, NEW s \in steady'
        PROVE  Own(s) \in registered'
    <3>1. s \in steady /\ s \in Session /\ probing = {} /\ stage = "probing"
      BY <1>1, <2>4 DEF ProbeFixed, ProbeFixedLost, SelectionInv, CallInv
    <3>2. registered \subseteq registered'
      BY <2>4 DEF ProbeFixed, ProbeFixedLost
    <3>3. CASE s \notin Legacy
      BY <2>4, <3>1, <3>2, <3>3 DEF FoundInv
    <3>4. CASE s \in Legacy
      <4>1. port[s] = DefaultPort /\ reported[s] = DefaultPort /\ Own(s) = [id |-> None, port |-> DefaultPort]
        BY <3>1, <3>4 DEF PortsInv, SteadyInv, Own
      <4>2. ProbeFixed
        BY <2>4, <3>1, <4>1 DEF ProbeFixedLost
      <4>3. ~FixedPortFound
        <5> SUFFICES ASSUME NEW e \in registered, e.port = DefaultPort PROVE FALSE
          BY DEF FixedPortFound
        <5>1. e.id # None /\ e.id \notin Legacy /\ <<e.id, DefaultPort>> \in listened
          BY <3>1 DEF FoundInv, SelectionInv, CallInv, Known
        <5>2. e.id = s
          BY <3>1, <4>1, <5>1 DEF SteadyInv
        <5> QED
          BY <3>4, <5>1, <5>2
      <4>4. \A r \in registered : r.id # None
        BY <3>1 DEF FoundInv
      <4> QED
        BY <3>1, <3>4, <4>1, <4>2, <4>3, <4>4 DEF ProbeFixed
    <3> QED
      BY <3>3, <3>4
  <2>5. CASE ProbeFixed
    <3> DEFINE found == {[id |-> IF s \in Legacy THEN None ELSE s, port |-> reported[s]] :
                           s \in {t \in Session : port[t] = DefaultPort}}
               new == IF FixedPortFound THEN {} ELSE {e \in found : \A r \in registered : r.id # e.id}
    <3>1. registered' = registered \cup new /\ stage' = "choosing" /\ probing = {} /\ probing' = {}
      BY <2>5 DEF ProbeFixed
    <3>2. \A e, f \in found : e = f
      BY DEF PortsInv, Listens
    <3>3. \A e, f \in registered' : e.id = f.id => e = f
      BY <3>1, <3>2 DEF FoundInv
    <3> HIDE DEF new
    <3>4. \A s \in steady' : s \in Session
      BY <1>1 DEF SelectionInv, CallInv
    <3>5. Found => \A s \in steady' : Own(s)' \in registered'
      BY <1>3, <2>4, <2>5, <3>4
    <3>6. Found' = Found
      BY <1>1 DEF Found
    <3> QED
      BY <3>1, <3>3, <3>5, <3>6 DEF FoundInv
  <2>6. CASE ProbeFixedLost
    <3>1. registered' = registered /\ stage' = "choosing" /\ UNCHANGED probing
      BY <2>6 DEF ProbeFixedLost
    <3>2. \A s \in steady' : s \in Session
      BY <1>1 DEF SelectionInv, CallInv
    <3>3. Found => \A s \in steady' : Own(s)' \in registered'
      BY <1>3, <2>4, <2>6, <3>2
    <3>4. Found' = Found
      BY <1>1 DEF Found
    <3> QED
      BY <3>1, <3>3, <3>4 DEF FoundInv
  <2> QED
    BY <2>1, <2>2, <2>3, <2>5, <2>6
<1> QED
  BY <1>2, <1>4, <1>5, <1>6

\* Once the call has decided, only what it decided matters.
LEMMA Decided ==
  ASSUME SelectionInv, RoutingInv, stage' \in {"selected", "accepted", "over"},
         UNCHANGED <<sessionVars, target, probing, registered, asking, candidates, historyVars>>,
         ChoiceInv'
  PROVE  RoutingInv'
<1>1. PortsInv' /\ SteadyInv'
  BY CallKeepsSessions DEF RoutingInv, historyVars
<1>2. FoundInv'
  BY DEF RoutingInv, FoundInv
<1>3. IdentifiedInv'
  BY DEF RoutingInv, IdentifiedInv, historyVars
<1> QED
  BY <1>1, <1>2, <1>3 DEF RoutingInv

\* The identities of the endpoints that were found are asked for.
LEMMA IdentityRouting ==
  ASSUME SelectionInv, RoutingInv,
         AskIdentities \/ \E e \in asking : ReadIdentity(e) \/ IdentityLost(e)
  PROVE  RoutingInv'
<1> USE SelectionAssumption DEF RoutingInv
<1>1. /\ UNCHANGED <<sessionVars, listened, showed, target, probing, registered, chosen, accepted,
                     outcome, ranIn>>
      /\ steady' \subseteq steady /\ stage \in {"choosing", "identifying"} /\ stage' = "identifying"
  BY DEF AskIdentities, ReadIdentity, IdentityLost, historyVars
<1>2. PortsInv' /\ SteadyInv'
  BY <1>1, CallKeepsSessions
<1>4. FoundInv'
  BY <1>1 DEF FoundInv, Found, Own, sessionVars
<1>5. ChoiceInv'
  BY <1>1 DEF ChoiceInv, Found, Constant, Alone, SteadyInstanceIsFound
<1>6. IdentifiedInv'
  <2>1. CASE AskIdentities
    <3>1. asking' = registered /\ stage = "choosing" /\ UNCHANGED <<candidates, steady>>
      BY <2>1 DEF AskIdentities, historyVars
    <3> QED
      BY <1>1, <3>1 DEF IdentifiedInv, FoundInv, Found, Own, sessionVars
  <2>2. ASSUME NEW e \in asking, ReadIdentity(e) PROVE IdentifiedInv'
    <3> DEFINE answered == {[endpoint |-> e, drawing |-> drawing[s]] :
                              s \in {t \in Session \ Legacy : port[t] = e.port /\ t = e.id}}
    <3>1. /\ asking' = asking \ {e} /\ candidates' = candidates \cup answered
          /\ stage = "identifying" /\ steady' = steady
      BY <2>2 DEF ReadIdentity, historyVars
    <3>2. ASSUME NEW c \in answered
          PROVE  c.endpoint.id \in Session \ Legacy /\ <<c.endpoint.id, c.drawing>> \in showed
      <4>1. PICK s \in Session \ Legacy : s = e.id /\ c = [endpoint |-> e, drawing |-> drawing[s]]
        OBVIOUS
      <4> QED
        BY <4>1 DEF SteadyInv
    <3>3. ASSUME NEW s \in steady \ Legacy, Own(s) = e PROVE \E c \in answered : c.endpoint = Own(s)
      <4>1. s \in Session \ Legacy /\ port[s] = e.port /\ s = e.id
        BY <3>3 DEF Own, SelectionInv, CallInv
      <4>2. [endpoint |-> e, drawing |-> drawing[s]] \in answered
        BY <4>1
      <4> QED
        BY <3>3, <4>2
    <3> HIDE DEF answered
    <3> QED
      BY <1>1, <3>1, <3>2, <3>3 DEF IdentifiedInv, Found, Own, sessionVars
  <2>3. ASSUME NEW e \in asking, IdentityLost(e) PROVE IdentifiedInv'
    <3>1. asking' = asking \ {e} /\ stage = "identifying" /\ steady' = steady \ {e.id} /\ UNCHANGED candidates
      BY <2>3 DEF IdentityLost
    <3>2. \A s \in steady' \ Legacy : Own(s) # e
      BY <3>1 DEF Own
    <3> QED
      BY <1>1, <3>1, <3>2 DEF IdentifiedInv, Found, Own, sessionVars
  <2> QED
    BY <2>1, <2>2, <2>3
<1> QED
  BY <1>2, <1>4, <1>5, <1>6

\* CIVIL3D_PORT: nothing is found, and nothing is promised.
LEMMA DirectRouting ==
  ASSUME SelectionInv, RoutingInv, Direct
  PROVE  RoutingInv'
<1>1. /\ ~Found /\ stage' \in {"selected", "over"} /\ outcome' \in {"none", "INSTANCE_NOT_FOUND"}
      /\ stage' # "over" => outcome' = "none"
      /\ UNCHANGED <<sessionVars, target, probing, registered, asking, candidates, historyVars>>
  BY DEF Direct, Found, Select, Settle, RoutingInv, ChoiceInv
<1>2. ChoiceInv'
  BY <1>1 DEF ChoiceInv, Found, SteadyInstanceIsFound
<1> QED
  BY <1>1, <1>2, Decided

\* One session at most has been found: no other was there all the time.
LEMMA OnlyRouting ==
  ASSUME SelectionInv, RoutingInv, ChooseOnly
  PROVE  RoutingInv'
<1> USE SelectionAssumption DEF RoutingInv
<1>1. PICK endpoint \in IF registered = {} THEN {FixedEndpoint} ELSE registered :
        Select(endpoint) /\ stage = "choosing"
  BY DEF ChooseOnly
<1>2. /\ stage' = "selected" /\ chosen' = endpoint
      /\ UNCHANGED <<sessionVars, target, probing, registered, asking, candidates, outcome, historyVars>>
  BY <1>1 DEF Select
<1>3. \A e, f \in registered : e = f
  BY RegisteredIsFinite, AtMostOne DEF ChooseOnly
<1>4. outcome = "none"
  BY <1>1 DEF ChoiceInv
<1>5. ASSUME Found, NEW s \in steady, NEW t \in steady PROVE s = t
  <2>1. CASE s \in Legacy /\ t \in Legacy
    BY <2>1 DEF PortsInv, SteadyInv, SelectionInv, CallInv
  <2>2. CASE ~(s \in Legacy /\ t \in Legacy)
    <3>1. registered # {}
      BY <1>1, <1>5, <2>2 DEF FoundInv
    <3>2. Own(s) \in registered /\ Own(t) \in registered
      BY <1>1, <1>5, <3>1 DEF FoundInv
    <3>3. Own(s).id = Own(t).id
      BY <1>3, <3>2
    <3>4. None # s /\ None # t
      BY DEF SelectionInv, CallInv
    <3> QED
      BY <2>2, <3>3, <3>4 DEF Own
  <2> QED
    BY <2>1, <2>2
<1>6. ASSUME Found, NEW s \in steady \ Legacy PROVE chosen' = Own(s)
  <2>1. Own(s) \in registered
    BY <1>1, <1>6 DEF FoundInv
  <2> QED
    BY <1>1, <1>2, <1>3, <2>1
<1>7. ChoiceInv'
  BY <1>2, <1>4, <1>5, <1>6
     DEF ChoiceInv, Found, Own, Constant, Alone, SteadyInstanceIsFound, sessionVars, historyVars
<1> QED
  BY <1>2, <1>7, Decided

\* A session that was asked for is found if it was there all the time.
LEMMA InstanceRouting ==
  ASSUME SelectionInv, RoutingInv, ChooseInstance
  PROVE  RoutingInv'
<1> USE SelectionAssumption DEF RoutingInv
<1>1. /\ target.instance # None /\ target.instance \in Session \ Legacy /\ stage = "choosing"
      /\ stage' \in {"selected", "over"} /\ (stage' # "over" => outcome' = "none")
      /\ UNCHANGED <<sessionVars, target, probing, registered, asking, candidates, historyVars>>
  BY DEF ChooseInstance, Select, Settle, ChoiceInv, SelectionInv, CallInv, TargetType
<1>2. Found /\ outcome' = "INSTANCE_NOT_FOUND" => target.instance \notin steady
  <2> SUFFICES ASSUME Found, outcome' = "INSTANCE_NOT_FOUND", target.instance \in steady PROVE FALSE
    OBVIOUS
  <2>1. Own(target.instance) \in registered /\ Own(target.instance).id = target.instance
    BY <1>1 DEF FoundInv, Own
  <2>2. \E e \in registered : Select(e)
    BY <2>1 DEF ChooseInstance
  <2> QED
    BY <1>1, <2>2 DEF Select, ChoiceInv
<1>3. ChoiceInv'
  BY <1>1, <1>2 DEF ChoiceInv, Found, SteadyInstanceIsFound, historyVars
<1> QED
  BY <1>1, <1>3, Decided

\* The drawing that was asked for is that of every steady session which showed
\* no other, and of one alone if no other session showed it.
LEMMA DrawingRouting ==
  ASSUME SelectionInv, RoutingInv, ChooseDrawing
  PROVE  RoutingInv'
<1> USE SelectionAssumption DEF RoutingInv
<1>1. /\ stage = "identifying" /\ asking = {} /\ outcome = "none"
      /\ stage' \in {"selected", "over"}
      /\ UNCHANGED <<sessionVars, target, probing, registered, asking, candidates, historyVars>>
      /\ stage' # "over" => outcome' = "none"
      /\ outcome' \notin {"ok", "INSTANCE_NOT_FOUND"}
  BY DEF ChooseDrawing, Select, Settle, ChoiceInv
<1>2. ASSUME Found, NEW s \in steady \ Legacy, Constant(s)
      PROVE  /\ target.expected # None
             /\ \E c \in Matches : c.endpoint = Own(s)
             /\ Alone(s) => \A c \in Matches : c.endpoint = Own(s) /\ c.drawing = target.expected
  <2>1. s \in Session /\ <<s, drawing[s]>> \in showed /\ drawing[s] \in Drawing
    BY DEF SteadyInv, SelectionInv, CallInv, ReportedInv
  <2>2. target.expected = drawing[s] /\ target.expected # None
    BY <1>2, <2>1 DEF Constant
  <2>3. PICK c \in candidates : c.endpoint = Own(s)
    BY <1>1, <1>2 DEF IdentifiedInv
  <2>4. c.endpoint.id = s
    BY <2>3 DEF Own
  <2>5. c.drawing \in Drawing /\ <<s, c.drawing>> \in showed
    BY <2>4 DEF IdentifiedInv, SelectionInv, CallInv
  <2>6. c \in Matches
    BY <1>2, <2>5 DEF Matches, Constant
  <2>7. ASSUME Alone(s), NEW d \in Matches PROVE d.endpoint = Own(s) /\ d.drawing = target.expected
    <3>1. d \in candidates /\ d.drawing = target.expected
      BY DEF Matches
    <3>2. d.endpoint.id \in Session \ Legacy /\ <<d.endpoint.id, target.expected>> \in showed
      BY <3>1 DEF IdentifiedInv
    <3>3. d.endpoint.id = s
      BY <2>7, <3>2 DEF Alone
    <3>4. d.endpoint \in registered /\ c.endpoint \in registered
      BY <3>1 DEF SelectionInv, CallInv
    <3>5. d.endpoint = c.endpoint
      BY <2>4, <3>3, <3>4 DEF FoundInv
    <3> QED
      BY <2>3, <3>1, <3>5
  <2> QED
    BY <2>2, <2>3, <2>6, <2>7
<1>3. ASSUME Found, target.instance = None, NEW s \in steady \ Legacy, Constant(s)
      PROVE  outcome' # "DRAWING_MISMATCH"
  BY <1>1, <1>2, <1>3 DEF ChooseDrawing, Settle, Select
<1>4. ASSUME Found, target.instance = None, NEW s \in steady \ Legacy, Constant(s), Alone(s)
      PROVE  stage' = "selected" /\ chosen' = Own(s)
  <2>1. PICK c \in Matches : c.endpoint = Own(s)
    BY <1>2, <1>4
  <2>2. \A d \in Matches : d.endpoint = Own(s) /\ d.drawing = target.expected
    BY <1>2, <1>4
  <2>3. Matches = {c}
    <3>1. \A d \in Matches : d \in [endpoint : registered, drawing : Drawing]
      BY DEF Matches, SelectionInv, CallInv
    <3>2. \A d \in Matches : d = c
      BY <2>2, <3>1
    <3> QED
      BY <2>1, <3>2
  <2>4. Cardinality(Matches) = 1
    BY <2>3, FS_Singleton
  <2>5. \E d \in Matches : Select(d.endpoint)
    BY <1>2, <1>4, <2>3, <2>4 DEF ChooseDrawing
  <2> QED
    BY <2>2, <2>5 DEF Select
<1>5. target.expected = None => stage' = "over"
  BY DEF ChooseDrawing, Settle
<1>6. ChoiceInv'
  <2>1. Found' = Found /\ target' = target /\ steady' = steady /\ showed' = showed
    BY <1>1 DEF Found, historyVars
  <2>2. \A s \in Session : Own(s)' = Own(s)
    BY <1>1 DEF Own, sessionVars
  <2>3. \A s : (Constant(s)' <=> Constant(s)) /\ (Alone(s)' <=> Alone(s))
    BY <2>1 DEF Constant, Alone
  <2>4. steady \subseteq Session
    BY DEF SelectionInv, CallInv
  <2> QED
    BY <1>1, <1>3, <1>4, <1>5, <2>1, <2>2, <2>3, <2>4 DEF ChoiceInv, SteadyInstanceIsFound
<1> QED
  BY <1>1, <1>6, Decided

\* Nobody else listens where a steady session does, and its drawing is the one
\* the plugin's guard compares.
LEMMA ConnectionRouting ==
  ASSUME SelectionInv, RoutingInv, ConnectFails \/ Run \/ \E s \in Session : Connect(s)
  PROVE  RoutingInv'
<1> USE SelectionAssumption DEF RoutingInv
<1>1. UNCHANGED <<sessionVars, target, probing, registered, asking, candidates, historyVars>>
  BY DEF ConnectFails, Run, Connect, Settle
<1>2. Found' = Found /\ target' = target /\ steady' = steady /\ showed' = showed
  BY <1>1 DEF Found, historyVars
<1>3. \A s : (Own(s)' = Own(s)) /\ (Constant(s)' <=> Constant(s)) /\ (Alone(s)' <=> Alone(s))
  BY <1>1, <1>2 DEF Constant, Alone, Own, sessionVars
<1>4. CASE ConnectFails
  <2>1. stage = "selected" /\ stage' = "over" /\ outcome' = "CONNECTION_FAILED" /\ outcome = "none"
    BY <1>4 DEF ConnectFails, Settle, ChoiceInv
  <2>2. ~(\E s \in steady : chosen = Own(s))
    BY <1>4 DEF ConnectFails, Own, SelectionInv, CallInv
  <2>3. ChoiceInv'
    BY <1>2, <1>3, <2>1, <2>2 DEF ChoiceInv, SteadyInstanceIsFound
  <2> QED
    BY <1>1, <2>1, <2>3, Decided
<1>5. ASSUME NEW s \in Session, Connect(s) PROVE RoutingInv'
  <2>1. stage = "selected" /\ stage' = "accepted" /\ accepted' = s /\ outcome' = outcome /\ outcome = "none"
    BY <1>5 DEF Connect, ChoiceInv
  <2>2. \A t \in steady : chosen = Own(t) => t = s
    BY <1>5 DEF Connect, Own, PortsInv, SteadyInv, SelectionInv, CallInv, Listens
  <2>3. ChoiceInv'
    BY <1>2, <1>3, <2>1, <2>2 DEF ChoiceInv, SteadyInstanceIsFound
  <2> QED
    BY <1>1, <2>1, <2>3, Decided
<1>6. CASE Run
  <2>1. stage = "accepted" /\ stage' = "over" /\ outcome' \in {"ok", "GUARD_MISMATCH"} /\ outcome = "none"
    BY <1>6 DEF Run, ChoiceInv
  <2>2. ASSUME NEW s \in steady, Constant(s), accepted = s
        PROVE  ranIn' = [session |-> s, drawing |-> target.expected]
    <3>1. <<s, drawing[s]>> \in showed /\ drawing[s] \in Drawing
      BY DEF SteadyInv, SelectionInv, CallInv, ReportedInv
    <3>2. drawing[s] = target.expected
      BY <2>2, <3>1 DEF Constant
    <3> QED
      BY <1>6, <2>2, <3>2 DEF Run
  <2>3. ChoiceInv'
    BY <1>2, <1>3, <2>1, <2>2 DEF ChoiceInv, SteadyInstanceIsFound
  <2> QED
    BY <1>1, <2>1, <2>3, Decided
<1> QED
  BY <1>4, <1>5, <1>6

-----------------------------------------------------------------------------
\* The routing invariant holds throughout.
THEOREM RoutingInvariance ==
  ASSUME EnoughRecords
  PROVE  SelectionSpec => []RoutingInv
<1>1. SelectionInit => RoutingInv
  <2> SUFFICES ASSUME SelectionInit PROVE RoutingInv
    OBVIOUS
  <2> USE SelectionAssumption DEF SelectionInit, Listens
  <2>1. PortsInv
    BY DEF PortsInv
  <2>2. SteadyInv
    BY DEF SteadyInv, Available
  <2>3. FoundInv /\ IdentifiedInv /\ ChoiceInv
    BY DEF FoundInv, IdentifiedInv, ChoiceInv, SteadyInstanceIsFound
  <2> QED
    BY <2>1, <2>2, <2>3 DEF RoutingInv
<1>2. SelectionInv /\ RoutingInv /\ [SelectionNext]_selectionVars => RoutingInv'
  <2> SUFFICES ASSUME SelectionInv, RoutingInv, [SelectionNext]_selectionVars PROVE RoutingInv'
    OBVIOUS
  <2>1. CASE \E s \in Session : Lifecycle(s)
    BY <2>1, SessionRouting
  <2>2. CASE Call
    BY <2>2, DirectRouting, DiscoveryRouting, OnlyRouting, InstanceRouting, IdentityRouting,
       DrawingRouting, ConnectionRouting DEF Call
  <2>3. CASE UNCHANGED selectionVars
    <3>1. UNCHANGED <<sessionVars, target, callVars, historyVars>>
      BY <2>3 DEF selectionVars
    <3> USE DEF sessionVars, callVars, historyVars, RoutingInv
    <3>2. PortsInv' /\ SteadyInv'
      BY <3>1 DEF PortsInv, SteadyInv, Listens
    <3>3. FoundInv' /\ IdentifiedInv'
      BY <3>1 DEF FoundInv, IdentifiedInv, Found, Own
    <3>4. ChoiceInv'
      BY <3>1 DEF ChoiceInv, Found, Own, Constant, Alone, SteadyInstanceIsFound
    <3> QED
      BY <3>2, <3>3, <3>4
  <2> QED
    BY <2>1, <2>2, <2>3 DEF SelectionNext
<1> QED
  BY <1>1, <1>2, SelectionInvariance, PTL DEF SelectionSpec

\* An unguarded call fails closed: it never runs when two sessions were available
\* and answering all the time, unless records of more sessions than are read
\* could displace one of theirs.
THEOREM UnguardedCallsFailClosed ==
  ASSUME EnoughRecords
  PROVE  SelectionSpec => []FailsClosed
<1>1. SelectionInv /\ RoutingInv => FailsClosed
  <2> SUFFICES ASSUME SelectionInv, RoutingInv, outcome = "ok", Found, target.instance = None,
                      target.expected = None
               PROVE  Cardinality(steady) <= 1
    BY DEF FailsClosed
  <2>1. IsFiniteSet(steady)
    BY SelectionAssumption, FS_Subset DEF SelectionInv, CallInv
  <2>2. \A s, t \in steady : s = t
    BY DEF RoutingInv, ChoiceInv
  <2> QED
    BY <2>1, <2>2, AtMostOne
<1> QED
  BY <1>1, SelectionInvariance, RoutingInvariance, PTL

\* A call that expects a drawing runs in the session that had it, if one alone
\* did all the time, and is never told that nobody has it while somebody does.
THEOREM CallsReachTheirDrawing ==
  ASSUME EnoughRecords
  PROVE  SelectionSpec => []RoutedToTheDrawing
<1>1. RoutingInv => RoutedToTheDrawing
  BY DEF RoutingInv, ChoiceInv, RoutedToTheDrawing, Alone
<1> QED
  BY <1>1, RoutingInvariance, PTL

\* A session that is named and available all the time is found.
THEOREM NamedSessionsAreFound ==
  ASSUME EnoughRecords
  PROVE  SelectionSpec => []SteadyInstanceIsFound
<1>1. RoutingInv => SteadyInstanceIsFound
  BY DEF RoutingInv, ChoiceInv
<1> QED
  BY <1>1, RoutingInvariance, PTL
=============================================================================
