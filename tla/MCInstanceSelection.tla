------------------------ MODULE MCInstanceSelection ------------------------
(* Small sets of sessions and of calls for TLC.                            *)
EXTENDS InstanceSelection, TLC

CONSTANTS p0, p1, p2, d1, d2

Call_(instances, drawings, ports) == [instance : instances, expected : drawings, port : ports]

\* Calls that name nothing, a drawing or a session, and find sessions themselves.
Unnamed == Call_({None}, {None}, {None})
ByDrawing == Call_({None}, Drawing, {None})
ByInstance == Call_(Session \ Legacy, {None}, {None})

\* Calls with CIVIL3D_PORT set.
ByPort == Call_((Session \ Legacy) \cup {None}, {None}, Port)

EveryTarget == Unnamed \cup ByDrawing \cup ByInstance \cup ByPort
Discovering == Unnamed \cup ByDrawing \cup ByInstance

Ports == {p0, p1, p2}
Drawings == {d1, d2}
Renaming == Permutations({p1, p2}) \cup Permutations(Drawings)
=============================================================================
