---------------------------- MODULE CivilCommand ----------------------------
(***************************************************************************)
(* What a backend promises the plugin about one call of ExecuteAsync: the  *)
(* body of a request either never runs and the call ends with the reason,  *)
(* or runs exactly once, alone, to its end, and the call ends only with    *)
(* the host command around it.  ModalCommandAdmission and                  *)
(* CommandContextAdmission implement it, PluginRuntime is built on it.     *)
(***************************************************************************)
CONSTANT Request

VARIABLES command,   \* where each request is
          cancelled  \* requests whose client is gone

commandVars == <<command, cancelled>>

NotRun == {"cancelled", "timeout", "no_drawing", "send_failed", "mismatch"}

HostEnded == {"completed", "command_failed", "body_failed"}

\* The UI thread is inside the host command of the request.
InCommand == {"running", "exited"}

CommandStage == {"none", "pending"} \cup InCommand \cup NotRun \cup HostEnded

CommandInit ==
  /\ command = [r \in Request |-> "none"]
  /\ cancelled = {}

Advance(r, from, to) ==
  /\ command[r] = from
  /\ command' = [command EXCEPT ![r] = to]

Submit(r) ==
  /\ Advance(r, "none", "pending")
  /\ UNCHANGED cancelled

\* Only a request that has not started ends without a run, and only a cancelled
\* one ends as cancelled.
Abandon(r, reason) ==
  /\ \/ Advance(r, "pending", reason)
     \/ reason = "cancelled" /\ Advance(r, "none", reason)
  /\ reason = "cancelled" => r \in cancelled
  /\ UNCHANGED cancelled

\* One body at a time: the previous host command has ended.
Start(r) ==
  /\ \A s \in Request : command[s] \notin InCommand
  /\ Advance(r, "pending", "running")
  /\ UNCHANGED cancelled

Exit(r) ==
  /\ Advance(r, "running", "exited")
  /\ UNCHANGED cancelled

End(r, how) ==
  /\ Advance(r, "exited", how)
  /\ UNCHANGED cancelled

Cancel(r) ==
  /\ r \notin cancelled
  /\ cancelled' = cancelled \cup {r}
  /\ UNCHANGED command

CommandNext ==
  \E r \in Request :
    \/ Submit(r) \/ Start(r) \/ Exit(r) \/ Cancel(r)
    \/ \E reason \in NotRun : Abandon(r, reason)
    \/ \E how \in HostEnded : End(r, how)

CommandSpec == CommandInit /\ [][CommandNext]_commandVars
=============================================================================
