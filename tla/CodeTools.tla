------------------------------- MODULE CodeTools -------------------------------
(***************************************************************************)
(* The tools civil3d_query and civil3d_execute, and api_lookup of           *)
(* civil3d_skills: calls in flight on one event loop, each with a           *)
(* connection of its own, the skill files they read and the audit log they *)
(* write.  The choice of a plugin and the connection are modules of their  *)
(* own; here they are their outcomes.  The plugin is what PluginRuntime    *)
(* shows of it.                                                            *)
(***************************************************************************)
EXTENDS Naturals, Sequences, FiniteSets, StructuredError, Option

CONSTANTS
  Call,          \* tool calls
  SkillName,     \* names of skills
  SelectCodes,   \* refusals of the choice of a plugin and of the connection
  AnswerCodes,   \* error codes the plugin answers with, "malformed" among them
  LevelSetting,  \* values of LOG_LEVEL
  Inputs         \* arguments clients call with

Tools == {"query", "execute", "lookup"}

\* What a call says: C# code, a skill (with values that fit it or not), and
\* trace metadata.  The code of a call is named after the call; a lookup's
\* query counts as its code.
ToolArgs ==
  [tool : Tools, code : BOOLEAN, skill : SkillName \cup {None}, params : {"none", "fit", "unfit"},
   meta : {"good", "bad"}]

\* A file: whether the skill writes, whether it can be run by name, its text.
Files == [write : BOOLEAN, runnable : BOOLEAN, text : {"first", "edited"}]

\* The C# that is sent, and what an audit event and a result say.
Scripts == [from : Call \cup SkillName, write : BOOLEAN, text : {"own", "first", "edited"}]
Contexts == [tool : {"query", "execute"}, script : Scripts]
Codes == SelectCodes \cup AnswerCodes \cup
  {"INVALID_INPUT", "INVALID_BENCHMARK_METADATA", "UNKNOWN_ERROR", "PLUGIN_ERROR", "TIMEOUT",
   "TRANSPORT_ERROR"}
Outcomes == {"not_started", "unknown", "reported_error"}
Errors == [status : {"error"}, code : Codes, outcome : Outcomes]
ToolResults == Errors \cup {[status |-> "success", code |-> None, outcome |-> None]}
Commands == [method : {"apiLookup"}]
            \cup [method : {"executeCode"}, readOnly : BOOLEAN, script : Scripts]

ASSUME ToolsAssumption ==
  /\ Inputs \subseteq ToolArgs
  /\ None \notin ToolArgs \cup Files \cup Contexts \cup ToolResults \cup Commands \cup SkillName
             \cup Outcomes

VARIABLES
  library,    \* the skill files
  setting,    \* LOG_LEVEL
  input,      \* arguments of each call, None before it
  context,    \* its audit context: tool and code, None before and without
  cancelled,  \* whether its client cancelled it
  result,     \* what the tool returned, None before
  received,   \* the command the plugin got for it, None before
  script,     \* "none", "running", "refused" or "ended"
  log         \* the audit events

toolVars == <<library, setting, input, context, cancelled, result, received, script, log>>

ToolsInit ==
  /\ library \in [SkillName -> {None} \cup {f \in Files : f.text = "first"}]
  /\ setting \in LevelSetting
  /\ input = [c \in Call |-> None] /\ context = input /\ result = input /\ received = input
  /\ cancelled = [c \in Call |-> FALSE] /\ script = [c \in Call |-> "none"]
  /\ log = <<>>

\* CURRENT_LEVEL, an unknown setting being "info", and shouldLog("info").
Level == IF setting \in {"debug", "info", "warn", "error"} THEN setting ELSE "info"
LogsInfo == Level \in {"debug", "info"}

\* Faulty variant of WhyRefused: a query may name a skill that writes.
WhyRefusedAnyTool(a) ==
  LET file == library[a.skill]
  IN IF a.skill = None
     THEN IF a.params # "none" \/ ~a.code THEN "INVALID_INPUT" ELSE "none"
     ELSE IF a.code \/ file = None \/ ~file.runnable \/ a.params = "unfit"
          THEN "INVALID_INPUT" ELSE "none"

\* Why resolveScriptCode refuses a call, "none" if it does not.
WhyRefused(a) ==
  LET file == library[a.skill]
  IN IF a.skill = None
     THEN IF a.params # "none" \/ ~a.code THEN "INVALID_INPUT" ELSE "none"
     ELSE IF \/ a.code
             \/ file = None
             \/ a.tool = "query" /\ file.write
             \/ ~file.runnable \/ a.params = "unfit"
          THEN "INVALID_INPUT" ELSE "none"

\* The C# of an accepted call: its own, or the file's with its values.
Script(c, a) ==
  IF a.skill = None THEN [from |-> c, write |-> a.tool = "execute", text |-> "own"]
  ELSE [from |-> a.skill, write |-> library[a.skill].write, text |-> library[a.skill].text]

\* Faulty variant of RefuseCall: the audit context is made before the script is resolved.
RefuseCallAudited(c, a, error) ==
  /\ result' = [result EXCEPT ![c] = error]
  /\ log' = IF LogsInfo
            THEN Append(log, [call |-> c, tool |-> a.tool, script |-> None,
                              status |-> "error", code |-> error.code,
                              outcome |-> error.outcome])
            ELSE log
  /\ UNCHANGED context

\* A call that ends before anything is sent.
RefuseCall(c, a, error) ==
  /\ result' = [result EXCEPT ![c] = error]
  /\ UNCHANGED <<context, log>>

\* createOperationAuditContext, for the code tools.
Accept(c, a) ==
  /\ context' = [context EXCEPT ![c] = [tool |-> a.tool, script |-> Script(c, a)]]
  /\ UNCHANGED <<result, log>>

\* Only for a skill does resolveScriptCode read files, which may fail in any way.
ReadsFiles(a) == a.skill # None /\ ~a.code

\* resolveScriptCode and what follows, for the code tools.
Resolve(c, a) ==
  \/ WhyRefused(a) # "none" /\ RefuseCall(c, a, OwnError(WhyRefused(a), "not_started"))
  \/ WhyRefused(a) = "none" /\ Accept(c, a)
  \/ ReadsFiles(a) /\ RefuseCall(c, a, ForeignError)

\* The handler up to its first await.
CallTool(c, a) ==
  /\ input[c] = None
  /\ input' = [input EXCEPT ![c] = a]
  /\ IF a.tool = "lookup"
     THEN IF a.code THEN UNCHANGED <<context, result, log>>
          ELSE RefuseCall(c, a, OwnError("INVALID_INPUT", "not_started"))
     ELSE IF a.meta = "bad"
     THEN RefuseCall(c, a, OwnError("INVALID_BENCHMARK_METADATA", "not_started"))
     ELSE Resolve(c, a)
  /\ UNCHANGED <<library, setting, cancelled, received, script>>

Pending(c) == input[c] # None /\ result[c] = None

\* logOperationSuccess and logOperationFailure.
Event(c, r) ==
  [call |-> c, tool |-> context[c].tool, script |-> context[c].script,
   status |-> r.status, code |-> r.code, outcome |-> r.outcome]

\* The handler after its await: the event, then the result.
Finish(c, r) ==
  /\ result' = [result EXCEPT ![c] = r]
  /\ log' = IF input[c].tool # "lookup" /\ LogsInfo THEN Append(log, Event(c, r)) ELSE log

\* No plugin is chosen, no connection comes about, or the request is too large.
SelectionFails(c, code) ==
  /\ Pending(c) /\ received[c] = None
  /\ Finish(c, OwnError(code, "not_started"))
  /\ UNCHANGED <<library, setting, input, context, cancelled, received, script>>

\* sendCommand, with the code that was resolved.
Send(c) ==
  /\ Pending(c) /\ received[c] = None
  /\ received' = [received EXCEPT ![c] =
       IF input[c].tool = "lookup" THEN [method |-> "apiLookup"]
       ELSE [method |-> "executeCode", readOnly |-> input[c].tool = "query", script |-> context[c].script]]
  /\ UNCHANGED <<library, setting, input, context, cancelled, result, script, log>>

\* The plugin starts the script or the lookup, even when nobody waits for it any more.
ScriptRuns(c) ==
  /\ received[c] # None /\ script[c] = "none"
  /\ script' = [script EXCEPT ![c] = "running"]
  /\ UNCHANGED <<library, setting, input, context, cancelled, result, received, log>>

ScriptEnds(c) ==
  /\ script[c] = "running"
  /\ script' = [script EXCEPT ![c] = "ended"]
  /\ UNCHANGED <<library, setting, input, context, cancelled, result, received, log>>

\* The answer of the plugin: the script's value,
AnswerValue(c) ==
  /\ Pending(c) /\ script[c] = "ended"
  /\ Finish(c, [status |-> "success", code |-> None, outcome |-> None])
  /\ UNCHANGED <<library, setting, input, context, cancelled, received, script>>

\* or an error, which is a "not started" one only for a script that never starts.
AnswerError(c, code) ==
  /\ Pending(c) /\ received[c] # None
  /\ IF code \in NotStartedCodes
     THEN script[c] = "none" /\ script' = [script EXCEPT ![c] = "refused"]
     ELSE script[c] \in {"none", "ended"}
          /\ script' = [script EXCEPT ![c] = IF @ = "none" THEN "refused" ELSE @]
  /\ Finish(c, PluginError(code))
  /\ UNCHANGED <<library, setting, input, context, cancelled, received>>

\* The connection breaks or the command times out, whatever the plugin does.
TransportFails(c, code) ==
  /\ Pending(c) /\ received[c] # None
  /\ Finish(c, OwnError(code, "unknown"))
  /\ UNCHANGED <<library, setting, input, context, cancelled, received, script>>

\* An exception of a library, before the command is sent or after.
Throws(c) ==
  /\ Pending(c)
  /\ Finish(c, ForeignError)
  /\ UNCHANGED <<library, setting, input, context, cancelled, received, script>>

\* The client cancels; the handlers do not look at the signal they get.
CancelCall(c) ==
  /\ Pending(c) /\ ~cancelled[c]
  /\ cancelled' = [cancelled EXCEPT ![c] = TRUE]
  /\ UNCHANGED <<library, setting, input, context, result, received, script, log>>

\* Somebody edits or deletes a skill file.
EditFile(s) ==
  /\ \E f \in {None} \cup {f \in Files : f.text = "edited"} : library' = [library EXCEPT ![s] = f]
  /\ UNCHANGED <<setting, input, context, cancelled, result, received, script, log>>

CallSteps(c) ==
  \/ \E a \in Inputs : CallTool(c, a)
  \/ Send(c) \/ ScriptRuns(c) \/ ScriptEnds(c) \/ AnswerValue(c) \/ Throws(c) \/ CancelCall(c)
  \/ \E code \in SelectCodes : SelectionFails(c, code)
  \/ \E code \in AnswerCodes : AnswerError(c, code)
  \/ \E code \in {"TIMEOUT", "TRANSPORT_ERROR"} : TransportFails(c, code)

ToolsNext == (\E c \in Call : CallSteps(c)) \/ \E s \in SkillName : EditFile(s)

ToolsSpec == ToolsInit /\ [][ToolsNext]_toolVars

-----------------------------------------------------------------------------
(* Properties.                                                             *)

Accepted(c) == context[c] # None
EventsOf(c) == {i \in 1..Len(log) : log[i].call = c}

\* Every accepted operation that ended has one event, with the tool and the
\* code the plugin got and the outcome the caller got; a refused call has none,
\* nor has any when the level leaves events out.
AuditTellsWhatHappened ==
  \A c \in Call :
    /\ Cardinality(EventsOf(c)) =
         IF Accepted(c) /\ result[c] # None /\ setting \notin {"warn", "error"} THEN 1 ELSE 0
    /\ \A i \in EventsOf(c) :
         /\ log[i].tool = input[c].tool
         /\ log[i].status = result[c].status
         /\ log[i].code = result[c].code /\ log[i].outcome = result[c].outcome
         /\ received[c] # None => log[i].script = received[c].script

\* A skill that writes is never sent by civil3d_query, even when its file is
\* edited while the call is under way.
QuerySendsNoWrites ==
  \A c \in Call :
    received[c] # None /\ received[c].method = "executeCode" =>
      received[c].readOnly = (input[c].tool = "query")
      /\ (received[c].readOnly => ~received[c].script.write)

\* What a tool says of an operation is true and stays true: one that it says
\* was not started is never started, one that succeeded has run.
ResultIsTrue ==
  \A c \in Call :
    result[c] # None =>
      /\ result[c].outcome = "not_started" => script[c] \in {"none", "refused"} /\ (received[c] # None => script[c] = "refused")
      /\ result[c].status = "success" => script[c] = "ended"
=============================================================================
