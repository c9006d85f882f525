-------------------------- MODULE StructuredError --------------------------
(***************************************************************************)
(* What the MCP server tells its client about an error: whether the        *)
(* operation was not started, ended with a reported error, or may have had *)
(* effects nobody knows of.  Codes drop the prefix "CIVIL3D.".             *)
(***************************************************************************)

NotStartedCodes ==
  {"DRAWING_GUARD_REQUIRED", "DRAWING_MISMATCH", "SAVE_PATH_REQUIRED",
   "DRAWING_GUARD_INVALID", "IDEMPOTENCY_CONFLICT", "IDEMPOTENCY_IN_PROGRESS",
   "IDEMPOTENCY_COMPLETED", "COMMAND_CONTEXT_TIMEOUT", "REQUEST_TOO_LARGE"}

UnknownCodes == {"TIMEOUT", "RESPONSE_TOO_LARGE", "TRANSPORT_ERROR"}

\* classifyPluginCode; every other code is a reported error.
Outcome(code) ==
  CASE code \in NotStartedCodes -> "not_started"
    [] code \in UnknownCodes    -> "unknown"
    [] OTHER                    -> "reported_error"

\* civil3dErrorFromPlugin: a code that is no code of this program is kept out.
PluginError(code) ==
  LET kept == IF code = "malformed" THEN "PLUGIN_ERROR" ELSE code
  IN [status |-> "error", code |-> kept, outcome |-> Outcome(kept)]

\* An error this program raised itself, with the outcome it gives.
OwnError(code, outcome) == [status |-> "error", code |-> code, outcome |-> outcome]

\* Faulty variant of ForeignError: an exception that is not understood is
\* taken for one before the command was sent.
ForeignErrorNotStarted == OwnError("UNKNOWN_ERROR", "not_started")

\* normalizeCivil3dError: of any other exception nothing is known.
ForeignError == OwnError("UNKNOWN_ERROR", "unknown")
=============================================================================
