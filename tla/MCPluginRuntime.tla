--------------------------- MODULE MCPluginRuntime ---------------------------
(***************************************************************************)
(* Small sessions of the plugin; the configurations choose one each.       *)
(***************************************************************************)
EXTENDS PluginRuntime, TLC

CONSTANTS r1, r2, r3, r4, r5, d1, d2, k1, k2, x1, x2

\* Guarded write of code x1 to d1.
Write == [method |-> "executeCode", readOnly |-> FALSE, saveDrawing |-> FALSE,
          key |-> NoKey, code |-> x1, expected |-> d1]

\* A keyed write that saves, its retry by a client that saw no answer, and
\* a read without key or guard.
RetryInput ==
  r1 :> [Write EXCEPT !.key = k1, !.saveDrawing = TRUE] @@
  r2 :> [Write EXCEPT !.key = k1, !.saveDrawing = TRUE] @@
  r3 :> [Write EXCEPT !.method = "getActiveDrawingIdentity", !.expected = NoDocument]

\* The keyed write and its retry beside a second key, which evicts the first
\* where there is room for one.
WriteInput ==
  r1 :> [Write EXCEPT !.key = k1, !.saveDrawing = TRUE] @@
  r2 :> [Write EXCEPT !.key = k1, !.saveDrawing = TRUE] @@
  r3 :> [Write EXCEPT !.key = k2]

\* Refusals at every stage: a save of an untitled drawing, another use of its key,
\* health beside them, and inputs refused before and after it is taken.
RefusalInput ==
  r1 :> [Write EXCEPT !.key = k1, !.saveDrawing = TRUE] @@
  r2 :> [Write EXCEPT !.key = k1, !.code = x2] @@
  r3 :> [Write EXCEPT !.method = "control"] @@
  r4 :> [Write EXCEPT !.key = k2, !.expected = NoDocument] @@
  r5 :> [Write EXCEPT !.method = "unknown"]

\* A keyed write and a script that only reads, without key or guard.
ProgressInput ==
  r1 :> [Write EXCEPT !.key = k1] @@
  r2 :> [Write EXCEPT !.readOnly = TRUE, !.expected = NoDocument]
=============================================================================
