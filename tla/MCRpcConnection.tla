--------------------------- MODULE MCRpcConnection ---------------------------
(* Small connections for TLC.                                              *)
EXTENDS RpcConnection, TLC

CONSTANTS c1, c2, c3

\* One command that fits and one that does not, each alone or together with
\* others on one connection.
OneCommand == {c1}
TwoCommands == {c1, c2}
ThreeCommands == {c1, c2, c3}
RequestSizes == [c \in Command |-> IF c = c3 THEN 3 ELSE 2]
\* A result, a refusal before the start, and the code of both a script that failed and a
\* host that never ran it.
HandlerCodes == {"ok", "IDEMPOTENCY_COMPLETED", "TRANSACTION_FAILED"}
=============================================================================
