---------------------------- MODULE RpcConnection ----------------------------
(***************************************************************************)
(* One TCP connection between the MCP server and whatever listens on the   *)
(* port: withDirectConnection and ApplicationClientConnection on one end,  *)
(* ProcessStreamAsync with its peer-close watch on the other.              *)
(*                                                                         *)
(* A frame is a number of body bytes and a delimiter.  How many bytes of   *)
(* it are written, taken and buffered are numbers; any non-empty part may  *)
(* arrive as one chunk.  The handler is what PluginRuntime promises: it    *)
(* answers with or without running the caller's code, or is dropped once   *)
(* it is cancelled; only what never ran is answered as not started.        *)
(*                                                                         *)
(* The client is one event loop, so each of its callbacks is one action.   *)
(***************************************************************************)
EXTENDS Naturals, FiniteSets, StructuredError

CONSTANTS
  Command,      \* commands the operation sends on this connection
  NoCommand,
  RequestSize,  \* body bytes of each command
  AnswerSize,   \* body bytes an answer may have
  BodyLimit,    \* MAX_JSON_BODY_BYTES and MaxJsonBodyBytes
  HandlerCode,  \* codes the handler may answer with, "ok" for a result
  Peers         \* what may listen: "plugin", or "stranger", another program

ASSUME ConnectionAssumption ==
  /\ NoCommand \notin Command
  /\ RequestSize \in [Command -> Nat \ {0}]
  /\ AnswerSize \subseteq Nat \ {0}
  /\ BodyLimit \in Nat \ {0}
  /\ "REQUEST_TOO_LARGE" \notin HandlerCode
  /\ Peers \subseteq {"plugin", "stranger"}

VARIABLES
  stage,              \* where withDirectConnection is
  socket,             \* the client's socket: "open", "ended" or "destroyed"
  responseCallbacks,  \* commands with a pending response
  responseByteLength, \* bytes in responseChunks
  told,               \* what the promise of each command was settled with
  wire,               \* the command written on the connection
  upWritten, upRead,  \* bytes of its frame sent and not lost, and read
  upClosed,           \* the client has closed its side
  downWritten, downTaken,  \* bytes of the answer's frame sent, and received
  downEnd,            \* how the peer has closed its side, "open" if not
  peer,               \* what listens, "dead" once the plugin's process has ended
  srv,                \* where ProcessStreamAsync is
  work,               \* where the handler is
  watch,              \* where CancelWhenPeerClosesAsync is
  cancelled,          \* requestCancellation
  stopped,            \* the server's own token
  answer,             \* what the peer answers
  ran                 \* history: commands whose caller's code was entered

clientVars == <<stage, socket, responseCallbacks, responseByteLength, told>>
upVars == <<wire, upWritten, upRead, upClosed>>
downVars == <<downWritten, downTaken, downEnd>>
serverVars == <<srv, work, watch, cancelled, stopped, answer, ran>>
connectionVars == <<clientVars, upVars, downVars, peer, serverVars>>

Untold == [code |-> "none", outcome |-> "none"]

NotStarted(code) == [code |-> code, outcome |-> "not_started"]

Unknown(code) == [code |-> code, outcome |-> "unknown"]

\* civil3dErrorFromPlugin, or the result.
FromPlugin(code) == [code |-> code, outcome |-> IF code = "ok" THEN "ok" ELSE Outcome(code)]

\* "mine": a JSON object with the id of the command; "foreign": anything else.
NoAnswer == [kind |-> "none", code |-> "none", size |-> 0]

ConnectionInit ==
  /\ stage = "connecting" /\ socket = "open"
  /\ responseCallbacks = {} /\ responseByteLength = 0
  /\ told = [c \in Command |-> Untold]
  /\ wire = NoCommand /\ upWritten = 0 /\ upRead = 0 /\ upClosed = FALSE
  /\ downWritten = 0 /\ downTaken = 0 /\ downEnd = "open"
  /\ peer \in Peers
  /\ srv = "reading" /\ work = "none" /\ watch = "off"
  /\ cancelled = FALSE /\ stopped = FALSE
  /\ answer = NoAnswer /\ ran = {}

-----------------------------------------------------------------------------
(* Pieces of the client's handlers.                                        *)

\* destroy() or end(); what was not sent yet may be lost with destroy().
Destroy ==
  /\ socket' = "destroyed"
  /\ upClosed' = TRUE
  /\ upWritten' \in upRead..upWritten
  /\ UNCHANGED <<wire, upRead>>

KeepSocket == UNCHANGED <<socket, upVars>>

\* Settles the pending commands, clears their timers and the buffer.
SettlePending(settlement) ==
  /\ told' = [c \in Command |-> IF c \in responseCallbacks THEN settlement ELSE told[c]]
  /\ responseCallbacks' = {}
  /\ responseByteLength' = 0

\* completeResponse, handleResponse: the buffered bytes are the whole body of an
\* answer to the pending command, or they are not.
CompleteResponse(bytes) ==
  IF bytes = answer.size /\ answer.kind = "mine" /\ wire \in responseCallbacks
  THEN SettlePending(FromPlugin(answer.code)) /\ KeepSocket
  ELSE SettlePending(Unknown("TRANSPORT_ERROR")) /\ Destroy

-----------------------------------------------------------------------------
(* withDirectConnection and sendCommand.                                   *)

ConnectFails ==
  /\ stage = "connecting" /\ srv = "done"
  /\ stage' = "over"
  /\ told' = [c \in Command |-> NotStarted("CONNECTION_FAILED")]
  /\ Destroy
  /\ UNCHANGED <<responseCallbacks, responseByteLength, downVars, peer, serverVars>>

ConnectTimesOut ==
  /\ stage = "connecting"
  /\ stage' = "over"
  /\ told' = [c \in Command |-> NotStarted("CONNECTION_TIMEOUT")]
  /\ Destroy
  /\ UNCHANGED <<responseCallbacks, responseByteLength, downVars, peer, serverVars>>

TooLarge(c) == RequestSize[c] > BodyLimit

\* The catch block of sendCommand resets the buffer whatever it holds.
RefuseCommand(c, code) ==
  /\ told[c] = Untold /\ c \notin responseCallbacks
  /\ told' = [told EXCEPT ![c] = NotStarted(code)]
  /\ responseByteLength' = 0
  /\ UNCHANGED <<socket, responseCallbacks, upVars, downVars, peer, serverVars>>

\* The connect event; the operation calls sendCommand before the next event.
ConnectAndRefuse(c) ==
  /\ stage = "connecting" /\ srv # "done"
  /\ stage' = "operating"
  /\ TooLarge(c) /\ RefuseCommand(c, "REQUEST_TOO_LARGE")

ConnectAndSend(c) ==
  /\ stage = "connecting" /\ srv # "done"
  /\ stage' = "operating"
  /\ ~TooLarge(c)
  /\ responseCallbacks' = {c}
  /\ wire' = c /\ upWritten' = RequestSize[c] + 1
  /\ UNCHANGED <<socket, responseByteLength, told, upRead, upClosed, downVars, peer, serverVars>>

\* An operation that goes on after a refusal sends before the next event of the socket.
SendAfterRefusal(c) ==
  /\ stage = "operating" /\ wire = NoCommand /\ socket = "open" /\ downTaken = 0
  /\ told[c] = Untold /\ ~TooLarge(c)
  /\ responseCallbacks' = {c}
  /\ wire' = c /\ upWritten' = RequestSize[c] + 1
  /\ UNCHANGED <<stage, socket, responseByteLength, told, upRead, upClosed, downVars, peer,
                 serverVars>>

\* An operation that sends a command too large, or a second one, settled or not.
SendAgain(c) ==
  /\ stage = "operating" /\ (TooLarge(c) \/ wire # NoCommand)
  /\ UNCHANGED stage
  /\ RefuseCommand(c, IF TooLarge(c) THEN "REQUEST_TOO_LARGE" ELSE "ONE_COMMAND")

\* The timer is armed while its command is pending.
CommandTimesOut(c) ==
  /\ c \in responseCallbacks
  /\ SettlePending(Unknown("COMMAND_TIMEOUT"))
  /\ Destroy
  /\ UNCHANGED <<stage, downVars, peer, serverVars>>

\* The finally block, when the operation has settled.
Disconnect ==
  /\ stage = "operating" /\ responseCallbacks = {}
  /\ stage' = "over"
  /\ upClosed' = TRUE
  /\ socket' = IF socket = "open" THEN "ended" ELSE socket
  /\ UNCHANGED <<responseCallbacks, responseByteLength, told, wire, upWritten, upRead,
                 downVars, peer, serverVars>>

-----------------------------------------------------------------------------
(* The listeners of the socket.                                            *)

Min2(m, n) == IF m < n THEN m ELSE n

\* Body bytes buffered after a chunk that ends with byte n of the frame.
BytesAfter(n) == responseByteLength + Min2(n, answer.size) - Min2(downTaken, answer.size)

Chunk(n) ==
  /\ socket # "destroyed" /\ n \in (downTaken + 1)..downWritten
  /\ downTaken' = n
  /\ UNCHANGED <<stage, downWritten, downEnd, peer, serverVars>>

DataIgnored(n) ==
  /\ Chunk(n) /\ responseCallbacks = {}
  /\ UNCHANGED <<socket, responseCallbacks, responseByteLength, told, upVars>>

DataTooLarge(n) ==
  /\ Chunk(n) /\ responseCallbacks # {}
  /\ BytesAfter(n) > BodyLimit
  /\ SettlePending(Unknown("RESPONSE_TOO_LARGE"))
  /\ Destroy

DataPartial(n) ==
  /\ Chunk(n) /\ responseCallbacks # {}
  /\ BytesAfter(n) <= BodyLimit /\ n <= answer.size
  /\ responseByteLength' = BytesAfter(n)
  /\ UNCHANGED <<socket, responseCallbacks, told, upVars>>

DataTrailing(n) ==
  /\ Chunk(n) /\ responseCallbacks # {}
  /\ BytesAfter(n) <= BodyLimit /\ n > answer.size + 1
  /\ SettlePending(Unknown("TRANSPORT_ERROR"))
  /\ Destroy

\* Faulty variant of DataComplete: neither the JSON nor the id is looked at.
DataCompleteUnchecked(n) ==
  /\ Chunk(n) /\ responseCallbacks # {}
  /\ BytesAfter(n) <= BodyLimit /\ n = answer.size + 1
  /\ SettlePending(FromPlugin(answer.code)) /\ KeepSocket

DataComplete(n) ==
  /\ Chunk(n) /\ responseCallbacks # {}
  /\ BytesAfter(n) <= BodyLimit /\ n = answer.size + 1
  /\ CompleteResponse(BytesAfter(n))

\* processLegacyResponseAtEof: a body without delimiter counts after an orderly
\* end.  The socket then ends its own side by itself.
EndEvent ==
  /\ stage # "connecting" /\ socket # "destroyed" /\ downEnd = "fin" /\ downTaken = downWritten
  /\ downEnd' = "seen"
  /\ IF responseCallbacks # {} /\ responseByteLength > 0
     THEN /\ CompleteResponse(responseByteLength)
     ELSE /\ SettlePending(Unknown("TRANSPORT_ERROR"))
          /\ socket' = "ended" /\ upClosed' = TRUE
          /\ UNCHANGED <<wire, upWritten, upRead>>
  /\ UNCHANGED <<stage, downWritten, downTaken, peer, serverVars>>

\* Faulty variant of ErrorEvent: a connection that broke before the first byte of
\* an answer is taken for a command that was not started.
ErrorEventNotStarted ==
  /\ stage # "connecting" /\ socket # "destroyed" /\ downEnd = "rst"
  /\ SettlePending(IF responseByteLength = 0 THEN NotStarted("TRANSPORT_ERROR")
                   ELSE Unknown("TRANSPORT_ERROR"))
  /\ Destroy
  /\ UNCHANGED <<stage, downVars, peer, serverVars>>

\* The error event, and the close event after it.
ErrorEvent ==
  /\ stage # "connecting" /\ socket # "destroyed" /\ downEnd = "rst"
  /\ SettlePending(Unknown("TRANSPORT_ERROR"))
  /\ Destroy
  /\ UNCHANGED <<stage, downVars, peer, serverVars>>

-----------------------------------------------------------------------------
(* The plugin: ProcessStreamAsync, its handler and its watch.              *)

\* CreateTransportErrorResponse without the id of a request.
NoIdAnswer(code) == [kind |-> "foreign", code |-> code, size |-> 1]

\* ProcessClientAsync disposes the connection; unread bytes make it a reset.
CloseConnection ==
  /\ srv' = "done"
  /\ downEnd' \in IF upRead < upWritten THEN {"fin", "rst"} ELSE {"fin"}

\* ReadFramedJsonBodyAsync, one read.
ReadRequest(n) ==
  /\ peer = "plugin" /\ srv = "reading" /\ n \in (upRead + 1)..upWritten
  /\ upRead' = n
  /\ IF Min2(n, RequestSize[wire]) > BodyLimit
     THEN srv' = "answering" /\ answer' = NoIdAnswer("REQUEST_TOO_LARGE")
          /\ UNCHANGED <<work, watch>>
     ELSE IF n <= RequestSize[wire] THEN UNCHANGED <<srv, answer, work, watch>>
     ELSE srv' = "handling" /\ work' = "waiting" /\ watch' = "reading"
          /\ UNCHANGED answer
  /\ UNCHANGED <<clientVars, wire, upWritten, upClosed, downVars, peer, cancelled, stopped, ran>>

\* The end of the stream before the delimiter.
ReadClosed ==
  /\ peer = "plugin" /\ srv = "reading" /\ upClosed /\ upRead = upWritten
  /\ srv' = "answering" /\ answer' = NoIdAnswer("TRANSPORT_ERROR")
  /\ UNCHANGED <<clientVars, upVars, downVars, peer, work, watch, cancelled, stopped, ran>>

Handler(from, to) ==
  /\ peer = "plugin" /\ srv = "handling" /\ work = from /\ work' = to
  /\ UNCHANGED <<clientVars, upVars, downVars, peer, srv, watch, cancelled, stopped>>

Answers(codes) ==
  \E code \in codes, size \in AnswerSize :
    answer' = [kind |-> "mine", code |-> code, size |-> size]

\* Health, an API lookup, and every refusal before the caller's code: at the registry,
\* the dispatcher, the sandbox, the compiler or the drawing.
AnswerWithoutRun ==
  /\ Handler("waiting", "ended")
  /\ Answers(HandlerCode) /\ UNCHANGED ran

StartWork ==
  /\ Handler("waiting", "running")
  /\ ran' = ran \cup {wire} /\ UNCHANGED answer

EndWork ==
  /\ Handler("running", "ended")
  /\ Answers(HandlerCode \ NotStartedCodes) /\ UNCHANGED ran

\* OperationCanceledException.
DropWork ==
  /\ cancelled \/ stopped
  /\ \E from \in {"waiting", "running"} : Handler(from, "dropped")
  /\ UNCHANGED <<answer, ran>>

\* Faulty variant of AnswerHandled: the size is not looked at.
AnswerUnbounded ==
  /\ peer = "plugin" /\ srv = "handling" /\ work = "ended"
  /\ srv' = "answering"
  /\ UNCHANGED <<clientVars, upVars, downVars, peer, work, watch, cancelled, stopped, answer, ran>>

\* CreateBoundedResponse.
AnswerHandled ==
  /\ peer = "plugin" /\ srv = "handling" /\ work = "ended"
  /\ srv' = "answering"
  /\ answer' = IF answer.size <= BodyLimit THEN answer
               ELSE [kind |-> "mine", code |-> "RESPONSE_TOO_LARGE", size |-> 1]
  /\ UNCHANGED <<clientVars, upVars, downVars, peer, work, watch, cancelled, stopped, ran>>

AnswerDropped ==
  /\ peer = "plugin" /\ srv = "handling" /\ work = "dropped"
  /\ CloseConnection
  /\ UNCHANGED <<clientVars, upVars, downWritten, downTaken, peer, work, watch, cancelled,
                 stopped, answer, ran>>

\* WriteFramedResponseAsync.
WriteBody ==
  /\ peer = "plugin" /\ srv = "answering"
  /\ srv' = "delimiting" /\ downWritten' = answer.size
  /\ UNCHANGED <<clientVars, upVars, downTaken, downEnd, peer, work, watch, cancelled, stopped,
                 answer, ran>>

WriteDelimiter ==
  /\ peer = "plugin" /\ srv = "delimiting"
  /\ downWritten' = answer.size + 1
  /\ CloseConnection
  /\ UNCHANGED <<clientVars, upVars, downTaken, peer, work, watch, cancelled, stopped, answer, ran>>

\* An IOException from a destroyed connection, or the server's own token.
GiveUp ==
  /\ peer = "plugin"
  /\ \/ srv \in {"answering", "delimiting"} /\ socket = "destroyed"
     \/ srv \in {"reading", "answering", "delimiting"} /\ stopped
  /\ CloseConnection
  /\ UNCHANGED <<clientVars, upVars, downWritten, downTaken, peer, work, watch, cancelled,
                 stopped, answer, ran>>

WatchMoves(from, to) ==
  /\ peer = "plugin" /\ watch = from /\ watch' = to
  /\ UNCHANGED <<clientVars, upVars, downVars, peer, srv, work, stopped, answer, ran>>

\* The read ends: the client closed, or this side has disposed the connection.
WatchReads ==
  /\ WatchMoves("reading", "closed") /\ UNCHANGED cancelled
  /\ upClosed \/ srv = "done"

WatchStops ==
  WatchMoves("reading", "over") /\ stopped /\ UNCHANGED cancelled

Handled == work \in {"ended", "dropped"}

WatchLeavesHandled ==
  WatchMoves("closed", "over") /\ Handled /\ UNCHANGED cancelled

\* Faulty variant of WatchFindsUnfinished: only running work is looked at.
WatchFindsRunning ==
  WatchMoves("closed", "cancelling") /\ work = "running" /\ UNCHANGED cancelled

WatchFindsUnfinished ==
  WatchMoves("closed", "cancelling") /\ ~Handled /\ UNCHANGED cancelled

\* The handler may have completed since; requestCancellation is disposed when
\* ProcessStreamAsync returns.
WatchCancels ==
  WatchMoves("cancelling", "over") /\ cancelled' = (cancelled \/ srv # "done")

\* RpcTcpServer.Stop.
ServerStops ==
  /\ peer = "plugin" /\ ~stopped /\ stopped' = TRUE
  /\ UNCHANGED <<clientVars, upVars, downVars, peer, srv, work, watch, cancelled, answer, ran>>

\* The process ends; part of an answer may be on its way.
PluginDies ==
  /\ peer = "plugin" /\ peer' = "dead" /\ srv' = "done"
  /\ IF srv = "done" THEN UNCHANGED <<downWritten, downEnd>>
     ELSE /\ downEnd' \in {"fin", "rst"}
          /\ downWritten' \in downWritten..(IF srv = "answering" THEN answer.size ELSE downWritten)
  /\ UNCHANGED <<clientVars, upVars, downTaken, work, watch, cancelled, stopped, answer, ran>>

\* Some other program: it may say anything and close, or hold the connection.
StrangerAnswers(size) ==
  /\ peer = "stranger" /\ srv = "reading" /\ stage # "connecting"
  /\ srv' = "done"
  /\ answer' = [kind |-> "foreign", code |-> "none", size |-> size]
  /\ downWritten' \in 0..(size + 2)
  /\ downEnd' \in {"open", "fin", "rst"}
  /\ UNCHANGED <<clientVars, upVars, downTaken, peer, work, watch, cancelled, stopped, ran>>

-----------------------------------------------------------------------------
Data ==
  \E n \in (downTaken + 1)..downWritten :
    DataIgnored(n) \/ DataTooLarge(n) \/ DataPartial(n) \/ DataTrailing(n) \/ DataComplete(n)

Sends == \E c \in Command : ConnectAndRefuse(c) \/ ConnectAndSend(c)

Client ==
  \/ ConnectFails \/ ConnectTimesOut \/ Sends \/ Disconnect
  \/ \E c \in Command : SendAgain(c) \/ SendAfterRefusal(c) \/ CommandTimesOut(c)
  \/ Data \/ EndEvent \/ ErrorEvent

Reads == ReadClosed \/ \E n \in (upRead + 1)..upWritten : ReadRequest(n)

Works == AnswerWithoutRun \/ EndWork \/ DropWork

Writes == AnswerHandled \/ AnswerDropped \/ WriteBody \/ WriteDelimiter \/ GiveUp

Watches ==
  WatchReads \/ WatchStops \/ WatchLeavesHandled \/ WatchFindsUnfinished \/ WatchCancels

Plugin == Reads \/ Works \/ StartWork \/ Writes \/ Watches \/ ServerStops \/ PluginDies

ConnectionNext == Client \/ Plugin \/ \E size \in AnswerSize : StrangerAnswers(size)

\* Node's timers and events, the thread pool, and work that ends once it runs;
\* nothing makes the gate let a waiting request start.
ConnectionFairness ==
  /\ WF_connectionVars(ConnectTimesOut \/ ConnectFails \/ Sends)
  /\ WF_connectionVars(\E c \in Command : CommandTimesOut(c))
  /\ WF_connectionVars(Disconnect)
  /\ WF_connectionVars(Reads) /\ WF_connectionVars(Writes)
  /\ WF_connectionVars(EndWork \/ DropWork) /\ WF_connectionVars(Watches)

ConnectionSpec == ConnectionInit /\ [][ConnectionNext]_connectionVars /\ ConnectionFairness

-----------------------------------------------------------------------------
(* Properties.                                                             *)

Code ==
  HandlerCode \cup
  {"none", "CONNECTION_FAILED", "CONNECTION_TIMEOUT", "REQUEST_TOO_LARGE", "ONE_COMMAND",
   "COMMAND_TIMEOUT", "TRANSPORT_ERROR", "RESPONSE_TOO_LARGE"}

SettlementType ==
  [code : Code, outcome : {"none", "ok", "not_started", "reported_error", "unknown"}]

\* The values every variable keeps; the client never buffers more than a body.
ConnectionTypeOK ==
  /\ stage \in {"connecting", "operating", "over"}
  /\ socket \in {"open", "ended", "destroyed"}
  /\ responseCallbacks \subseteq Command /\ responseByteLength \in 0..BodyLimit
  /\ told \in [Command -> SettlementType]
  /\ wire \in Command \cup {NoCommand} /\ upWritten \in Nat /\ upRead \in Nat
  /\ upRead <= upWritten /\ upClosed \in BOOLEAN
  /\ downWritten \in Nat /\ downTaken \in 0..downWritten
  /\ downEnd \in {"open", "fin", "rst", "seen"}
  /\ peer \in Peers \cup {"dead"}
  /\ srv \in {"reading", "handling", "answering", "delimiting", "done"}
  /\ work \in {"none", "waiting", "running", "ended", "dropped"}
  /\ watch \in {"off", "reading", "closed", "cancelling", "over"}
  /\ cancelled \in BOOLEAN /\ stopped \in BOOLEAN
  /\ answer \in [kind : {"none", "mine", "foreign"}, code : Code, size : Nat]
  /\ ran \subseteq Command

\* A caller told that its command was not started may retry it: whatever the
\* sockets, the timers and the plugin did, its code did not and will not run.
NotStartedIsTrue ==
  \A c \in Command : told[c].outcome = "not_started" => c \notin ran /\ c \notin responseCallbacks

\* A result or a reported error is the plugin's own answer to this very command: the
\* plugin has read all of its frame and is through with it, and the caller has the whole
\* body of what it answered; pieces and strangers' bytes never pass for an answer.
AnswersAreThePlugins ==
  \A c \in Command : told[c].outcome \in {"ok", "reported_error"} =>
    /\ c = wire /\ upRead = RequestSize[c] + 1 /\ work = "ended"
    /\ answer.kind = "mine" /\ downTaken >= answer.size
    /\ told[c] = FromPlugin(answer.code)

\* Both ends measure a frame the same way: the plugin never refuses a frame that
\* this client wrote, and this client never refuses one the plugin wrote.
SizesAgree ==
  /\ answer.code # "REQUEST_TOO_LARGE"
  /\ \A c \in Command : told[c].code = "RESPONSE_TOO_LARGE" =>
        answer.code = "RESPONSE_TOO_LARGE" \/ peer = "stranger"

\* The peer-close watch cancels only a request whose caller has been told.
CancelledOnlyIfGivenUp ==
  cancelled => responseCallbacks = {} /\ upClosed

\* While the plugin's process and its server go on, a caller is never told of a
\* transport error: the answer is written whole and read whole, in any pieces.
TransportErrorHasACause ==
  \A c \in Command : told[c] = Unknown("TRANSPORT_ERROR") => peer # "plugin" \/ stopped

\* What a caller has been told never changes.
SettledOnce ==
  [][\A c \in Command : told[c] # Untold => told'[c] = told[c]]_connectionVars

\* Every connection ends, whoever listens, and its command is settled by then.
ConnectionEnds == <>(stage = "over" /\ responseCallbacks = {})

\* Work that waits for a client that has gone does not wait for ever.
GivenUpWorkEnds == upClosed /\ work = "waiting" ~> work # "waiting" \/ peer = "dead"

\* The plugin is through with every connection that its client has closed.
ConnectionReleased == stage = "over" /\ peer = "plugin" ~> srv = "done"
=============================================================================
