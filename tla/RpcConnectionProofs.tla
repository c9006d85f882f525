------------------------ MODULE RpcConnectionProofs ------------------------
(***************************************************************************)
(* Proofs about RpcConnection for any commands, sizes, limit and answers:  *)
(* what a caller is told is true of the plugin, whatever is lost.          *)
(*                                                                         *)
(* The invariant says where the one command of a connection is, how far    *)
(* the handler and the answer are, and what follows for the caller.        *)
(***************************************************************************)
EXTENDS RpcConnection, TLAPS

\* The pending command is the one written, and nobody has been told about it.
PendingInv ==
  /\ responseCallbacks \subseteq {wire}
  /\ responseCallbacks # {} => stage = "operating" /\ ~upClosed
  /\ \A c \in responseCallbacks : told[c] = Untold
  /\ stage = "connecting" => wire = NoCommand /\ ~upClosed /\ \A c \in Command : told[c] = Untold
  /\ socket = "open" => ~upClosed
  /\ wire = NoCommand => upWritten = 0
  /\ wire # NoCommand => upWritten <= RequestSize[wire] + 1
  /\ wire # NoCommand => RequestSize[wire] <= BodyLimit
  /\ wire \in Command => wire \in responseCallbacks \/ told[wire] # Untold

\* The handler works on that command only, and only after all of it was read.
WorkInv ==
  /\ ran \subseteq {wire}
  /\ srv = "reading" => work = "none"
  /\ work # "none" => wire # NoCommand /\ upRead = RequestSize[wire] + 1
  /\ work \in {"none", "waiting"} => ran = {}
  /\ peer = "stranger" => work = "none"
  /\ cancelled => upClosed
  /\ watch \in {"closed", "cancelling"} /\ srv # "done" => upClosed

\* What the answer says of the command is so.
AnswerInv ==
  /\ answer.kind = "mine" => work = "ended"
  /\ answer.kind = "mine" /\ FromPlugin(answer.code).outcome = "not_started" => ran = {}
  /\ answer.code # "REQUEST_TOO_LARGE"

\* Nothing of the answer is on its way before it is final, and it is bounded.
BytesInv ==
  /\ responseByteLength <= Min2(downTaken, answer.size)
  /\ srv \in {"reading", "handling", "answering"} => downWritten = 0
  /\ srv = "delimiting" => downWritten = answer.size
  /\ peer # "stranger" /\ (srv \in {"answering", "delimiting"} \/ downWritten > 0)
       => answer.size <= BodyLimit

\* What has been told is so, and the answer is final when it comes from there.
ToldInv ==
  \A c \in Command :
    /\ told[c].outcome = "not_started" =>
         /\ c \notin responseCallbacks
         /\ c # wire \/ (work = "ended" /\ ran = {})
    /\ told[c].outcome \in {"ok", "reported_error"} =>
         /\ srv \in {"delimiting", "done"}
         /\ c = wire /\ work = "ended" /\ answer.kind = "mine"
         /\ downTaken >= answer.size /\ told[c] = FromPlugin(answer.code)
    /\ told[c].code = "RESPONSE_TOO_LARGE" =>
         \/ peer = "stranger"
         \/ srv \in {"delimiting", "done"} /\ answer.code = "RESPONSE_TOO_LARGE"

ConnectionInv ==
  ConnectionTypeOK /\ PendingInv /\ WorkInv /\ AnswerInv /\ BytesInv /\ ToldInv

-----------------------------------------------------------------------------
\* How the client classifies a code of the plugin.
LEMMA OutcomeValues ==
  ASSUME NEW code \in Code
  PROVE  /\ Outcome(code) \in {"not_started", "unknown", "reported_error"}
         /\ Outcome(code) = "not_started" <=> code \in NotStartedCodes
         /\ FromPlugin(code) \in SettlementType
         /\ FromPlugin(code).outcome = "not_started" <=> code \in NotStartedCodes
         /\ FromPlugin(code).outcome # "none" /\ FromPlugin(code).code = code
         /\ FromPlugin("RESPONSE_TOO_LARGE").outcome = "unknown"
<1> USE DEF NotStartedCodes, UnknownCodes
<1>1. /\ Outcome(code) \in {"not_started", "unknown", "reported_error"}
      /\ Outcome(code) = "not_started" <=> code \in NotStartedCodes
      /\ Outcome("RESPONSE_TOO_LARGE") = "unknown"
  BY DEF Outcome
<1> QED
  BY <1>1 DEF FromPlugin, SettlementType

\* What a command is settled with when its answer is complete.
LEMMA CompletedType ==
  ASSUME ConnectionInv, EndEvent \/ \E n \in (downTaken + 1)..downWritten : DataComplete(n)
  PROVE  ConnectionTypeOK'
<1>1. FromPlugin(answer.code) \in SettlementType
  BY OutcomeValues DEF ConnectionInv, ConnectionTypeOK
<1>2. Unknown("TRANSPORT_ERROR") \in SettlementType
  BY DEF Unknown, SettlementType, Code
<1>3. told' \in [Command -> SettlementType]
  BY <1>1, <1>2 DEF EndEvent, DataComplete, CompleteResponse, SettlePending, ConnectionInv,
     ConnectionTypeOK
<1> USE <1>3, ConnectionAssumption DEF CompleteResponse, SettlePending, Destroy, KeepSocket,
     ConnectionInv, ConnectionTypeOK, clientVars, upVars, downVars, serverVars
<1>4. CASE EndEvent
  <2>1. UNCHANGED <<stage, downWritten, downTaken, peer, serverVars, wire, upRead>>
    BY <1>4 DEF EndEvent
  <2>2. upWritten' \in upRead..upWritten
    BY <1>4 DEF EndEvent
  <2>3. upClosed' \in BOOLEAN /\ socket' \in {"open", "ended", "destroyed"}
    BY <1>4 DEF EndEvent
  <2>4. responseCallbacks' = {} /\ responseByteLength' = 0 /\ downEnd' = "seen"
    BY <1>4 DEF EndEvent
  <2> QED
    BY <2>1, <2>2, <2>3, <2>4
<1>5. ASSUME NEW n \in (downTaken + 1)..downWritten, DataComplete(n)
      PROVE  ConnectionTypeOK'
  <2>1. UNCHANGED <<stage, downWritten, downEnd, peer, serverVars, wire, upRead>>
    BY <1>5 DEF DataComplete, Chunk
  <2>2. upWritten' \in upRead..upWritten
    BY <1>5 DEF DataComplete
  <2>3. upClosed' \in BOOLEAN /\ socket' \in {"open", "ended", "destroyed"}
    BY <1>5 DEF DataComplete
  <2>4. /\ responseCallbacks' = {} /\ responseByteLength' = 0
        /\ downTaken' \in 0..downWritten
    BY <1>5 DEF DataComplete, Chunk
  <2> QED
    BY <2>1, <2>2, <2>3, <2>4
<1> QED
  BY <1>4, <1>5

\* A connection is made, refused or given up; a command is sent or refused.
LEMMA Connects ==
  ASSUME ConnectionInv, ConnectFails \/ ConnectTimesOut \/ Sends
  PROVE  ConnectionInv'
<1> USE ConnectionAssumption DEF ConnectionInv, ConnectionTypeOK, PendingInv, WorkInv,
     AnswerInv, BytesInv, ToldInv, SettlementType, Untold, NotStarted, Unknown, Code, Min2,
     Destroy, KeepSocket, SettlePending, clientVars, upVars, downVars, serverVars
<1>1. CASE ConnectFails
  BY <1>1 DEF ConnectFails
<1>2. CASE ConnectTimesOut
  BY <1>2 DEF ConnectTimesOut
<1>3. ASSUME NEW c \in Command, ConnectAndRefuse(c) PROVE ConnectionInv'
  BY <1>3 DEF ConnectAndRefuse, RefuseCommand
<1>4. ASSUME NEW c \in Command, ConnectAndSend(c) PROVE ConnectionInv'
  <2>1. ConnectionTypeOK'
    BY <1>4 DEF ConnectAndSend, TooLarge
  <2>2. PendingInv'
    BY <1>4 DEF ConnectAndSend, TooLarge
  <2>3. WorkInv'
    BY <1>4 DEF ConnectAndSend, TooLarge
  <2>4. AnswerInv'
    BY <1>4 DEF ConnectAndSend, TooLarge
  <2>5. BytesInv'
    BY <1>4 DEF ConnectAndSend, TooLarge
  <2>6. ToldInv'
    BY <1>4 DEF ConnectAndSend, TooLarge
  <2> QED
    BY <2>1, <2>2, <2>3, <2>4, <2>5, <2>6 DEF ConnectionInv
<1> QED
  BY <1>1, <1>2, <1>3, <1>4 DEF Sends

\* The operation sends again, its timer fires, or it returns.
LEMMA Operates ==
  ASSUME ConnectionInv,
         \/ Disconnect
         \/ \E c \in Command : SendAgain(c) \/ SendAfterRefusal(c) \/ CommandTimesOut(c)
  PROVE  ConnectionInv'
<1> USE ConnectionAssumption DEF ConnectionInv, ConnectionTypeOK, PendingInv, WorkInv,
     AnswerInv, BytesInv, ToldInv, SettlementType, Untold, NotStarted, Unknown, Code, Min2,
     Destroy, KeepSocket, SettlePending, clientVars, upVars, downVars, serverVars
<1>1. CASE Disconnect
  BY <1>1 DEF Disconnect
<1>2. ASSUME NEW c \in Command, SendAgain(c) PROVE ConnectionInv'
  BY <1>2 DEF SendAgain, RefuseCommand
<1>3. ASSUME NEW c \in Command, CommandTimesOut(c) PROVE ConnectionInv'
  BY <1>3 DEF CommandTimesOut
<1>4. ASSUME NEW c \in Command, SendAfterRefusal(c) PROVE ConnectionInv'
  <2>1. ConnectionTypeOK'
    BY <1>4 DEF SendAfterRefusal, TooLarge
  <2>2. PendingInv'
    BY <1>4 DEF SendAfterRefusal, TooLarge
  <2>3. WorkInv'
    BY <1>4 DEF SendAfterRefusal, TooLarge
  <2>4. AnswerInv'
    BY <1>4 DEF SendAfterRefusal, TooLarge
  <2>5. BytesInv'
    BY <1>4 DEF SendAfterRefusal, TooLarge
  <2>6. ToldInv'
    BY <1>4 DEF SendAfterRefusal, TooLarge
  <2> QED
    BY <2>1, <2>2, <2>3, <2>4, <2>5, <2>6 DEF ConnectionInv
<1> QED
  BY <1>1, <1>2, <1>3, <1>4

\* A chunk of the answer arrives.
LEMMA Receives ==
  ASSUME ConnectionInv, Data
  PROVE  ConnectionInv'
<1> USE ConnectionAssumption DEF ConnectionInv, ConnectionTypeOK, PendingInv, WorkInv,
     AnswerInv, BytesInv, ToldInv, SettlementType, Untold, NotStarted, Unknown, Code, Min2,
     Destroy, KeepSocket, SettlePending, clientVars, upVars, downVars, serverVars, Chunk, BytesAfter
<1>1. ASSUME NEW n \in (downTaken + 1)..downWritten, DataIgnored(n) PROVE ConnectionInv'
  BY <1>1 DEF DataIgnored
<1>2. ASSUME NEW n \in (downTaken + 1)..downWritten, DataTooLarge(n) PROVE ConnectionInv'
  BY <1>2 DEF DataTooLarge
<1>3. ASSUME NEW n \in (downTaken + 1)..downWritten, DataPartial(n) PROVE ConnectionInv'
  BY <1>3 DEF DataPartial
<1>4. ASSUME NEW n \in (downTaken + 1)..downWritten, DataTrailing(n) PROVE ConnectionInv'
  BY <1>4 DEF DataTrailing
<1>5. ASSUME NEW n \in (downTaken + 1)..downWritten, DataComplete(n) PROVE ConnectionInv'
  <2>1. ConnectionTypeOK'
    BY <1>5, CompletedType
  <2>2. PendingInv'
    BY <1>5, OutcomeValues DEF DataComplete, CompleteResponse
  <2>3. WorkInv'
    BY <1>5 DEF DataComplete, CompleteResponse
  <2>4. AnswerInv'
    BY <1>5, OutcomeValues DEF DataComplete, CompleteResponse
  <2>5. BytesInv'
    BY <1>5 DEF DataComplete, CompleteResponse
  <2>6. ToldInv'
    BY <1>5, OutcomeValues DEF DataComplete, CompleteResponse
  <2> QED
    BY <2>1, <2>2, <2>3, <2>4, <2>5, <2>6 DEF ConnectionInv
<1> QED
  BY <1>1, <1>2, <1>3, <1>4, <1>5 DEF Data

\* The peer has closed the connection.
LEMMA Breaks ==
  ASSUME ConnectionInv, EndEvent \/ ErrorEvent
  PROVE  ConnectionInv'
<1> USE ConnectionAssumption DEF ConnectionInv, ConnectionTypeOK, PendingInv, WorkInv,
     AnswerInv, BytesInv, ToldInv, SettlementType, Untold, NotStarted, Unknown, Code, Min2,
     Destroy, KeepSocket, SettlePending, clientVars, upVars, downVars, serverVars
<1>1. CASE EndEvent
  <2>1. ConnectionTypeOK'
    BY <1>1, CompletedType
  <2>2. PendingInv'
    BY <1>1, OutcomeValues DEF EndEvent, CompleteResponse
  <2>3. WorkInv'
    BY <1>1 DEF EndEvent, CompleteResponse
  <2>4. AnswerInv'
    BY <1>1, OutcomeValues DEF EndEvent, CompleteResponse
  <2>5. BytesInv'
    BY <1>1 DEF EndEvent, CompleteResponse
  <2>6. ToldInv'
    BY <1>1, OutcomeValues DEF EndEvent, CompleteResponse
  <2> QED
    BY <2>1, <2>2, <2>3, <2>4, <2>5, <2>6 DEF ConnectionInv
<1>2. CASE ErrorEvent
  BY <1>2 DEF ErrorEvent
<1> QED
  BY <1>1, <1>2

\* The plugin reads the command, and its handler answers, works or drops it.
LEMMA ReadsOrWorks ==
  ASSUME ConnectionInv, Reads \/ Works \/ StartWork
  PROVE  ConnectionInv'
<1> USE ConnectionAssumption DEF ConnectionInv, ConnectionTypeOK, PendingInv, WorkInv,
     AnswerInv, BytesInv, ToldInv, SettlementType, Untold, NotStarted, Unknown, Code, Min2,
     Destroy, KeepSocket, SettlePending, clientVars, upVars, downVars, serverVars,
     Handler, NoIdAnswer
<1>1. CASE ReadClosed
  BY <1>1 DEF ReadClosed
<1>2. ASSUME NEW n \in (upRead + 1)..upWritten, ReadRequest(n) PROVE ConnectionInv'
  <2>1. wire # NoCommand /\ n \in Nat /\ n <= RequestSize[wire] + 1
    BY <1>2
  <2>2. ConnectionTypeOK'
    BY <1>2 DEF ReadRequest
  <2>3. PendingInv'
    BY <1>2 DEF ReadRequest
  <2>4. WorkInv'
    <3>1. RequestSize[wire] \in Nat
      BY <2>1
    <3>2. CASE n <= RequestSize[wire]
      BY <1>2, <2>1, <3>1, <3>2 DEF ReadRequest
    <3>3. CASE n = RequestSize[wire] + 1
      BY <1>2, <2>1, <3>1, <3>3 DEF ReadRequest
    <3>4. n <= RequestSize[wire] \/ n = RequestSize[wire] + 1
      BY ONLY <2>1, <3>1, SMT
    <3> QED
      BY ONLY <3>2, <3>3, <3>4
  <2>5. AnswerInv'
    BY <1>2, <2>1 DEF ReadRequest
  <2>6. BytesInv'
    BY <1>2 DEF ReadRequest
  <2>7. ToldInv'
    BY <1>2 DEF ReadRequest
  <2> QED
    BY <2>2, <2>3, <2>4, <2>5, <2>6, <2>7 DEF ConnectionInv
<1>3. CASE AnswerWithoutRun
  <2>1. ConnectionTypeOK'
    BY <1>3 DEF AnswerWithoutRun, Answers
  <2>2. PendingInv'
    BY <1>3 DEF AnswerWithoutRun, Answers
  <2>3. WorkInv'
    BY <1>3 DEF AnswerWithoutRun, Answers
  <2>4. AnswerInv'
    BY <1>3, OutcomeValues DEF AnswerWithoutRun, Answers
  <2>5. BytesInv'
    BY <1>3 DEF AnswerWithoutRun, Answers
  <2>6. ToldInv'
    BY <1>3, OutcomeValues DEF AnswerWithoutRun, Answers
  <2> QED
    BY <2>1, <2>2, <2>3, <2>4, <2>5, <2>6 DEF ConnectionInv
<1>4. CASE EndWork
  <2>1. ConnectionTypeOK'
    BY <1>4 DEF EndWork, Answers
  <2>2. PendingInv'
    BY <1>4 DEF EndWork, Answers
  <2>3. WorkInv'
    BY <1>4 DEF EndWork, Answers
  <2>4. AnswerInv'
    BY <1>4, OutcomeValues DEF EndWork, Answers
  <2>5. BytesInv'
    BY <1>4 DEF EndWork, Answers
  <2>6. ToldInv'
    BY <1>4, OutcomeValues DEF EndWork, Answers
  <2> QED
    BY <2>1, <2>2, <2>3, <2>4, <2>5, <2>6 DEF ConnectionInv
<1>5. CASE DropWork
  BY <1>5 DEF DropWork
<1>6. CASE StartWork
  BY <1>6 DEF StartWork
<1> QED
  BY <1>1, <1>2, <1>3, <1>4, <1>5, <1>6 DEF Reads, Works

\* The plugin writes its answer, or gives up.
LEMMA WritesAnswer ==
  ASSUME ConnectionInv, Writes
  PROVE  ConnectionInv'
<1> USE ConnectionAssumption DEF ConnectionInv, ConnectionTypeOK, PendingInv, WorkInv,
     AnswerInv, BytesInv, ToldInv, SettlementType, Untold, NotStarted, Unknown, Code, Min2,
     Destroy, KeepSocket, SettlePending, clientVars, upVars, downVars, serverVars, CloseConnection
<1>1. CASE AnswerHandled
  <2>1. ConnectionTypeOK'
    BY <1>1 DEF AnswerHandled
  <2>2. PendingInv'
    BY <1>1 DEF AnswerHandled
  <2>3. WorkInv'
    BY <1>1 DEF AnswerHandled
  <2>4. AnswerInv'
    BY <1>1, OutcomeValues DEF AnswerHandled
  <2>5. BytesInv'
    BY <1>1 DEF AnswerHandled
  <2>6. ToldInv'
    BY <1>1, OutcomeValues DEF AnswerHandled
  <2> QED
    BY <2>1, <2>2, <2>3, <2>4, <2>5, <2>6 DEF ConnectionInv
<1>2. CASE AnswerDropped
  BY <1>2 DEF AnswerDropped
<1>3. CASE WriteBody
  BY <1>3 DEF WriteBody
<1>4. CASE WriteDelimiter
  BY <1>4 DEF WriteDelimiter
<1>5. CASE GiveUp
  BY <1>5 DEF GiveUp
<1> QED
  BY <1>1, <1>2, <1>3, <1>4, <1>5 DEF Writes

\* The peer-close watch, and the end of the server, of its process, or of a stranger.
LEMMA WatchesOrEnds ==
  ASSUME ConnectionInv,
         \/ Watches \/ ServerStops \/ PluginDies
         \/ \E size \in AnswerSize : StrangerAnswers(size)
  PROVE  ConnectionInv'
<1> USE ConnectionAssumption DEF ConnectionInv, ConnectionTypeOK, PendingInv, WorkInv,
     AnswerInv, BytesInv, ToldInv, SettlementType, Untold, NotStarted, Unknown, Code, Min2,
     Destroy, KeepSocket, SettlePending, clientVars, upVars, downVars, serverVars,
     WatchMoves, Handled
<1>1. CASE WatchReads
  BY <1>1 DEF WatchReads
<1>2. CASE WatchStops
  BY <1>2 DEF WatchStops
<1>3. CASE WatchLeavesHandled
  BY <1>3 DEF WatchLeavesHandled
<1>4. CASE WatchFindsUnfinished
  BY <1>4 DEF WatchFindsUnfinished
<1>5. CASE WatchCancels
  BY <1>5 DEF WatchCancels
<1>6. CASE ServerStops
  BY <1>6 DEF ServerStops
<1>7. CASE PluginDies
  BY <1>7 DEF PluginDies
<1>8. ASSUME NEW size \in AnswerSize, StrangerAnswers(size) PROVE ConnectionInv'
  BY <1>8 DEF StrangerAnswers
<1> QED
  BY <1>1, <1>2, <1>3, <1>4, <1>5, <1>6, <1>7, <1>8 DEF Watches

\* The initial states satisfy the invariant.
LEMMA ConnectionStart == ConnectionInit => ConnectionInv
<1> SUFFICES ASSUME ConnectionInit PROVE ConnectionInv
  OBVIOUS
<1> USE ConnectionAssumption DEF ConnectionInit
<1>0. /\ Untold \in SettlementType
      /\ NoAnswer \in [kind : {"none", "mine", "foreign"}, code : Code, size : Nat]
  BY DEF Untold, NoAnswer, SettlementType, Code
<1>1. ConnectionTypeOK
  <2>1. told \in [Command -> SettlementType] /\ responseCallbacks \subseteq Command
    BY <1>0
  <2>2. upClosed \in BOOLEAN /\ cancelled \in BOOLEAN /\ stopped \in BOOLEAN
    OBVIOUS
  <2>3. answer \in [kind : {"none", "mine", "foreign"}, code : Code, size : Nat]
    BY <1>0
  <2> QED
    BY <2>1, <2>2, <2>3 DEF ConnectionTypeOK
<1> USE DEF Untold, NoAnswer
<1>2. PendingInv /\ WorkInv
  BY DEF PendingInv, WorkInv
<1>3. AnswerInv
  BY DEF AnswerInv
<1>4. BytesInv
  BY DEF BytesInv, Min2
<1>5. ToldInv
  BY DEF ToldInv
<1> QED
  BY <1>1, <1>2, <1>3, <1>4, <1>5 DEF ConnectionInv

\* Every step keeps it.
LEMMA ConnectionStep == ConnectionInv /\ [ConnectionNext]_connectionVars => ConnectionInv'
<1> SUFFICES ASSUME ConnectionInv, [ConnectionNext]_connectionVars
             PROVE  ConnectionInv'
  OBVIOUS
<1>1. CASE ConnectionNext
  BY <1>1, Connects, Operates, Receives, Breaks, ReadsOrWorks, WritesAnswer, WatchesOrEnds
     DEF ConnectionNext, Client, Plugin
<1>2. CASE UNCHANGED connectionVars
  BY <1>2 DEF connectionVars, clientVars, upVars, downVars, serverVars, ConnectionInv,
     ConnectionTypeOK, PendingInv, WorkInv, AnswerInv, BytesInv, ToldInv
<1> QED
  BY <1>1, <1>2

\* The invariant holds throughout, whatever the commands, sizes, limit and codes.
THEOREM ConnectionInvariance == ConnectionSpec => []ConnectionInv
<1> QED
  BY ConnectionStart, ConnectionStep, PTL DEF ConnectionSpec

-----------------------------------------------------------------------------
\* The variables keep their types; the buffer of a client never exceeds a body.
THEOREM ConnectionTypes == ConnectionSpec => []ConnectionTypeOK
<1>1. ConnectionInv => ConnectionTypeOK
  BY DEF ConnectionInv
<1> QED
  BY <1>1, ConnectionInvariance, PTL

\* A command whose caller was told that it was not started has not been and will
\* not be: no time-out, reset or late answer of the connection breaks that.
THEOREM NotStartedHolds == ConnectionSpec => []NotStartedIsTrue
<1>1. ConnectionInv => NotStartedIsTrue
  BY DEF ConnectionInv, WorkInv, ToldInv, NotStartedIsTrue
<1> QED
  BY <1>1, ConnectionInvariance, PTL

\* A result or a reported error is the plugin's whole answer to this command, all of
\* which the plugin had read.
THEOREM AnswersHold == ConnectionSpec => []AnswersAreThePlugins
<1>1. ConnectionInv => AnswersAreThePlugins
  BY DEF ConnectionInv, WorkInv, ToldInv, AnswersAreThePlugins
<1> QED
  BY <1>1, ConnectionInvariance, PTL

\* Neither end refuses a frame that the other end was free to write.
THEOREM SizesHold == ConnectionSpec => []SizesAgree
<1>1. ConnectionInv => SizesAgree
  BY DEF ConnectionInv, AnswerInv, ToldInv, SizesAgree
<1> QED
  BY <1>1, ConnectionInvariance, PTL

\* The watch cancels no request whose caller is still waiting.
THEOREM CancelsOnlyGivenUp == ConnectionSpec => []CancelledOnlyIfGivenUp
<1>1. ConnectionInv => CancelledOnlyIfGivenUp
  BY DEF ConnectionInv, PendingInv, WorkInv, CancelledOnlyIfGivenUp
<1> QED
  BY <1>1, ConnectionInvariance, PTL

\* Of a time-out, an answer, an end and an error only the first is told.
THEOREM SettlesOnce == ConnectionSpec => SettledOnce
<1>1. ConnectionInv /\ [ConnectionNext]_connectionVars
        => [\A c \in Command : told[c] # Untold => told'[c] = told[c]]_connectionVars
  <2> SUFFICES ASSUME ConnectionInv, ConnectionNext, NEW c \in Command, told[c] # Untold
               PROVE  told'[c] = told[c]
    OBVIOUS
  <2> USE DEF ConnectionInv, ConnectionTypeOK, PendingInv, clientVars, SettlePending
  <2>1. CASE ConnectFails \/ ConnectTimesOut \/ Sends \/ Disconnect
    BY <2>1 DEF ConnectFails, ConnectTimesOut, Sends, ConnectAndRefuse, ConnectAndSend,
       RefuseCommand, Disconnect
  <2>2. CASE \E d \in Command : SendAgain(d) \/ SendAfterRefusal(d) \/ CommandTimesOut(d)
    BY <2>2 DEF SendAgain, SendAfterRefusal, RefuseCommand, CommandTimesOut
  <2>3. CASE Data
    BY <2>3 DEF Data, DataIgnored, DataTooLarge, DataPartial, DataTrailing, DataComplete,
       CompleteResponse
  <2>4. CASE EndEvent \/ ErrorEvent
    BY <2>4 DEF EndEvent, ErrorEvent, CompleteResponse
  <2>5. CASE Plugin
    BY <2>5 DEF Plugin, Reads, ReadClosed, ReadRequest, Works, AnswerWithoutRun, EndWork, DropWork,
       Handler, StartWork, Writes, AnswerHandled, AnswerDropped, WriteBody, WriteDelimiter, GiveUp,
       Watches, WatchReads, WatchStops, WatchLeavesHandled, WatchFindsUnfinished, WatchCancels,
       WatchMoves, ServerStops, PluginDies
  <2>6. CASE \E size \in AnswerSize : StrangerAnswers(size)
    BY <2>6 DEF StrangerAnswers
  <2> QED
    BY <2>1, <2>2, <2>3, <2>4, <2>5, <2>6 DEF ConnectionNext, Client
<1> QED
  BY <1>1, ConnectionInvariance, PTL DEF ConnectionSpec, SettledOnce
=============================================================================
