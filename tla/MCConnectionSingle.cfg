SPECIFICATION ConnectionSpec
CONSTANTS
  Command <- OneCommand
  NoCommand = NoCommand
  c1 = c1
  c2 = c2
  c3 = c3
  RequestSize <- RequestSizes
  AnswerSize = {1, 2, 3}
  BodyLimit = 2
  HandlerCode <- HandlerCodes
  Peers = {"plugin", "stranger"}
INVARIANT TransportErrorHasACause
PROPERTIES ConnectionEnds ConnectionReleased
CHECK_DEADLOCK FALSE
