SPECIFICATION AdmissionSpec
CONSTANTS
  Request = {r1, r2}
  Document = {d1, d2}
  NoRequest = NoRequest
  NoDocument = NoDocument
INVARIANTS
  CompletionTellsTheTruth
  NoHandlerLeft
PROPERTIES
  CallReturns
  ImplementsCivilCommand
