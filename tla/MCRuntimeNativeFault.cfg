SPECIFICATION RuntimeSafety
CONSTANTS
  DisposeMayThrow = FALSE
  StrandedLimit = 0
  r1 = r1
  r2 = r2
  r3 = r3
  r4 = r4
  r5 = r5
  d1 = d1
  d2 = d2
  k1 = k1
  k2 = k2
  x1 = x1
  x2 = x2
  NoRequest = NoRequest
  NoDocument = NoDocument
  NoKey = NoKey
  Request = {r1, r2, r3}
  Document = {d1, d2}
  Key = {k1, k2}
  Code = {x1, x2}
  Input <- RetryInput
  Untitled = {}
  Backend = "native"
  Capacity = 2
INVARIANTS
  DuplicatesAreRejected
\* Every request ends; the plugin then waits for more.
CHECK_DEADLOCK FALSE
