SPECIFICATION SelectionSpec
CONSTANTS
  p0 = p0
  p1 = p1
  p2 = p2
  d1 = d1
  d2 = d2
  None = None
  Session = {1, 2}
  Legacy = {}
  Port <- Ports
  DefaultPort = p0
  Drawing <- Drawings
  Targets <- ByInstance
  MaxRecords = 2
  MaxChanges = 2
SYMMETRY Renaming
INVARIANT RunsWhereAsked
CHECK_DEADLOCK FALSE
