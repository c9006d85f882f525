SPECIFICATION SelectionSpec
CONSTANTS
  p0 = p0
  p1 = p1
  p2 = p2
  d1 = d1
  d2 = d2
  None = None
  Session = {1, 2}
  Legacy = {}
  Port <- Ports
  DefaultPort = p0
  Drawing <- Drawings
  Targets <- ByPort
  MaxRecords = 2
  MaxChanges = 1
SYMMETRY Renaming
INVARIANT FixedPortIsUsed
CHECK_DEADLOCK FALSE
