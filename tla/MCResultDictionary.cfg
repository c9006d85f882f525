SPECIFICATION PartsSpec
CONSTANTS
  None = None
  Executor = {e1, e2}
  Code = {s1, s2, s3, broken}
  Broken = {broken}
  Capacity = 2
  a = a
  b = b
  inner = inner
  leaf = leaf
  Root = a
  Graphs <- SmallGraphs
  MaxDepth = 2
  MaxCollectionItems = 2
  MaxTotalNodes = 5
  Operation = {o1, o2}
  Thread = {t1, t2}
INVARIANT LongCollectionsAreKept
CHECK_DEADLOCK FALSE
