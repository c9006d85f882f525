SPECIFICATION CacheSpec
CONSTANTS
  None = None
  Executor = {e1, e2}
  Code = {a, b, c, broken}
  Broken = {broken}
  Capacity = 2
INVARIANTS CacheTypeOK ScriptIsOfItsText HoldsTheLastUsed
PROPERTY NewestIsKept
