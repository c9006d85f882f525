SPECIFICATION GuardsSpec
CONSTANTS
  o1 = o1
  o2 = o2
  o3 = o3
  o4 = o4
  o5 = o5
  o6 = o6
  o7 = o7
  k1 = k1
  k2 = k2
  k3 = k3
  k4 = k4
  b1 = b1
  b2 = b2
  NoKey = NoKey
  NoOwner = NoOwner
  NoBinding = NoBinding
  Owner <- MCOwner
  Key = {k1, k2, k3, k4}
  Binding = {b1, b2}
  KeyOf <- MCKeyOf
  BindingOf <- MCBindingOf
  Capacity = 2
  Caller = {c1, c2, c3}
  NoCaller = NoCaller
  StrandedLimit = 2
INVARIANT StatusNamesLeaseHolder
PROPERTIES EvictsOldestWhenFull GateMovesOn ImplementsExclusiveResource
\* Every request ends: the registry is left alone once all have.
CHECK_DEADLOCK FALSE
