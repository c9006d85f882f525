SPECIFICATION FairObserverSpec
CONSTANTS
  None = None
  Operation = {o1}
  Thread = {t1, t2}
INVARIANTS ObserverTypeOK SnapshotIsCoherent
PROPERTIES TerminalIsFinal SubscriptionEnds
CHECK_DEADLOCK FALSE
