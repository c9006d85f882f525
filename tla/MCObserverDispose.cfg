SPECIFICATION ObserverSpec
CONSTANTS
  None = None
  Operation = {o1}
  Thread = {t1}
INVARIANT DisposeUnsubscribes
CHECK_DEADLOCK FALSE
