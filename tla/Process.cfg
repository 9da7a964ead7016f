SPECIFICATION FairSpec
CONSTANTS
  Coros = {a, b, c, u}
  Unique = {u}
  Valued = {a, b, c}
  None = None
  MaxPauses = 2
INVARIANTS TypeOK OneWakeup ManagedExactly SomebodyToTell FailuresCarried ProcessInv
PROPERTIES WaiterResumed RunReturns
