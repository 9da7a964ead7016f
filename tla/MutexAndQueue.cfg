CONSTANTS
  Procs = {p1, p2, p3, p4}
  Values = {v1, v2}
  MaxSizes = {0, 1, 2}
  Bound = 2
  Idle = Idle
SPECIFICATION FairSpecBoth
INVARIANTS TypeOK MutualExclusion NoLostWakeup QueueTypeOK
PROPERTIES SomebodyAcquires AtomicSpec
CHECK_DEADLOCK FALSE
