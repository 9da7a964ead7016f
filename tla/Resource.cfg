CONSTANTS
  Procs = {p1, p2, p3, p4}
  Max = 2
  HandleNames = {h1, h2}
  Nobody = Nobody
  Initial = {0, 1, 2, 3}
SPECIFICATION ResourceFairSpec
INVARIANTS
  TypeOK
  NoLostWakeup
  Conserved
  ReleaseNeverWaits
PROPERTIES
  AtomicSpec
CHECK_DEADLOCK FALSE
