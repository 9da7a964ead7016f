SPECIFICATION Spec
CONSTANTS
  Main = Main
  Subs = {s1, s2, s3, s4}
  None = None
  MaxWaits = 3
SYMMETRY SubSymmetry
INVARIANTS TypeOK CallsNest ReturnsWhenWaiting DestroyedOnce
CHECK_DEADLOCK FALSE
