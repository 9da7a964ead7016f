SPECIFICATION FairSpec
CONSTANTS
  p1 = p1
  p2 = p2
  t1 = t1
  t2 = t2
  outer = outer
  inner = inner
  Procs = {p1, p2}
  Timers = {t1, t2}
  Groups = {outer, inner}
  Root = outer
  Children <- Nested
  MayFail = {p1, p2}
  Main = Main
  Waiter = Waiter
  MaxRounds = 2
INVARIANTS TypeOK CountsOutstanding OneResume NotForgotten
PROPERTIES NotTooEarly AwaitEnds
CHECK_DEADLOCK FALSE
