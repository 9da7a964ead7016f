SPECIFICATION Spec
CONSTANTS
  p1 = p1
  p2 = p2
  t1 = t1
  t2 = t2
  outer = outer
  inner = inner
  Procs = {p1, p2}
  Timers = {}
  Groups = {outer}
  Root = outer
  Children <- Flat
  MayFail = {p1}
  Main = Main
  Waiter = Waiter
  MaxRounds = 1
INVARIANT FailureIsVisible
