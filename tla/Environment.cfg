SPECIFICATION Spec
CONSTANTS
  Ids = {i1, i2, i3}
  Programs <- LateTokensOrFailures
  Priorities = {0, 1, 2}
  Horizons = {1}
  Precisions = {ns, us}
  MaxTime = 2
  None = None
SYMMETRY AnyNames
INVARIANTS TypeOK OnePrecision
PROPERTIES RunUntilComplete LoopSpec
