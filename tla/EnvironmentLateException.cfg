SPECIFICATION Spec
CONSTANTS
  Ids = {i1, i2, i3}
  Programs <- OnlyLateExceptions
  Priorities = {0, 1}
  Horizons = {1}
  Precisions = {ns}
  MaxTime = 3
  None = None
SYMMETRY AnyNames
PROPERTY RunUntilComplete
