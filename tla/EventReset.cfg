SPECIFICATION EventSpec
CONSTANTS
  Coros = {a, b}
  Unique = {}
  Valued = {}
  None = None
  MaxPauses = 1
INVARIANT ResumedIsNotComplete
