CONSTANTS
  Exprs = {x, y}
  Named = {n}
  Counts <- MCCounts
  Finest = 2
  Conv <- MCConv
  MaxNodes = 3
  CoMain = co_main
  Children = {child}
  GivenBy <- MCGiven
  Inherit = 2
  Latencies = {1}
  None = None
  Clocks <- MCClocks
  MaxWaits = 2
  MaxSlices = 1
  MaxTime = 12
  Waited <- MCWaited
SYMMETRY AnyNames
SPECIFICATION TimeoutSpec
INVARIANTS
  AccurateToItsTerms
  PrioritiesResolved
PROPERTIES
  OnTime
