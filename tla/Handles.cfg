CONSTANTS
  Coros = {a, b, c}
  Vars = {h}
  None = None
SYMMETRY AnyNames
SPECIFICATION Spec
INVARIANTS
  CountsReferences
  FramesAreThere
  NoLeak
