CONSTANTS
  Sessions = {s1, s2}
  Functions <- MCFunctions
  MaxCalls = 6
  MaxFailures = 2
  MaxEscapes = 2
SPECIFICATION Spec
SYMMETRY MCSymmetry
CHECK_DEADLOCK FALSE
INVARIANTS
  TypeOK
  NoLeak
  TogglesCount
