CONSTANTS
  Keys = {k1, k2}
  Plain = {a}
  Toasted = {t}
  Null = Null
  Unchanged = Unchanged
  NoTuple = NoTuple
  Relations <- MCFull
  MaxChanges = 3
  MaxTxn = 2
  MaxQueue = 1
  MaxDdl = 0
  MaxSessions = 1
SPECIFICATION Spec
SYMMETRY MCSymmetry
CHECK_DEADLOCK FALSE
INVARIANTS
  SelectivityGuaranteed
