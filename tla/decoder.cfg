CONSTANTS
  Keys = {k1, k2}
  Plain = {a}
  Toasted = {t}
  Null = Null
  Unchanged = Unchanged
  NoTuple = NoTuple
  Relations <- MCAll
  MaxChanges = 3
  MaxTxn = 2
  MaxQueue = 1
  MaxDdl = 1
  MaxSessions = 2
SPECIFICATION Spec
SYMMETRY MCSymmetry
CHECK_DEADLOCK FALSE
INVARIANTS
  TypeOK
  InSync
  FailsOnlyOnIndex
