CONSTANTS
  SegSize = 3
  LsnSpace = 15
  MaxLsn = 8
  MaxTli = 3
  MaxEntries = 2
SPECIFICATION Spec
CHECK_DEADLOCK FALSE
INVARIANTS
  Reaches
