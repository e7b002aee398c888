CONSTANTS
  SegSize = 3
  LsnSpace = 15
  MaxLsn = 10
  MaxTli = 3
  MaxEntries = 2
  MaxBytes = 3
  MaxWritings = 3
SPECIFICATION SessionSpec
CHECK_DEADLOCK FALSE
INVARIANTS
  TypeOK
  ReachesInside
  ListConsecutive
  CopyIsFile
