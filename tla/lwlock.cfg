CONSTANTS
  MaxLoops = 2
  MaxAcquires = 2
  MaxUpdateCalls = 2
  MaxWaitCalls = 2
SPECIFICATION Spec
CHECK_DEADLOCK FALSE
INVARIANTS
  TypeOK
  NoOvercount
  PingPong
PROPERTIES
  UpdateReturns
  WaitReturns
