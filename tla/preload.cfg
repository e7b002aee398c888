CONSTANTS
  Processes = {"s1", "s2"}
  PipeSize = 1
  MaxOwn = 1
  Policy <- MCPolicy
  Configs <- MCConfigs
SPECIFICATION Spec
CHECK_DEADLOCK FALSE
INVARIANTS
  TypeOK
  Guarded
  TruncateEmpties
  OtherSees
  LogFaithful
PROPERTIES
  EntriesReachLog
