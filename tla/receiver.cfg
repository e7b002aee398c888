CONSTANTS
  MaxTxns = 2
  SyncModes = {TRUE, FALSE}
  MaxWal = 4
  MaxChan = 2
  MaxKeepalives = 1
  MaxFailures = 1
SPECIFICATION Spec
CHECK_DEADLOCK FALSE
INVARIANTS
  TypeOK
  ConfirmedWasExecuted
  SessionInOrder
  LossOnlyByAbort
PROPERTIES
  CommittedIsExecuted
  ImplementsReplica
