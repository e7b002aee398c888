CONSTANTS
  Blocks <- MCBlocks
  MapBlocks <- MCMapBlocks
  MapPage = 3
  Signals = {"KILL", "HUP", "INT", "TERM", "USR1"}
  MaxCrashes <- MCMaxCrashes
  MaxWal <- MCMaxWal
  Sessions = {b1, b2}
  MaxCalls = 2
  SegSize = 2
SPECIFICATION Spec
CHECK_DEADLOCK FALSE
INVARIANTS
  TypeOK
  SwapLosesNothing
  StandbyAgrees
  DeadlockNeedsDescending
  CustomWalDurable
  BlocksReported
PROPERTIES
  RecoversUnlessAsked
  StandbyObeys
