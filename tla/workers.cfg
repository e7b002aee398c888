CONSTANTS
  Values = {5, 60}
  MaxReloads <- MCReloads
  MaxErrors = 1
SPECIFICATION Spec
CHECK_DEADLOCK FALSE
INVARIANTS
  TypeOK
  NoNapOnSignal
  FreshConfig
  KillQueryCurrent
PROPERTIES
  SigtermLeaves
