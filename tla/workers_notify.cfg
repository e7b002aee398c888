CONSTANTS
  Values = {5, 60}
  MaxReloads <- MCReloads
  MaxErrors = 1
SPECIFICATION Spec
CHECK_DEADLOCK FALSE
INVARIANT
  NotifyQueryWellFormed
