SPECIFICATION Spec
CONSTANTS
  Threads = {worker, caller}
  Workers = {worker}
  Reserved = 2
  MaxFd = 3
  DataSize = 2
  RowsSize = 2
  MaxOpens = 3
  MaxSets = 1
  MaxRegs = 2
INVARIANTS KnownHasContext SettingsAreOwn HookedNeverBlocks RegistrationsAreFound
CHECK_DEADLOCK FALSE
