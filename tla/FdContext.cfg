SPECIFICATION FairSpec
CONSTANTS
  Fds = {1}
  Events = {"READ", "WRITE"}
  Pollers = {p1, p2}
  Ops = {"del", "cancel", "cancelAll"}
  MaxRegs = 4
INVARIANTS
  EndsExactlyOnce
  PendingIsExact
PROPERTIES
  ReadyIsDelivered
  RegistryRefinement
CHECK_DEADLOCK FALSE
