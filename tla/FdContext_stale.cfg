SPECIFICATION Spec
CONSTANTS
  Fds = {1}
  Events = {"READ", "WRITE"}
  Pollers = {p1, p2}
  Ops = {}
  MaxRegs = 4
INVARIANT
  TriggerOnlyRegistered
CHECK_DEADLOCK FALSE
