SPECIFICATION Spec
CONSTANTS
  Timers = {m1, m2}
  Users = {u1, u2}
  Pollers = {p1, p2}
  Delays = {1, 2}
  Setups <- MCSetups
  Slack = 1
  Cap = 2
INVARIANTS NotOverslept NoneLost FiresOnce HeapIsLive
PROPERTIES CallbackRefinement
SYMMETRY Symmetry
