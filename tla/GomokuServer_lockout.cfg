SPECIFICATION Spec
CONSTANTS
  Threads = {t1}
  Clients = {c1, c2}
  Users = {u1}
  SessionIds = {s1, s2, s3}
  Setups <- MCLockout
INVARIANTS OnlineIsSomewhere
SYMMETRY Symmetry
