SPECIFICATION Spec
CONSTANTS
  Threads = {t1, t2}
  Clients = {c1, c2}
  Users = {u1, u2}
  SessionIds = {s1, s2, s3}
  Setups <- MCSetups
INVARIANTS
  
  MaxOnlineNotOverstated
  NoGhosts
  LoginsBounded
  RowsBounded
SYMMETRY Symmetry
