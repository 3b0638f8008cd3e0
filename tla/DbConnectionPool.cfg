SPECIFICATION FairSpec
CONSTANTS
  Workers = {w1, w2}
  Conns = {c1, c2}
  NoConn = NoConn
  PoolSize = 1
  MaxCalls = 3
  MaxInits = 2
INVARIANTS
  TypeOK
  ExclusiveLease
  NoLostWakeup
PROPERTIES
  
  LeaseRefinement
CHECK_DEADLOCK FALSE
