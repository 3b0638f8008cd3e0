SPECIFICATION Spec
CONSTANTS
  Threads = {t1, t2}
  MaxJobs = 3
  Blocking = {"sleep", "connect", "io"}
  PoolSize = 2
INVARIANTS OneThreadPerStack AtMostOnce PooledIsUnused PoolSuffices
PROPERTIES JobsFinish
CHECK_DEADLOCK FALSE
