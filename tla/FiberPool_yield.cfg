SPECIFICATION Spec
CONSTANTS
  Threads = {t1, t2}
  MaxJobs = 1
  Blocking = {"sleep"}
  PoolSize = 2
INVARIANTS WaitingIsKept
CHECK_DEADLOCK FALSE
