SPECIFICATION FairSpec
CONSTANTS
  Pool = {t1}
  Caller = main
  AnyThread = AnyThread
  Pins = {AnyThread, t1}
  Budget = 4
INVARIANTS
  TypeOK
  DestructorAssert
PROPERTIES
  TasksAreTaken
  StopReturns
