SPECIFICATION FairSpec
CONSTANTS
  MAX_THREADS = 4
  MAX_PRIORITY = 4
  QUANTUM = 2
  Mutexes <- MCMutexes
  Routines <- SingleMutexRoutines
  UserPriorities = {1, 2}
  MaxBootRuns = 1
  NULL = NULL
  M1 = M1
  M2 = M2
PROPERTIES
    ProcessExits
