SPECIFICATION MainSpec
CONSTANTS
  MAX_THREADS = 4
  MAX_PRIORITY = 7
  QUANTUM = 3
  Mutexes <- MCMutexes
  Routines <- SourceRoutines
  UserPriorities = {1, 3, 5}
  MaxBootRuns = 1
  NULL = NULL
  M1 = M1
  M2 = M2
INVARIANTS
  SingleOwnedMutex
