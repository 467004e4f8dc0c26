\* Up to three user threads of one group of routines.
SPECIFICATION GroupSpec
CONSTANTS
  MAX_THREADS = 4
  MAX_PRIORITY = 5
  QUANTUM = 2
  Mutexes <- MCMutexes
  Routines <- AllRoutines
  UserPriorities = {1, 2, 3}
  MaxBootRuns = 1
  NULL = NULL
  M1 = M1
  M2 = M2
INVARIANTS
    TypeOK
    ReadyQueuesExact
    CurrentThreadExact
    WaitQueuesExact
    NoLostReschedule
    InheritanceExact
    WaitChainsEnd
    HighestPriorityRuns
    EventNotMissed
    ReferencesAccounted
PROPERTIES
    HandOffToWaiter
    PriorityFallsOnRelease
    ImplementsMutex
