\* The idle thread and up to three threads; a quantum of two ticks.
SPECIFICATION Spec
CONSTANTS
    QUANTUM = 2
    MAX_THREADS = 4
    Routines <- AllRoutines
    BootRoutines <- EventLater
    StageRoutines <- RoutinesOfStage
    UserPriorities = {1, 2, 3}
INVARIANTS
    KernelExact
PROPERTIES
    ImplementsMutex
    RoutinesEnd
