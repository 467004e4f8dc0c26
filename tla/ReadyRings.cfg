SPECIFICATION Spec
CONSTANTS
  MAX_THREADS = 4
  MAX_PRIORITY = 2
  NULL = NULL
INVARIANTS
    RingsExact
    HighestFound
PROPERTIES
    ImplementsQueues
