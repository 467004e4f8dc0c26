\* Three cores and caches of one slot, for programs that use one line or two.
SPECIFICATION Spec
CONSTANTS
    NUM_CORES = 3
    CACHE_LINES = 1
    CACHE_LINE_DATA_WORDS = 1
    Addresses = {0, 1}
    Values = {0, 2, 3}
INVARIANTS
    Coherent
PROPERTIES
    LossOnlyWhenShared
    ImplementsMemory
