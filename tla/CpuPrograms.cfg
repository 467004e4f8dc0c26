\* Fenced message passing, as in main, and store-then-load at every offset of the
\* cores; all pairs of programs of three and two instructions out of stores,
\* loads, fences and locked operations; more stores than a buffer holds.
SPECIFICATION FairSpec
CONSTANTS
    NUM_CORES = 2
    CACHE_LINES = 2
    CACHE_LINE_DATA_WORDS = 2
    Addresses = {0, 1, 2, 3}
    Values = {0, 1, 2, 3, 4, 5, 42}
    STORE_BUFFER_SIZE = 4
    Registers = {0, 1, 2, 3, 4, 15}
    EXP = 15
    WORD = 64
    Programs <- AllPrograms
INVARIANTS
    BusLockExact
    LitmusOutcomes
PROPERTIES
    ImplementsBufferedMemory
    ProgramsHalt
