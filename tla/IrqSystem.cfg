\* The interrupt path: rings of two events, every pool, one failing allocation.
\* main's loop ends, so the last state has no successor.
SPECIFICATION FairSpec
CHECK_DEADLOCK FALSE
CONSTANTS
    Devices = {"timer", "keyboard", "microphone"}
    Timer = "timer"
    NumCpus = 2
    Pools <- SmallPools
    Interval = 2
    BUF_SIZE = 3
    VectorBits = 4
    MaxTicks = 3
    MaxEvents = 3
    MaxFailures = 1
INVARIANTS
    InterruptsAccounted
PROPERTIES
    LossOnlyOnOverrun
    EventsServed
