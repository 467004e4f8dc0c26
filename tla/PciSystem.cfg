\* Three pools, every kind of bridge and hidden function; then the use of main's.
\* main returns at the end.
SPECIFICATION MCSpec
CHECK_DEADLOCK FALSE
CONSTANTS
    Dword = 1024
    WindowUnit = 32
    MaxDevice = 3
    MaxFunction = 2
    MmioStart = 512
    IoStart = 32
    DecentSize = 16
    Pools <- AllPools
    CommandValues <- OnOrOff
    Moves <- LowMove
    Windows <- GpuWindows
    Uppers = {0, 1}
    PhysAddresses <- FirstAddresses
    Words = {0, 1}
INVARIANTS
    EnumerationExact
    AssignedDisjoint
    CacheFollowsRegister
    ForwardedByBridge
PROPERTIES
    AccessesRouted
