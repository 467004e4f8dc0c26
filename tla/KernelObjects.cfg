\* Two processes of three handles each, two objects.
SPECIFICATION ObjectsSpec
CONSTANTS
    MAX_PROCESSES = 2
    MAX_HANDLES = 3
    Objects = {o1, o2}
    NULL = NULL
    MaxHeld = 2
INVARIANTS
    LifetimeExact
