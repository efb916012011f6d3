SPECIFICATION Spec
CONSTANTS
    t1 = t1
    t2 = t2
    idle = idle
    xListEnd = xListEnd
    NULL = NULL
    Task <- MCTask
    Idle = idle
    configMAX_PRIORITIES = 3
    TickMod = 4
    OverflowMod = 1
    EventList = {}
    Uses <- NestedUses
    MaxValue = 1
SYMMETRY Symmetry
INVARIANT TopReadyPriority
