SPECIFICATION FairSpec
CONSTANTS
    t1 = t1
    t2 = t2
    idle = idle
    xListEnd = xListEnd
    NULL = NULL
    Task <- MCTask
    Idle = idle
    configMAX_PRIORITIES = 2
    TickMod = 3
    OverflowMod = 1
    EventList = {}
    Uses <- LiveUses
    MaxValue = 1
PROPERTIES DelayEnds TimeSlicing
