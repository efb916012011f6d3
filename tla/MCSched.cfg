SPECIFICATION Spec
CONSTANTS
    t1 = t1
    t2 = t2
    idle = idle
    xListEnd = xListEnd
    NULL = NULL
    Task <- MCTask
    Idle = idle
    configMAX_PRIORITIES = 3
    TickMod = 3
    OverflowMod = 1
    EventList = {}
    Uses <- MCUses
    MaxValue = 1
SYMMETRY Symmetry
INVARIANTS OneStateList PendingIsBlocked DelayedLists NextUnblockNotLate TopReadyInTasks Preemptive RunningTaskExists NotifiedRuns
PROPERTY NoEarlyWake
