SPECIFICATION Spec
CONSTANTS
    t1 = t1
    t2 = t2
    idle = idle
    xListEnd = xListEnd
    NULL = NULL
    Task <- MCTask
    Idle = idle
    configMAX_PRIORITIES = 3
    TickMod = 4
    OverflowMod = 2
    EventList = {"xTasksWaitingToSend", "xTasksWaitingToReceive"}
    Item = {a, b}
    Uses <- MCUses
    InitialPrio <- Staggered
SYMMETRY Symmetry
INVARIANTS NoLostWakeup WaitersAreBlocked HighestPriorityFirst
PROPERTIES ImplementsQueue NoEarlyTimeout
