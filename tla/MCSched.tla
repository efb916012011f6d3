------------------------------ MODULE MCSched -------------------------------
\* Module Sched with model values for TLC.
EXTENDS Sched

CONSTANTS t1, t2, idle

MCTask == {t1, t2, idle}

\* The two application tasks are interchangeable.
Symmetry == Permutations({t1, t2})

\* Time: delays, periodic or not, suspensions and ISRs, with ticks that
\* interrupt whatever the port lets them interrupt.
Timing ==
    [calls |-> {"Delay", "DelayUntil", "Suspend", "SuspendAll", "Isr", "Yield"},
     delays |-> {0, 1, 2}, priorities |-> {0, 1}, tickInHandler |-> TRUE, maxPended |-> 2]

\* Tasks that come, go and change their priority, with ticks in tasks only.
Changing ==
    [calls |-> {"Delay", "Create", "Suspend", "SuspendAll", "PrioritySet", "Isr", "Yield"},
     delays |-> {0, 1, 2}, priorities |-> {0, 1, 2}, tickInHandler |-> FALSE, maxPended |-> 1]

\* Notifications from tasks and ISRs for tasks that wait, with and without a
\* timeout, or sleep.
Notifying ==
    [calls |-> {"Notify", "IsrNotify", "Suspend", "SuspendAll"},
     delays |-> {0, 1, 2}, priorities |-> {0, 1}, tickInHandler |-> FALSE, maxPended |-> 1]
MCUses == {Timing, Changing, Notifying}

\* Sharing the processor.
LiveUses ==
    {[calls |-> {"Delay", "SuspendAll", "Isr"}, delays |-> {1, 2},
      priorities |-> {0, 1}, tickInHandler |-> FALSE, maxPended |-> 1]}

\* A tick inside vTaskSwitchContext.
NestedUses ==
    {[calls |-> {"Delay", "Yield"}, delays |-> {1, 3},
      priorities |-> {0, 1, 2}, tickInHandler |-> TRUE, maxPended |-> 2]}
=============================================================================
