------------------------------- MODULE Ticks --------------------------------
(***************************************************************************)
(* The arithmetic of FreeRTOS-Kernel/tasks.c on TickType_t, a counter that *)
(* wraps.                                                                  *)
(***************************************************************************)
EXTENDS Integers

CONSTANT TickMod    \* TickType_t counts modulo TickMod (2^32 on this port)

ASSUME TicksAssumption == TickMod \in Nat \ {0, 1}

Tick == 0..(TickMod - 1)
portMAX_DELAY == TickMod - 1

TimeToWake(tick, xTicksToWait) == (tick + xTicksToWait) % TickMod

\* prvAddCurrentTaskToDelayedList: does the task wake after the next wrap?
WakeOverflows(tick, wakeAt) == wakeAt < tick

\* Mutant: forgets that the wake time may have wrapped.
ShouldDelayNoWrap(tick, previous, wakeAt) == wakeAt > tick

\* xTaskDelayUntil: is the wake time still to come?
xShouldDelay(tick, previous, wakeAt) ==
    IF tick < previous
    THEN wakeAt < previous /\ wakeAt > tick
    ELSE wakeAt < previous \/ wakeAt > tick

\* xElapsedTime of xTaskCheckForTimeOut.
xElapsedTime(tick, at) == (tick - at) % TickMod

\* xTaskCheckForTimeOut for a wait that is not portMAX_DELAY: at and
\* overflowsAt are what vTaskSetTimeOutState noted.
TimedOut(tick, overflows, at, overflowsAt, wait) ==
    \/ overflows # overflowsAt /\ tick >= at
    \/ xElapsedTime(tick, at) >= wait

=============================================================================
