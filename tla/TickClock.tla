----------------------------- MODULE TickClock ------------------------------
(***************************************************************************)
(* The decisions of module Ticks held against a time that does not wrap.   *)
(* tick is xTickCount and overflows xNumOfOverflows; at and overflowsAt    *)
(* are a time a task noted: the xTimeOut of vTaskSetTimeOutState, or the   *)
(* pxPreviousWakeTime of xTaskDelayUntil.  passed is auxiliary: how many   *)
(* ticks have really passed since then, up to Long.                        *)
(***************************************************************************)
EXTENDS Ticks

CONSTANT OverflowMod    \* xNumOfOverflows counts modulo OverflowMod

ASSUME ClockAssumption == OverflowMod \in Nat \ {0, 1}

VARIABLES tick, overflows, at, overflowsAt, passed
vars == <<tick, overflows, at, overflowsAt, passed>>

Long == TickMod + 1

Init ==
    /\ tick = 0 /\ overflows = 0
    /\ at = 0 /\ overflowsAt = 0 /\ passed = 0

\* Mutant: the wrap is not counted.
IncrementTickOnly ==
    /\ tick' = TimeToWake(tick, 1)
    /\ passed' = IF passed < Long THEN passed + 1 ELSE passed
    /\ UNCHANGED <<overflows, at, overflowsAt>>

\* The counting part of xTaskIncrementTick and taskSWITCH_DELAYED_LISTS.
xTaskIncrementTick ==
    /\ tick' = TimeToWake(tick, 1)
    /\ overflows' = IF tick' = 0 THEN (overflows + 1) % OverflowMod ELSE overflows
    /\ passed' = IF passed < Long THEN passed + 1 ELSE passed
    /\ UNCHANGED <<at, overflowsAt>>

vTaskSetTimeOutState ==
    /\ at' = tick /\ overflowsAt' = overflows
    /\ passed' = 0
    /\ UNCHANGED <<tick, overflows>>

Next == xTaskIncrementTick \/ vTaskSetTimeOutState

Spec == Init /\ [][Next]_vars

-----------------------------------------------------------------------------
(* Properties.                                                             *)

\* Types.
TypeOK ==
    /\ tick \in Tick /\ at \in Tick
    /\ overflows \in 0..(OverflowMod - 1) /\ overflowsAt \in 0..(OverflowMod - 1)
    /\ passed \in 0..Long

\* For a round of the counter, the two counts tell how much time has passed.
CountsTell ==
    passed <= TickMod =>
        \/ at + passed < TickMod /\ tick = at + passed /\ overflows = overflowsAt
        \/ at + passed >= TickMod /\ tick = at + passed - TickMod /\ overflows # overflowsAt

\* prvAddCurrentTaskToDelayedList puts a task into the overflow list exactly
\* when the counter wraps before the task wakes.
WakeListRight ==
    \A n \in Tick : WakeOverflows(tick, TimeToWake(tick, n)) <=> tick + n >= TickMod

\* xTaskDelayUntil delays exactly when the wake time, increment ticks after
\* the previous one, has not come: for every call that is less than a full
\* round of the counter late, wherever the counter wrapped.
ShouldDelayRight ==
    passed < TickMod => \A increment \in Tick \ {0} :
        xShouldDelay(tick, at, TimeToWake(at, increment)) <=> passed < increment

\* xTaskCheckForTimeOut reports a timeout exactly when the ticks asked for
\* have passed, for every check at most a full round after the start.
TimeOutRight ==
    passed <= TickMod => \A wait \in 0..(portMAX_DELAY - 1) :
        TimedOut(tick, overflows, at, overflowsAt, wait) <=> passed >= wait
=============================================================================
