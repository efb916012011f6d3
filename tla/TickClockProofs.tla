-------------------------- MODULE TickClockProofs ---------------------------
(***************************************************************************)
(* The tick arithmetic is right for every width of TickType_t.  Everything *)
(* rests on Wrap (within one round, adding on the counter is adding and at *)
(* most once subtracting TickMod) and on CountsTell, the inductive         *)
(* relation between the two counts and the time that has really passed.    *)
(***************************************************************************)
EXTENDS TickClock, TLAPS

\* Wrapping once.
LEMMA Wrap ==
    ASSUME NEW a \in Tick, NEW d \in 0..TickMod
    PROVE  TimeToWake(a, d) = IF a + d < TickMod THEN a + d ELSE a + d - TickMod
BY TicksAssumption, Z3 DEF Tick, TimeToWake

\* Unwrapping once.
LEMMA Elapsed ==
    ASSUME NEW a \in Tick, NEW b \in Tick
    PROVE  xElapsedTime(b, a) = IF b >= a THEN b - a ELSE b - a + TickMod
BY TicksAssumption, Z3 DEF Tick, xElapsedTime

\* One tick: the count goes on, or wraps.
LEMMA OneTick ==
    ASSUME tick \in Tick
    PROVE  TimeToWake(tick, 1) = IF tick + 1 = TickMod THEN 0 ELSE tick + 1
<1>1. 1 \in 0..TickMod
  BY TicksAssumption
<1> QED
  BY <1>1, Wrap, TicksAssumption DEF Tick

\* A wrap changes xNumOfOverflows.
LEMMA OverflowCounted ==
    ASSUME overflows \in 0..(OverflowMod - 1)
    PROVE  /\ (overflows + 1) % OverflowMod \in 0..(OverflowMod - 1)
           /\ (overflows + 1) % OverflowMod # overflows
BY ClockAssumption, Z3

\* The types and the relation between counts and time are inductive.
LEMMA CountsInductive ==
    TypeOK /\ CountsTell /\ [Next]_vars => TypeOK' /\ CountsTell'
<1> SUFFICES ASSUME TypeOK, CountsTell, [Next]_vars
             PROVE  TypeOK' /\ CountsTell'
  OBVIOUS
<1> USE TicksAssumption, ClockAssumption
<1>1. CASE xTaskIncrementTick
  <2>1. tick' = IF tick + 1 = TickMod THEN 0 ELSE tick + 1
    BY <1>1, OneTick DEF xTaskIncrementTick, TypeOK
  <2>2. /\ overflows' \in 0..(OverflowMod - 1)
        /\ tick' = 0 => overflows' # overflows
        /\ tick' # 0 => overflows' = overflows
    BY <1>1, OverflowCounted DEF xTaskIncrementTick, TypeOK
  <2>3. TypeOK'
    BY <1>1, <2>1, <2>2 DEF xTaskIncrementTick, TypeOK, Tick, Long
  <2>4. CountsTell'
    <3> SUFFICES ASSUME passed' <= TickMod
                 PROVE  \/ /\ at' + passed' < TickMod /\ tick' = at' + passed'
                           /\ overflows' = overflowsAt'
                        \/ /\ at' + passed' >= TickMod /\ tick' = at' + passed' - TickMod
                           /\ overflows' # overflowsAt'
      BY DEF CountsTell
    <3>1. passed' = passed + 1 /\ passed < TickMod /\ at' = at /\ overflowsAt' = overflowsAt
      BY <1>1 DEF xTaskIncrementTick, TypeOK, Long
    <3>2. tick \in 0..(TickMod - 1) /\ at \in 0..(TickMod - 1) /\ passed \in Nat
      BY DEF TypeOK, Tick, Long
    <3>3. CASE at + passed < TickMod /\ tick = at + passed /\ overflows = overflowsAt
      BY <2>1, <2>2, <3>1, <3>2, <3>3
    <3>4. CASE /\ at + passed >= TickMod /\ tick = at + passed - TickMod
               /\ overflows # overflowsAt
      BY <2>1, <2>2, <3>1, <3>2, <3>4
    <3> QED BY <3>1, <3>2, <3>3, <3>4 DEF CountsTell
  <2> QED BY <2>3, <2>4
<1>2. CASE vTaskSetTimeOutState
  BY <1>2 DEF vTaskSetTimeOutState, TypeOK, CountsTell, Tick, Long
<1>3. CASE UNCHANGED vars
  BY <1>3 DEF vars, TypeOK, CountsTell
<1> QED
  BY <1>1, <1>2, <1>3 DEF Next

\* The two counts always tell how much time has passed, for one round.
THEOREM CountsAlwaysTell == Spec => [](TypeOK /\ CountsTell)
<1>1. Init => TypeOK /\ CountsTell
  BY TicksAssumption, ClockAssumption DEF Init, TypeOK, CountsTell, Tick, Long
<1> QED
  BY <1>1, CountsInductive, PTL DEF Spec

\* A task goes to the overflow list exactly when it wakes in the next round.
THEOREM WakeList == Spec => []WakeListRight
<1>1. TypeOK => WakeListRight
  <2> SUFFICES ASSUME TypeOK, NEW n \in Tick
               PROVE  WakeOverflows(tick, TimeToWake(tick, n)) <=> tick + n >= TickMod
    BY DEF WakeListRight
  <2>1. n \in 0..TickMod /\ tick \in Tick
    BY TicksAssumption DEF Tick, TypeOK
  <2> QED
    BY <2>1, Wrap, TicksAssumption DEF Tick, WakeOverflows
<1> QED
  BY <1>1, CountsAlwaysTell, PTL

\* xTaskDelayUntil decides as on a clock that does not wrap.
THEOREM ShouldDelay == Spec => []ShouldDelayRight
<1>1. TypeOK /\ CountsTell => ShouldDelayRight
  <2> SUFFICES ASSUME TypeOK, CountsTell, passed < TickMod, NEW increment \in Tick \ {0}
               PROVE  xShouldDelay(tick, at, TimeToWake(at, increment))
                          <=> passed < increment
    BY DEF ShouldDelayRight
  <2>1. increment \in 0..TickMod /\ at \in Tick /\ tick \in Tick /\ passed \in Nat
    BY TicksAssumption DEF Tick, TypeOK, Long
  <2>2. TimeToWake(at, increment) = IF at + increment < TickMod THEN at + increment
                                    ELSE at + increment - TickMod
    BY <2>1, Wrap
  <2>3. \/ at + passed < TickMod /\ tick = at + passed
        \/ at + passed >= TickMod /\ tick = at + passed - TickMod
    BY <2>1, TicksAssumption DEF CountsTell
  <2> QED
    BY <2>1, <2>2, <2>3, TicksAssumption DEF Tick, xShouldDelay
<1> QED
  BY <1>1, CountsAlwaysTell, PTL

\* xTaskCheckForTimeOut decides as on a clock that does not wrap.
THEOREM TimeOut == Spec => []TimeOutRight
<1>1. TypeOK /\ CountsTell => TimeOutRight
  <2> SUFFICES ASSUME TypeOK, CountsTell, passed <= TickMod,
                      NEW wait \in 0..(portMAX_DELAY - 1)
               PROVE  TimedOut(tick, overflows, at, overflowsAt, wait) <=> passed >= wait
    BY DEF TimeOutRight
  <2>1. at \in Tick /\ tick \in Tick /\ passed \in Nat
    BY DEF TypeOK, Long
  <2>2. xElapsedTime(tick, at) = IF tick >= at THEN tick - at ELSE tick - at + TickMod
    BY <2>1, Elapsed
  <2>3. CASE at + passed < TickMod /\ tick = at + passed /\ overflows = overflowsAt
    BY <2>1, <2>2, <2>3, TicksAssumption DEF Tick, TimedOut, portMAX_DELAY
  <2>4. CASE /\ at + passed >= TickMod /\ tick = at + passed - TickMod
             /\ overflows # overflowsAt
    BY <2>1, <2>2, <2>4, TicksAssumption DEF Tick, TimedOut, portMAX_DELAY
  <2> QED
    BY <2>3, <2>4 DEF CountsTell
<1> QED
  BY <1>1, CountsAlwaysTell, PTL
=============================================================================
