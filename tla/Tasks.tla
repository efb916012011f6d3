------------------------------- MODULE Tasks --------------------------------
(***************************************************************************)
(* FreeRTOS-Kernel/tasks.c: the kernel's data and the functions on it that *)
(* run with interrupts masked or the scheduler suspended.  The kernel      *)
(* state is one record k, each function an operator from a kernel state to *)
(* the next one; module Sched and the modules of the blocking objects turn *)
(* them into actions.                                                      *)
(*                                                                         *)
(*   cur        pxCurrentTCB             prio[t]   pxTCB->uxPriority       *)
(*   live       tasks with a TCB         wake[t]   value of xStateListItem *)
(*   ready[p]   pxReadyTasksLists[p]     top       uxTopReadyPriority      *)
(*   delayed    *pxDelayedTaskList       overflow  *pxOverflowDelayed...   *)
(*   pending    xPendingReadyList        suspended xSuspendedTaskList      *)
(*   dead       xTasksWaitingTermination event[l]  the event list l        *)
(*   tick       xTickCount               next      xNextTaskUnblockTime    *)
(*   pended     xPendedTicks             yield     xYieldPending           *)
(*   locks      uxSchedulerSuspended     running   xSchedulerRunning       *)
(*   overflows  xNumOfOverflows          notify[t] ucNotifyState           *)
(*   value[t]   ulNotifiedValue                                            *)
(*                                                                         *)
(* A task has one notification (the code keeps an array of three that do   *)
(* not touch each other).  Two fields are auxiliary: asleep, the tasks     *)
(* vTaskSuspend has put to sleep and nobody has resumed, and gone, the     *)
(* tasks vTaskDelete has taken out of every list and nobody has freed.     *)
(*                                                                         *)
(* Lists that only ever hold xStateListItems are told apart from those     *)
(* that hold xEventListItems (pending and event).  configUSE_PREEMPTION    *)
(* and configUSE_TIME_SLICING are 1, as in FreeRTOSConfig.h; mutexes are   *)
(* off, so a task has one priority.                                        *)
(***************************************************************************)
EXTENDS List, Loops, Ticks, FiniteSetsExt

CONSTANTS
    Task,                \* every task that may ever exist
    Idle,                \* xIdleTaskHandle
    NULL,
    configMAX_PRIORITIES,
    OverflowMod,         \* xNumOfOverflows counts modulo OverflowMod
    EventList            \* the event lists of the blocking objects

ASSUME TasksAssumption ==
    /\ Idle \in Task
    /\ xListEnd \notin Task
    /\ NULL \notin Task
    /\ configMAX_PRIORITIES \in Nat \ {0}
    /\ OverflowMod \in Nat \ {0}

Priority == 0..(configMAX_PRIORITIES - 1)
tskIDLE_PRIORITY == 0

\* prvInitialiseTaskLists and the initial values of the kernel's variables.
prvInitialiseTaskLists ==
    [cur |-> NULL, live |-> {},
     prio |-> [t \in Task |-> tskIDLE_PRIORITY], wake |-> [t \in Task |-> 0],
     ready |-> [p \in Priority |-> vListInitialise], top |-> tskIDLE_PRIORITY,
     delayed |-> <<>>, overflow |-> <<>>, pending |-> <<>>, suspended |-> {},
     dead |-> <<>>, event |-> [l \in EventList |-> <<>>],
     tick |-> 0, next |-> 0, pended |-> 0, yield |-> FALSE, locks |-> 0,
     running |-> FALSE, overflows |-> 0,
     notify |-> [t \in Task |-> "NOT_WAITING"], value |-> [t \in Task |-> 0],
     asleep |-> {}, gone |-> {}]

ReadyTasks(k) == UNION {Items(k.ready[p]) : p \in Priority}
Blocked(k) == ToSet(k.delayed) \cup ToSet(k.overflow)

-----------------------------------------------------------------------------
(* List items of a task.                                                   *)

\* uxListRemove(&pxTCB->xStateListItem): from whichever list holds it.  The
\* value of the item is not read again before it is set, so it is cleared.
RemoveStateItem(k, t) ==
    [k EXCEPT !.wake[t] = 0,
        !.ready = [p \in Priority |-> IF Contains(@[p], t) THEN uxListRemove(@[p], t) ELSE @[p]],
        !.delayed = Unlink(@, t), !.overflow = Unlink(@, t),
        !.suspended = @ \ {t}, !.dead = Unlink(@, t)]

\* Mutant: an event item in xPendingReadyList is forgotten.
RemoveOnlyFromEvents(k, t) ==
    [k EXCEPT !.event = [l \in EventList |-> Unlink(@[l], t)]]

\* Mutant: a task that times out stays in the event list.
RemoveOnlyFromPending(k, t) == [k EXCEPT !.pending = Unlink(@, t)]

\* uxListRemove(&pxTCB->xEventListItem), when the item is in a list at all.
RemoveEventItem(k, t) ==
    [k EXCEPT !.pending = Unlink(@, t),
              !.event = [l \in EventList |-> Unlink(@[l], t)]]

InEventList(k, t) ==
    Contains(k.pending, t) \/ \E l \in EventList : Contains(k.event[l], t)

\* Mutant: uxTopReadyPriority is not raised.
AddWithoutRecord(k, t) ==
    [k EXCEPT !.ready[k.prio[t]] = listINSERT_END(@, t)]

prvAddTaskToReadyList(k, t) ==
    [k EXCEPT !.top = Max({@, k.prio[t]}),
              !.ready[k.prio[t]] = listINSERT_END(@, t)]

\* Mutant: the task is not taken out of the list it was in.
MoveWithoutRemove(k, t) == prvAddTaskToReadyList(k, t)

MoveToReady(k, t) == prvAddTaskToReadyList(RemoveStateItem(k, t), t)

prvResetNextTaskUnblockTime(k) ==
    [k EXCEPT !.next = IF k.delayed = <<>> THEN portMAX_DELAY ELSE k.wake[Head(k.delayed)]]

-----------------------------------------------------------------------------
(* Choosing the task to run.                                               *)

\* taskSELECT_HIGHEST_PRIORITY_TASK, second half: pxCurrentTCB becomes the
\* next task of list p, and uxTopReadyPriority is set to p.
SelectFrom(k, p) ==
    LET ring == listGET_OWNER_OF_NEXT_ENTRY(k.ready[p])
    IN  [k EXCEPT !.ready[p] = ring, !.cur = Head(ring), !.top = p]

taskSELECT_HIGHEST_PRIORITY_TASK(k) ==
    SelectFrom(k, Max({p \in 0..k.top : ~listLIST_IS_EMPTY(k.ready[p])}))

vTaskSwitchContext(k) ==
    IF k.locks # 0
    THEN [k EXCEPT !.yield = TRUE]
    ELSE taskSELECT_HIGHEST_PRIORITY_TASK([k EXCEPT !.yield = FALSE])

-----------------------------------------------------------------------------
(* The tick.                                                               *)

\* Mutant: only the overflow is counted.
SwitchCountOnly(k) == [k EXCEPT !.overflows = (@ + 1) % OverflowMod]

taskSWITCH_DELAYED_LISTS(k) ==
    prvResetNextTaskUnblockTime(
        [k EXCEPT !.delayed = k.overflow, !.overflow = k.delayed,
                  !.overflows = (@ + 1) % OverflowMod])

\* Mutant: wakes a task one tick before its time.
DueEarly(k) == k.delayed # <<>> /\ k.wake[Head(k.delayed)] <= k.tick + 1

\* Is there a delayed task, and has the time of the first one come?
Due(k) == k.delayed # <<>> /\ k.wake[Head(k.delayed)] <= k.tick

\* One round of the loop over the delayed list: the first task becomes
\* ready, r.switch is xSwitchRequired.
UnblockFirst(r) ==
    LET k == r.k
        t == Head(k.delayed)
    IN  IF Due(k)
        THEN [k |-> prvAddTaskToReadyList(RemoveEventItem(RemoveStateItem(k, t), t), t),
              switch |-> r.switch \/ k.prio[t] > k.prio[k.cur]]
        ELSE r

\* The whole loop; xNextTaskUnblockTime becomes the time of the first task
\* that stays.
UnblockExpired(k) ==
    LET r == Iterate(UnblockFirst, Len(k.delayed), [k |-> k, switch |-> FALSE])
    IN  [r EXCEPT !.k = prvResetNextTaskUnblockTime(@)]

\* The tick is counted, and the delayed lists change places when it wraps.
Count(k) ==
    LET counted == [k EXCEPT !.tick = TimeToWake(@, 1)]
    IN  IF counted.tick = 0 THEN taskSWITCH_DELAYED_LISTS(counted) ELSE counted

\* The result of xTaskIncrementTick: the new state and xSwitchRequired.
Ticked(k) ==
    LET m == Count(k)
        r == IF m.tick >= m.next THEN UnblockExpired(m) ELSE [k |-> m, switch |-> FALSE]
    IN  [k |-> r.k,
         switch |-> \/ r.switch
                    \/ listCURRENT_LIST_LENGTH(r.k.ready[k.prio[k.cur]]) > 1
                    \/ r.k.yield]

xTaskIncrementTick(k) ==
    IF k.locks = 0
    THEN Ticked(k)
    ELSE [k |-> [k EXCEPT !.pended = @ + 1], switch |-> FALSE]

-----------------------------------------------------------------------------
(* Suspending and resuming the scheduler.                                  *)

vTaskSuspendAll(k) == [k EXCEPT !.locks = @ + 1]

\* The first task an interrupt readied meanwhile joins its ready list.
FlushFirst(k) ==
    LET t == Head(k.pending)
    IN  IF k.pending = <<>> THEN k
        ELSE [MoveToReady(RemoveEventItem(k, t), t) EXCEPT
                 !.yield = @ \/ k.prio[t] >= k.prio[k.cur]]

\* All of them do.
FlushPending(k) ==
    IF k.pending = <<>> THEN k
    ELSE prvResetNextTaskUnblockTime(Iterate(FlushFirst, Len(k.pending), k))

\* One of the ticks that arrived meanwhile is processed.
TickAgain(k) ==
    LET r == xTaskIncrementTick(k) IN [r.k EXCEPT !.yield = @ \/ r.switch]

\* All of them are, one by one.
CatchUp(k) == [Iterate(TickAgain, k.pended, k) EXCEPT !.pended = 0]

\* xTaskResumeAll: the new state and xAlreadyYielded.  The yield is taken
\* inside the critical section, where portYIELD() switches at once.
xTaskResumeAll(k) ==
    LET unlocked == [k EXCEPT !.locks = @ - 1]
        done == CatchUp(FlushPending(unlocked))
    IN  IF unlocked.locks # 0 THEN [k |-> unlocked, yielded |-> FALSE]
        ELSE IF done.yield THEN [k |-> vTaskSwitchContext(done), yielded |-> TRUE]
        ELSE [k |-> done, yielded |-> FALSE]

-----------------------------------------------------------------------------
(* Blocking the running task.                                              *)

\* Mutant: a wake time past the wrap goes to the current delayed list.
AddIgnoringOverflow(k, xTicksToWait, xCanBlockIndefinitely) ==
    LET t == k.cur
        woken == TimeToWake(k.tick, xTicksToWait)
        m == [RemoveStateItem(k, t) EXCEPT !.wake[t] = woken]
    IN  [m EXCEPT !.delayed = vListInsert(@, t, m.wake),
                  !.next = Min({@, woken})]

\* Mutant: xNextTaskUnblockTime is not brought forward.
AddKeepingNext(k, xTicksToWait, xCanBlockIndefinitely) ==
    LET t == k.cur
        woken == TimeToWake(k.tick, xTicksToWait)
        m == [RemoveStateItem(k, t) EXCEPT !.wake[t] = woken]
    IN  IF woken < k.tick
        THEN [m EXCEPT !.overflow = vListInsert(@, t, m.wake)]
        ELSE [m EXCEPT !.delayed = vListInsert(@, t, m.wake)]

prvAddCurrentTaskToDelayedList(k, xTicksToWait, xCanBlockIndefinitely) ==
    LET t == k.cur
        xTimeToWake == TimeToWake(k.tick, xTicksToWait)
        m == RemoveStateItem(k, t)
        w == [m EXCEPT !.wake[t] = xTimeToWake]
    IN  IF xTicksToWait = portMAX_DELAY /\ xCanBlockIndefinitely
        THEN [m EXCEPT !.suspended = @ \cup {t}]
        ELSE IF WakeOverflows(k.tick, xTimeToWake)
        THEN [w EXCEPT !.overflow = vListInsert(@, t, w.wake)]
        ELSE [w EXCEPT !.delayed = vListInsert(@, t, w.wake),
                       !.next = Min({@, xTimeToWake})]

\* The values of the tasks' xEventListItems when no event group uses them.
EventItemValue(k) == [t \in Task |-> configMAX_PRIORITIES - k.prio[t]]

\* Mutant: the waiters are kept in the order they came.
PlaceUnordered(k, l, xTicksToWait) ==
    prvAddCurrentTaskToDelayedList([k EXCEPT !.event[l] = Append(@, k.cur)], xTicksToWait, TRUE)

vTaskPlaceOnEventList(k, l, xTicksToWait) ==
    prvAddCurrentTaskToDelayedList(
        [k EXCEPT !.event[l] = vListInsert(@, k.cur, EventItemValue(k))], xTicksToWait, TRUE)

\* xTaskRemoveFromEventList: the first waiter is unblocked.
xTaskRemoveFromEventList(k, l) ==
    LET t == Head(k.event[l])
        m == RemoveEventItem(k, t)
        higher == k.prio[t] > k.prio[k.cur]
        n == IF k.locks = 0 THEN MoveToReady(m, t)
                            ELSE [m EXCEPT !.pending = Append(@, t)]
    IN  [k |-> [n EXCEPT !.yield = @ \/ higher], higher |-> higher]

-----------------------------------------------------------------------------
(* Creating, deleting, suspending, resuming tasks and their priorities.    *)

\* prvAddNewTaskToReadyList, the critical section.
prvAddNewTaskToReadyList(k, t, p) ==
    LET first == k.cur = NULL
        takesOver == ~first /\ ~k.running /\ k.prio[k.cur] <= p
        m == [k EXCEPT !.live = @ \cup {t}, !.prio[t] = p,
                       !.cur = IF first \/ takesOver THEN t ELSE @]
    IN  prvAddTaskToReadyList(m, t)

\* Mutant: the caller's own TCB is freed as well.
DeleteAtOnce(k, t) ==
    prvResetNextTaskUnblockTime(
        [RemoveEventItem(RemoveStateItem(k, t), t) EXCEPT !.live = @ \ {t}])

\* vTaskDelete, the critical section.  The TCB of another task is freed
\* right after it, the TCB of the caller by the idle task.
DeleteTask(k, t) ==
    LET m == RemoveEventItem(RemoveStateItem(k, t), t)
    IN  IF t = k.cur
        THEN [m EXCEPT !.dead = Append(@, t)]
        ELSE prvResetNextTaskUnblockTime([m EXCEPT !.asleep = @ \ {t}, !.gone = @ \cup {t}])

\* prvDeleteTCB: the memory is given back, its contents mean nothing now.
prvDeleteTCB(k, t) ==
    [k EXCEPT !.live = @ \ {t}, !.gone = @ \ {t}, !.prio[t] = tskIDLE_PRIORITY,
              !.notify[t] = "NOT_WAITING", !.value[t] = 0]

\* One round of prvCheckTasksWaitingTermination.
prvCheckTasksWaitingTermination(k) ==
    LET t == Head(k.dead) IN prvDeleteTCB(RemoveStateItem(k, t), t)

\* Mutant: a task that waits for a notification goes on waiting for it.
SuspendWaiting(k, t) ==
    [RemoveEventItem(RemoveStateItem(k, t), t) EXCEPT
        !.suspended = @ \cup {t}, !.asleep = @ \cup {t}]

\* vTaskSuspend, the first critical section.
SuspendTask(k, t) ==
    [RemoveEventItem(RemoveStateItem(k, t), t) EXCEPT
        !.suspended = @ \cup {t}, !.asleep = @ \cup {t},
        !.notify[t] = IF @ = "WAITING" THEN "NOT_WAITING" ELSE @]

prvTaskIsTaskSuspended(k, t) == t \in k.suspended /\ ~InEventList(k, t)

\* vTaskResume: the new state and whether the caller yields.
ResumeTask(k, t) ==
    IF t # k.cur /\ prvTaskIsTaskSuspended(k, t)
    THEN [k |-> [MoveToReady(k, t) EXCEPT !.asleep = @ \ {t}],
          yield |-> k.prio[t] >= k.prio[k.cur]]
    ELSE [k |-> k, yield |-> FALSE]

xTaskResumeFromISR(k, t) ==
    LET m == [k EXCEPT !.asleep = @ \ {t}]
    IN  IF ~prvTaskIsTaskSuspended(k, t) THEN k
        ELSE IF k.locks = 0
        THEN [MoveToReady(m, t) EXCEPT !.yield = @ \/ k.prio[t] >= k.prio[k.cur]]
        ELSE [m EXCEPT !.pending = Append(@, t)]

\* Mutant: a ready task keeps its place in the list of its old priority.
PrioritySetInPlace(k, t, new) ==
    [k |-> [k EXCEPT !.prio[t] = new], yield |-> FALSE]

\* vTaskPrioritySet: the new state and xYieldRequired.  The value of the
\* event list item follows prio (EventItemValue); the item keeps its place.
vTaskPrioritySet(k, t, new) ==
    LET old == k.prio[t]
        set == [k EXCEPT !.prio[t] = new]
    IN  IF old = new THEN [k |-> k, yield |-> FALSE]
        ELSE [k |-> IF Contains(k.ready[old], t)
                    THEN prvAddTaskToReadyList([set EXCEPT !.ready[old] = uxListRemove(@, t)], t)
                    ELSE set,
              yield |-> IF new > old THEN t # k.cur /\ new >= k.prio[k.cur] ELSE t = k.cur]

-----------------------------------------------------------------------------
(* Task notifications.                                                     *)

eNotifyAction ==
    {"eSetBits", "eIncrement", "eSetValueWithOverwrite", "eSetValueWithoutOverwrite", "eNoAction"}

\* The value after a notification with the ulValue 1.
NewValue(v, eAction, received) ==
    CASE eAction = "eSetBits" -> IF v % 2 = 1 THEN v ELSE v + 1
      [] eAction = "eIncrement" -> v + 1
      [] eAction = "eSetValueWithOverwrite" -> 1
      [] eAction = "eSetValueWithoutOverwrite" -> IF received THEN v ELSE 1
      [] eAction = "eNoAction" -> v

Notified(k, t, eAction) ==
    [k EXCEPT !.notify[t] = "RECEIVED",
              !.value[t] = NewValue(@, eAction, k.notify[t] = "RECEIVED")]

\* The new state, and whether the caller yields.
xTaskGenericNotify(k, t, eAction) ==
    LET m == Notified(k, t, eAction)
    IN  IF k.notify[t] = "WAITING"
        THEN [k |-> MoveToReady(m, t), yield |-> k.prio[t] > k.prio[k.cur]]
        ELSE [k |-> m, yield |-> FALSE]

xTaskGenericNotifyFromISR(k, t, eAction) ==
    LET m == Notified(k, t, eAction)
        n == IF k.locks = 0 THEN MoveToReady(m, t) ELSE [m EXCEPT !.pending = Append(@, t)]
    IN  IF k.notify[t] = "WAITING"
        THEN [n EXCEPT !.yield = @ \/ k.prio[t] > k.prio[k.cur]]
        ELSE m

\* xTaskGenericNotifyFromISR with eIncrement, written out in the code.
vTaskGenericNotifyGiveFromISR(k, t) == xTaskGenericNotifyFromISR(k, t, "eIncrement")

xTaskGenericNotifyStateClear(k, t) ==
    [k EXCEPT !.notify[t] = IF @ = "RECEIVED" THEN "NOT_WAITING" ELSE @]

\* With all bits to be cleared.
ulTaskGenericNotifyValueClear(k, t) == [k EXCEPT !.value[t] = 0]

\* The running task waits.  The yield is taken inside the critical section.
AwaitNotification(k, xTicksToWait) ==
    LET m == [k EXCEPT !.notify[k.cur] = "WAITING"]
    IN  IF xTicksToWait > 0
        THEN vTaskSwitchContext(prvAddCurrentTaskToDelayedList(m, xTicksToWait, TRUE))
        ELSE m
=============================================================================
