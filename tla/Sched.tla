------------------------------- MODULE Sched --------------------------------
(***************************************************************************)
(* The scheduler of FreeRTOS-Kernel/tasks.c on the ARM9_s3c2440 port: the  *)
(* task API, the tick (FIQ), interrupts (IRQ) and context switches (SWI).  *)
(*                                                                         *)
(* One step of a task is what it does with interrupts masked, or between   *)
(* two points where an interrupt can change what it reads.  Only           *)
(* pxCurrentTCB runs; pc[t] is where t stopped, arg[t] the local it needs  *)
(* there.  mode is the processor mode:                                     *)
(*   "BOOT"  main() before vTaskStartScheduler                             *)
(*   "SYS"   a task runs                                                   *)
(*   "SVC"   vPortYieldProcessor runs vTaskSwitchContext (svc: its local   *)
(*           uxTopPriority, NULL before it is read)                        *)
(*   "IRQ"   an interrupt handler runs                                     *)
(* SWI and IRQ entry mask IRQ but not FIQ, so the tick can interrupt both; *)
(* start2.s then only calls xTaskIncrementTick (use.tickInHandler).        *)
(***************************************************************************)
EXTENDS Tasks

CONSTANTS
    Uses,       \* the programs: which calls tasks and the ISR make, which
                \* priorities and delays they ask for, whether the tick
                \* interrupts IRQ handlers and SWIs, and maxPended, a bound
                \* on xPendedTicks
    MaxValue    \* bound on ulNotifiedValue

\* No program has both an ISR that resumes and one that notifies a task: a
\* task that waits for ever for a notification counts as suspended, and would
\* be put in xPendingReadyList by each of them.  xPendedTicks is a TickType_t.
ASSUME SchedAssumption ==
    /\ \A u \in Uses :
          /\ u.tickInHandler \in BOOLEAN /\ u.maxPended \in 0..(TickMod - 1)
          /\ u.calls \subseteq {"Delay", "DelayUntil", "SuspendAll", "Suspend",
                                "PrioritySet", "Create", "Yield", "Isr",
                                "Notify", "IsrNotify"}
          /\ ~({"Isr", "IsrNotify"} \subseteq u.calls)
          /\ u.delays \subseteq Tick
          /\ u.priorities \subseteq Priority
    /\ MaxValue \in Nat
    /\ NULL \notin Priority

VARIABLES k, pc, arg, prev, mode, svc, use
vars == <<k, pc, arg, prev, mode, svc, use>>

User == Task \ {Idle}

Init ==
    /\ k = prvInitialiseTaskLists
    /\ pc = [t \in Task |-> "run"]
    /\ arg = [t \in Task |-> 0]
    /\ prev = [t \in Task |-> 0]
    /\ mode = "BOOT"
    /\ svc = NULL
    /\ use \in Uses

\* A handle the application may still use: t exists and was not deleted.
Handle(t) ==
    t \in k.live /\ (t \in ReadyTasks(k) \cup Blocked(k) \cup k.suspended)

At(t, label) == mode = "SYS" /\ k.cur = t /\ pc[t] = label
Goto(t, label) == pc' = [pc EXCEPT ![t] = label]
Rest == UNCHANGED <<arg, prev, mode, svc>>

-----------------------------------------------------------------------------
(* Start-up.                                                               *)

BootCreate(t, p) ==
    /\ mode = "BOOT" /\ t \in User \ k.live
    /\ k' = prvAddNewTaskToReadyList(k, t, p)
    /\ UNCHANGED pc /\ Rest

vTaskStartScheduler ==
    /\ mode = "BOOT"
    /\ k' = [prvAddNewTaskToReadyList(k, Idle, tskIDLE_PRIORITY) EXCEPT
                !.next = portMAX_DELAY, !.running = TRUE, !.tick = 0]
    /\ mode' = "SYS"
    /\ UNCHANGED <<pc, arg, prev, svc>>

-----------------------------------------------------------------------------
(* vTaskDelay, xTaskDelayUntil.                                            *)

vTaskDelay(t, n) ==
    /\ At(t, "run") /\ t # Idle
    /\ IF n > 0
       THEN /\ k' = vTaskSuspendAll(k)
            /\ arg' = [arg EXCEPT ![t] = n]
            /\ Goto(t, "delay")
       ELSE Goto(t, "yield") /\ UNCHANGED <<k, arg>>
    /\ UNCHANGED <<prev, mode, svc>>

DelayAdd(t) ==
    /\ At(t, "delay")
    /\ k' = prvAddCurrentTaskToDelayedList(k, arg[t], FALSE)
    /\ arg' = [arg EXCEPT ![t] = 0]
    /\ Goto(t, "resumeAll")
    /\ UNCHANGED <<prev, mode, svc>>

xTaskDelayUntil(t, n) ==
    /\ At(t, "run") /\ t # Idle /\ n > 0
    /\ k' = vTaskSuspendAll(k)
    /\ arg' = [arg EXCEPT ![t] = n]
    /\ Goto(t, "delayUntil")
    /\ UNCHANGED <<prev, mode, svc>>

DelayUntilAdd(t) ==
    LET xTimeToWake == TimeToWake(prev[t], arg[t])
    IN  /\ At(t, "delayUntil")
        /\ k' = IF xShouldDelay(k.tick, prev[t], xTimeToWake)
                THEN prvAddCurrentTaskToDelayedList(k, (xTimeToWake - k.tick) % TickMod, FALSE)
                ELSE k
        /\ prev' = [prev EXCEPT ![t] = xTimeToWake]
        /\ arg' = [arg EXCEPT ![t] = 0]
        /\ Goto(t, "resumeAll")
        /\ UNCHANGED <<mode, svc>>

\* The common end: yield unless xTaskResumeAll already did.
DelayResume(t) ==
    /\ At(t, "resumeAll")
    /\ LET r == xTaskResumeAll(k)
       IN  k' = r.k /\ Goto(t, IF r.yielded THEN "run" ELSE "yield")
    /\ Rest

-----------------------------------------------------------------------------
(* vTaskSuspendAll ... xTaskResumeAll by the application.                  *)

SuspendAll(t) ==
    /\ At(t, "run") /\ t # Idle
    /\ k' = vTaskSuspendAll(k)
    /\ Goto(t, "locked")
    /\ Rest

ResumeAll(t) ==
    /\ At(t, "locked")
    /\ k' = xTaskResumeAll(k).k
    /\ Goto(t, "run")
    /\ Rest

-----------------------------------------------------------------------------
(* Suspending, resuming, creating, deleting tasks; priorities.             *)

vTaskSuspend(t, u) ==
    /\ At(t, "run") /\ t # Idle /\ u # Idle /\ Handle(u)
    /\ k' = SuspendTask(k, u)
    /\ Goto(t, IF u = t THEN "suspendSelf" ELSE "suspendOther")
    /\ Rest

\* The second critical section of vTaskSuspend.
SuspendReset(t) ==
    /\ At(t, "suspendSelf") \/ At(t, "suspendOther")
    /\ k' = prvResetNextTaskUnblockTime(k)
    /\ Goto(t, IF pc[t] = "suspendSelf" THEN "yield" ELSE "run")
    /\ Rest

vTaskResume(t, u) ==
    /\ At(t, "run") /\ Handle(u)
    /\ LET r == ResumeTask(k, u)
       IN  k' = IF r.yield THEN vTaskSwitchContext(r.k) ELSE r.k
    /\ UNCHANGED pc /\ Rest

xTaskCreate(t, u, p) ==
    /\ At(t, "run") /\ t # Idle /\ u \in User \ k.live
    /\ k' = prvAddNewTaskToReadyList(k, u, p)
    /\ arg' = [arg EXCEPT ![t] = u]
    /\ Goto(t, "created")
    /\ UNCHANGED <<prev, mode, svc>>

\* After the critical section the new TCB is read once more; if it was
\* freed meanwhile the comparison reads whatever the heap left there.
CreateYield(t) ==
    /\ At(t, "created")
    /\ \E yield \in IF arg[t] \in k.live THEN {k.prio[t] < k.prio[arg[t]]} ELSE BOOLEAN :
          Goto(t, IF yield THEN "yield" ELSE "run")
    /\ arg' = [arg EXCEPT ![t] = 0]
    /\ UNCHANGED <<k, prev, mode, svc>>

vTaskDelete(t, u) ==
    /\ At(t, "run") /\ t # Idle /\ u # Idle /\ Handle(u)
    /\ k' = DeleteTask(k, u)
    /\ Goto(t, IF u = t THEN "yield" ELSE "free")
    /\ arg' = IF u = t THEN arg ELSE [arg EXCEPT ![t] = u]
    /\ UNCHANGED <<prev, mode, svc>>

DeleteFree(t) ==
    /\ At(t, "free")
    /\ k' = prvDeleteTCB(k, arg[t])
    /\ arg' = [arg EXCEPT ![t] = 0, ![arg[t]] = 0]
    /\ pc' = [pc EXCEPT ![t] = "run", ![arg[t]] = "run"]
    /\ prev' = [prev EXCEPT ![arg[t]] = 0]
    /\ UNCHANGED <<mode, svc>>

PrioritySet(t, u, p) ==
    /\ At(t, "run") /\ t # Idle /\ u # Idle /\ Handle(u)
    /\ LET r == vTaskPrioritySet(k, u, p)
       IN  k' = IF r.yield THEN vTaskSwitchContext(r.k) ELSE r.k
    /\ UNCHANGED pc /\ Rest

\* prvIdleTask: free what was deleted, yield to tasks of its own priority.
IdleReap ==
    /\ At(Idle, "run") /\ k.dead # <<>>
    /\ k' = prvCheckTasksWaitingTermination(k)
    /\ pc' = [pc EXCEPT ![Head(k.dead)] = "run"]
    /\ arg' = [arg EXCEPT ![Head(k.dead)] = 0]
    /\ prev' = [prev EXCEPT ![Head(k.dead)] = 0]
    /\ UNCHANGED <<mode, svc>>

IdleYield ==
    /\ At(Idle, "run") /\ k.dead = <<>>
    /\ listCURRENT_LIST_LENGTH(k.ready[tskIDLE_PRIORITY]) > 1
    /\ Goto(Idle, "yield")
    /\ UNCHANGED k /\ Rest

-----------------------------------------------------------------------------
(* Task notifications.                                                     *)

\* Between the two critical sections of a wait the task blocks, unless it
\* need not or must not.
ulTaskGenericNotifyTake(t, n) ==
    /\ At(t, "run") /\ t # Idle
    /\ k' = IF k.value[t] = 0 THEN AwaitNotification(k, n) ELSE k
    /\ Goto(t, "take")
    /\ Rest

TakeValue(t, xClearCountOnExit) ==
    /\ At(t, "take")
    /\ k' = [k EXCEPT !.notify[t] = "NOT_WAITING",
                      !.value[t] = IF xClearCountOnExit \/ @ = 0 THEN 0 ELSE @ - 1]
    /\ Goto(t, "run")
    /\ Rest

\* clear: all bits are to be cleared on entry.
xTaskGenericNotifyWait(t, n, clear) ==
    /\ At(t, "run") /\ t # Idle
    /\ k' = IF k.notify[t] = "RECEIVED" THEN k
            ELSE AwaitNotification([k EXCEPT !.value[t] = IF clear THEN 0 ELSE @], n)
    /\ Goto(t, "wait")
    /\ Rest

\* clear: all bits are to be cleared on exit.
WaitEnd(t, clear) ==
    /\ At(t, "wait")
    /\ k' = [k EXCEPT !.notify[t] = "NOT_WAITING",
                      !.value[t] = IF clear /\ k.notify[t] = "RECEIVED" THEN 0 ELSE @]
    /\ Goto(t, "run")
    /\ Rest

Notify(t, u, eAction) ==
    /\ At(t, "run") /\ t # Idle /\ Handle(u) /\ NewValue(k.value[u], eAction, FALSE) <= MaxValue
    /\ LET r == xTaskGenericNotify(k, u, eAction)
       IN  k' = IF r.yield THEN vTaskSwitchContext(r.k) ELSE r.k
    /\ UNCHANGED pc /\ Rest

NotifyClear(t, u) ==
    /\ At(t, "run") /\ t # Idle /\ Handle(u)
    /\ k' \in {xTaskGenericNotifyStateClear(k, u), ulTaskGenericNotifyValueClear(k, u)}
    /\ UNCHANGED pc /\ Rest

-----------------------------------------------------------------------------
(* Context switch by SWI: taskYIELD() and portYIELD_WITHIN_API() outside a *)
(* critical section.                                                       *)

SWI(t) ==
    /\ At(t, "yield") \/ (t # Idle /\ (At(t, "run") \/ At(t, "locked")))
    /\ mode' = "SVC"
    /\ Goto(t, IF pc[t] = "yield" THEN "run" ELSE pc[t])
    /\ UNCHANGED <<k, arg, prev, svc>>

\* vTaskSwitchContext up to the read of uxTopReadyPriority.
SvcEnter ==
    /\ mode = "SVC" /\ svc = NULL
    /\ IF k.locks # 0
       THEN k' = [k EXCEPT !.yield = TRUE] /\ mode' = "SYS" /\ UNCHANGED svc
       ELSE k' = [k EXCEPT !.yield = FALSE] /\ svc' = k.top /\ UNCHANGED mode
    /\ UNCHANGED <<pc, arg, prev>>

SvcScan ==
    /\ mode = "SVC" /\ svc # NULL
    /\ listLIST_IS_EMPTY(k.ready[svc])
    /\ svc' = svc - 1
    /\ UNCHANGED <<k, pc, arg, prev, mode>>

SvcSelect ==
    /\ mode = "SVC" /\ svc # NULL
    /\ ~listLIST_IS_EMPTY(k.ready[svc])
    /\ k' = SelectFrom(k, svc)
    /\ svc' = NULL
    /\ mode' = "SYS"
    /\ UNCHANGED <<pc, arg, prev>>

-----------------------------------------------------------------------------
(* Interrupts.                                                             *)

CanTick == k.locks = 0 \/ k.pended < use.maxPended

\* Mutant: the tick is counted but never switches.
TickWithoutSwitch ==
    /\ mode = "SYS" /\ CanTick
    /\ k' = xTaskIncrementTick(k).k
    /\ UNCHANGED pc /\ Rest

\* The tick interrupts a task.
vTickISR ==
    /\ mode = "SYS" /\ CanTick
    /\ LET r == xTaskIncrementTick(k)
       IN  k' = IF r.switch THEN vTaskSwitchContext(r.k) ELSE r.k
    /\ UNCHANGED pc /\ Rest

\* The tick interrupts a handler: xSwitchRequired is dropped.
PendSwitch ==
    /\ use.tickInHandler /\ mode \in {"SVC", "IRQ"} /\ CanTick
    /\ k' = xTaskIncrementTick(k).k
    /\ UNCHANGED pc /\ Rest

IrqEnter == mode = "SYS" /\ mode' = "IRQ" /\ UNCHANGED <<k, pc, arg, prev, svc>>
IrqExit == mode = "IRQ" /\ mode' = "SYS" /\ UNCHANGED <<k, pc, arg, prev, svc>>

\* An ISR resumes a task; what the call returns is not used, since
\* HandleIRQ returns to the interrupted task in any case.
IsrResume(u) ==
    /\ mode = "IRQ" /\ Handle(u)
    /\ k' = xTaskResumeFromISR(k, u)
    /\ UNCHANGED pc /\ Rest

IsrNotify(u, eAction) ==
    /\ mode = "IRQ" /\ Handle(u) /\ NewValue(k.value[u], eAction, FALSE) <= MaxValue
    /\ k' = IF eAction = "eIncrement" THEN vTaskGenericNotifyGiveFromISR(k, u)
            ELSE xTaskGenericNotifyFromISR(k, u, eAction)
    /\ UNCHANGED pc /\ Rest

-----------------------------------------------------------------------------
\* What a task does on its own accord ...
Api(t) ==
    \/ "Delay" \in use.calls /\ \E n \in use.delays : vTaskDelay(t, n)
    \/ "DelayUntil" \in use.calls /\ \E n \in use.delays : xTaskDelayUntil(t, n)
    \/ "SuspendAll" \in use.calls /\ SuspendAll(t)
    \/ "Suspend" \in use.calls /\ \E u \in User : vTaskSuspend(t, u) \/ vTaskResume(t, u)
    \/ "Create" \in use.calls /\ \E u \in User :
          vTaskDelete(t, u) \/ \E p \in use.priorities : xTaskCreate(t, u, p)
    \/ "PrioritySet" \in use.calls /\ \E u \in User, p \in use.priorities : PrioritySet(t, u, p)
    \/ "Notify" \in use.calls /\
          \/ \E n \in use.delays :
                ulTaskGenericNotifyTake(t, n) \/ \E clear \in BOOLEAN : xTaskGenericNotifyWait(t, n, clear)
          \/ \E u \in User : NotifyClear(t, u) \/ \E eAction \in eNotifyAction : Notify(t, u, eAction)
    \/ "Yield" \in use.calls /\ pc[t] # "yield" /\ SWI(t)

\* ... and what it goes on with once it has called the kernel.
Continue(t) ==
    \/ DelayAdd(t) \/ DelayUntilAdd(t) \/ DelayResume(t) \/ ResumeAll(t)
    \/ SuspendReset(t) \/ CreateYield(t) \/ DeleteFree(t)
    \/ \E clear \in BOOLEAN : TakeValue(t, clear) \/ WaitEnd(t, clear)
    \/ pc[t] = "yield" /\ SWI(t)
    \/ t = Idle /\ (IdleReap \/ IdleYield)

Handler == SvcEnter \/ SvcScan \/ SvcSelect \/ IrqExit

\* A step of the system.
Advance ==
    \/ \E t \in User, p \in use.priorities : BootCreate(t, p)
    \/ vTaskStartScheduler
    \/ \E t \in Task : Api(t) \/ Continue(t)
    \/ Handler
    \/ {"Isr", "IsrNotify"} \cap use.calls # {} /\ IrqEnter
    \/ "Isr" \in use.calls /\ \E u \in User : IsrResume(u)
    \/ "IsrNotify" \in use.calls /\ \E u \in User, eAction \in eNotifyAction : IsrNotify(u, eAction)
    \/ vTickISR \/ PendSwitch

Next == Advance /\ UNCHANGED use

\* The tick stays pending in SRCPND until it is taken, the processor runs
\* handlers to their end, and the current task between interrupts: strong
\* fairness of vTickISR and of Continue(t), weak fairness of Handler, with
\* the enabling conditions spelled out.
Continues(t) ==
    mode = "SYS" /\ k.cur = t /\ pc[t] # "run"
Fairness ==
    /\ []<>(mode = "SYS" /\ CanTick) => []<><<vTickISR>>_vars
    /\ \A t \in User : []<>Continues(t) => []<><<Continue(t)>>_vars
    /\ <>[](mode \in {"SVC", "IRQ"}) => []<><<Handler>>_vars

Spec == Init /\ [][Next]_vars
FairSpec == Spec /\ Fairness

-----------------------------------------------------------------------------
(* Properties.                                                             *)

\* Number of places of the sequence that hold t.
Times(s, t) == Cardinality({i \in DOMAIN s : s[i] = t})

\* Every TCB that exists hangs in exactly one state list, once, and in a
\* ready list only in the one of its priority (tasks.c keeps one
\* xStateListItem per task).  Only a task that vTaskDelete has taken out of
\* its lists and not freed yet is in none.
OneStateList ==
    \A t \in Task :
        LET ready == Cardinality({p \in Priority : Contains(k.ready[p], t)})
            others == Times(k.delayed, t) + Times(k.overflow, t) + Times(k.dead, t)
                      + IF t \in k.suspended THEN 1 ELSE 0
        IN  /\ ready + others = IF t \in k.live \ k.gone THEN 1 ELSE 0
            /\ ready = 1 => Times(k.ready[k.prio[t]], t) = 1

\* Between the critical sections of a wait for a notification.
Waiting(t) == pc[t] \in {"take", "wait"}

\* A task whose event item waits in xPendingReadyList has its state item in
\* another list still, and is not there twice: xTaskResumeAll moves both.  A
\* task whose wait for a notification has timed out may be notified after
\* that: it is ready already.
PendingIsBlocked ==
    /\ \A t \in ToSet(k.pending) :
          /\ t \in k.suspended \cup Blocked(k) \/ (Waiting(t) /\ t \in ReadyTasks(k))
          /\ Times(k.pending, t) = 1
    /\ k.pending # <<>> => k.locks > 0

\* A task that waits for a notification and has got one runs, or is on its
\* way to a ready list: none is lost between the test and the blocking, or
\* while the scheduler is suspended.  But a task that was put to sleep by
\* vTaskSuspend stays asleep, whatever it is notified of, until it is resumed.
NotifiedRuns ==
    \A t \in User :
        /\ t \in k.asleep => t \in k.suspended
        /\ Waiting(t) /\ t \in (k.suspended \cup Blocked(k)) \ (k.asleep \cup ToSet(k.pending)) =>
              k.notify[t] = "WAITING" /\ (pc[t] = "take" => k.value[t] = 0)

\* The delayed lists are sorted, every task in the current one wakes later
\* in this round of the tick counter and every task in the other one before
\* the same count in the next round: nobody oversleeps.
DelayedLists ==
    /\ \A i, j \in DOMAIN k.delayed : i < j => k.wake[k.delayed[i]] <= k.wake[k.delayed[j]]
    /\ \A i, j \in DOMAIN k.overflow : i < j => k.wake[k.overflow[i]] <= k.wake[k.overflow[j]]
    /\ \A t \in ToSet(k.delayed) : k.wake[t] > k.tick
    /\ \A t \in ToSet(k.overflow) : k.wake[t] < k.tick

\* xNextTaskUnblockTime is never later than the first wake time: the test in
\* xTaskIncrementTick that skips the delayed list skips nobody.
NextUnblockNotLate ==
    k.delayed # <<>> => k.next <= k.wake[Head(k.delayed)]

\* No task leaves a delayed list for a ready list before its wake time, unless
\* it waits for a notification and gets one, now or while the scheduler was
\* suspended.
NoEarlyWake ==
    [][\A t \in Blocked(k) \ ToSet(k.pending) :
          t \in ReadyTasks(k') /\ ~(k.notify[t] = "WAITING" /\ k'.notify[t] = "RECEIVED") =>
             (k'.tick - k.tick) % TickMod >= (k.wake[t] - k.tick) % TickMod]_vars

\* "uxTopReadyPriority holds the priority of the highest priority ready
\* state task" (tasks.c), or a higher one: the scan in
\* taskSELECT_HIGHEST_PRIORITY_TASK starts high enough.
TopReadyPriority ==
    mode # "SVC" => \A t \in ReadyTasks(k) : k.prio[t] <= k.top

\* The same where ticks interrupt tasks only.
TopReadyInTasks == use.tickInHandler \/ TopReadyPriority

\* Preemption: whenever a task runs with the scheduler enabled it has the
\* highest priority of all ready tasks, or a switch is already on its way
\* (xYieldPending, or the task is about to yield), provided ticks interrupt
\* tasks only.
Preemptive ==
    (~use.tickInHandler /\ mode = "SYS" /\ k.locks = 0 /\ ~k.yield /\ pc[k.cur] \in {"run", "locked"}) =>
        /\ k.cur \in ReadyTasks(k)
        /\ \A t \in ReadyTasks(k) : k.prio[t] <= k.prio[k.cur]

\* The memory of the running task is not freed under it: vTaskDelete(NULL)
\* leaves that to the idle task.
RunningTaskExists == mode # "BOOT" => k.cur \in k.live

\* A delayed task does not stay delayed.
DelayEnds == \A t \in User : t \in Blocked(k) ~> t \notin Blocked(k)

\* Time slicing: a ready task of the highest priority gets the processor, or
\* loses its place at the top.
AtTop(t) ==
    t \in ReadyTasks(k) /\ \A u \in ReadyTasks(k) : k.prio[u] <= k.prio[t]
TimeSlicing == \A t \in Task : (mode # "BOOT" /\ AtTop(t)) ~> (k.cur = t \/ ~AtTop(t))
=============================================================================
