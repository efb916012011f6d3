------------------------------- MODULE Queue --------------------------------
(***************************************************************************)
(* FreeRTOS-Kernel/queue.c: one queue, shared by the tasks and an ISR.     *)
(*                                                                         *)
(* q is the Queue_t: slots is the storage area, writeTo and readFrom the   *)
(* indices pcWriteTo and pcReadFrom stand for, waiting uxMessagesWaiting,  *)
(* rxLock and txLock the lock counts.  The two lists of waiting tasks are  *)
(* event lists of the kernel state k (module Tasks).                       *)
(*                                                                         *)
(* xQueueGenericSend, xQueueReceive, xQueuePeek and xQueueSemaphoreTake    *)
(* have the same structure and are modelled by the same steps; op[t] holds *)
(* the locals of the call task t is in: what it does, xTicksToWait,        *)
(* xEntryTimeSet and xTimeOut.  A step is a critical section, or the code  *)
(* between two of them; a context switch and an interrupt with its handler *)
(* are one step here (module Sched has the finer ones).                    *)
(***************************************************************************)
EXTENDS Tasks

CONSTANTS
    Item,
    Uses,          \* the ways the queue is used, see below
    InitialPrio    \* priorities the tasks were created with

\* A use of the queue: its length, the values of xCopyPosition and
\* xTicksToWait of the calls, whether tasks peek, whether the queue is a
\* semaphore (uxItemSize is 0), whether the ISR sends and receives, and how
\* many ticks there are (a bound).
ASSUME QueueAssumption ==
    /\ \A u \in Uses :
          /\ u.uxLength \in Nat \ {0}
          /\ u.positions \subseteq {"back", "front", "overwrite"}
          /\ "overwrite" \in u.positions => u.uxLength = 1
          /\ u.waits \subseteq Tick /\ {u.peeks, u.semaphore, u.isr} \subseteq BOOLEAN
          /\ u.semaphore => u.positions = {"back"}
          /\ u.ticks \in 1..(OverflowMod * TickMod)
    /\ InitialPrio \in [Task -> Priority] /\ InitialPrio[Idle] = 0
    /\ EventList = {"xTasksWaitingToSend", "xTasksWaitingToReceive"}
    /\ IsFiniteSet(Task)

VARIABLES k, q, pc, op
vars == <<k, q, pc, op>>

User == Task \ {Idle}

queueUNLOCKED == 0 - 1
queueLOCKED_UNMODIFIED == 0

NoOp == [send |-> FALSE, peek |-> FALSE, item |-> NULL, position |-> "back", ticks |-> 0,
         set |-> FALSE, overflows |-> 0, at |-> 0, path |-> "retry",
         asked |-> 0, start |-> 0]

uxLength == q.use.uxLength

\* prvInitialiseNewQueue and xQueueGenericReset of a new queue.
xQueueGenericReset(u) ==
    [use |-> u, slots |-> [i \in 0..(u.uxLength - 1) |-> NULL], writeTo |-> 0,
     readFrom |-> u.uxLength - 1, waiting |-> 0,
     rxLock |-> queueUNLOCKED, txLock |-> queueUNLOCKED]

\* xTaskCreate before the scheduler starts, of the next task of r.todo.
CreateNext(r) ==
    [k |-> prvAddNewTaskToReadyList(r.k, Head(r.todo), InitialPrio[Head(r.todo)]),
     todo |-> Tail(r.todo)]

\* The scheduler has been started with all the tasks created.
Init ==
    /\ k = LET made == Iterate(CreateNext, Cardinality(Task),
                           [k |-> prvInitialiseTaskLists, todo |-> SetToSeq(User) \o <<Idle>>])
           IN  [made.k EXCEPT !.running = TRUE, !.next = portMAX_DELAY]
    /\ \E u \in Uses : q = xQueueGenericReset(u)
    /\ pc = [t \in Task |-> "run"]
    /\ op = [t \in Task |-> NoOp]

At(t, label) == k.cur = t /\ pc[t] = label
Goto(t, label) == pc' = [pc EXCEPT ![t] = label]

-----------------------------------------------------------------------------
(* The storage area.                                                       *)

\* Mutant: an item that replaces another is counted as a new one.
CopyToQueueCounted(s, x, position) ==
    IF position = "back"
    THEN [s EXCEPT !.slots[s.writeTo] = x,
                   !.writeTo = IF @ + 1 >= uxLength THEN 0 ELSE @ + 1,
                   !.waiting = @ + 1]
    ELSE [s EXCEPT !.slots[s.readFrom] = x,
                   !.readFrom = IF @ = 0 THEN uxLength - 1 ELSE @ - 1,
                   !.waiting = @ + 1]

prvCopyDataToQueue(s, x, position) ==
    IF s.use.semaphore THEN [s EXCEPT !.waiting = @ + 1]
    ELSE IF position = "back"
    THEN [s EXCEPT !.slots[s.writeTo] = x,
                   !.writeTo = IF @ + 1 >= uxLength THEN 0 ELSE @ + 1,
                   !.waiting = @ + 1]
    ELSE [s EXCEPT !.slots[s.readFrom] = x,
                   !.readFrom = IF @ = 0 THEN uxLength - 1 ELSE @ - 1,
                   !.waiting = IF position = "overwrite" /\ @ > 0 THEN @ ELSE @ + 1]

\* prvCopyDataFromQueue, and the item leaves the queue.
prvCopyDataFromQueue(s) ==
    LET from == IF s.readFrom + 1 >= uxLength THEN 0 ELSE s.readFrom + 1
    IN  IF s.use.semaphore THEN [s EXCEPT !.waiting = @ - 1]
        ELSE [s EXCEPT !.readFrom = from, !.slots[from] = NULL, !.waiting = @ - 1]

Room(position) == q.waiting < uxLength \/ position = "overwrite"

\* May the call of task t be carried out now?
Possible(t) == IF op[t].send THEN Room(op[t].position) ELSE q.waiting > 0

\* The list t waits in, and the one it wakes from.
OwnList(t) == IF op[t].send THEN "xTasksWaitingToSend" ELSE "xTasksWaitingToReceive"
PeerList(t) ==
    IF op[t].send \/ op[t].peek THEN "xTasksWaitingToReceive" ELSE "xTasksWaitingToSend"

\* What the call does to the queue.
Transfer(t) ==
    CASE op[t].send -> prvCopyDataToQueue(q, op[t].item, op[t].position)
      [] ~op[t].send /\ op[t].peek -> q
      [] OTHER -> prvCopyDataFromQueue(q)

-----------------------------------------------------------------------------
(* The calls.                                                              *)

Now == k.overflows * TickMod + k.tick

\* asked and start are auxiliary: the timeout asked for and the time of the
\* call, for the property NoEarlyTimeout.
xQueueGenericSend(t, x, position, n) ==
    /\ At(t, "run") /\ t # Idle
    /\ op' = [op EXCEPT ![t] = [NoOp EXCEPT !.send = TRUE, !.item = x, !.ticks = n,
                                            !.position = position, !.asked = n, !.start = Now]]
    /\ Goto(t, "try")
    /\ UNCHANGED <<k, q>>

Take(t, peek, n) ==
    /\ At(t, "run") /\ t # Idle
    /\ op' = [op EXCEPT ![t] = [NoOp EXCEPT !.peek = peek, !.ticks = n, !.asked = n, !.start = Now]]
    /\ Goto(t, "try")
    /\ UNCHANGED <<k, q>>

xQueueReceive(t, n) == ~q.use.semaphore /\ Take(t, FALSE, n)
xQueuePeek(t, n) == q.use.peeks /\ Take(t, TRUE, n)
xQueueSemaphoreTake(t, n) == q.use.semaphore /\ Take(t, FALSE, n)

Return(t) == Goto(t, "run") /\ op' = [op EXCEPT ![t] = NoOp]

\* The critical section at the top of the loop, when there is room or an
\* item: transfer, wake the first task that waits for it, yield if that task
\* has a higher priority.
Succeed(t) ==
    /\ At(t, "try") /\ Possible(t)
    /\ q' = Transfer(t)
    /\ k' = IF k.event[PeerList(t)] = <<>> THEN k
            ELSE LET r == xTaskRemoveFromEventList(k, PeerList(t))
                 IN  IF r.higher THEN vTaskSwitchContext(r.k) ELSE r.k
    /\ Return(t)

\* The same, when there is not and the caller does not want to wait.
FailAtOnce(t) ==
    /\ At(t, "try") /\ ~Possible(t) /\ op[t].ticks = 0
    /\ Return(t)
    /\ UNCHANGED <<k, q>>

\* The same, when the caller wants to wait: the time is noted once.
PrepareToBlock(t) ==
    /\ At(t, "try") /\ ~Possible(t) /\ op[t].ticks > 0
    /\ op' = IF op[t].set THEN op
             ELSE [op EXCEPT ![t].set = TRUE, ![t].overflows = k.overflows, ![t].at = k.tick]
    /\ Goto(t, "suspendAll")
    /\ UNCHANGED <<k, q>>

SuspendAll(t) ==
    /\ At(t, "suspendAll")
    /\ k' = vTaskSuspendAll(k)
    /\ Goto(t, "lock")
    /\ UNCHANGED <<q, op>>

prvLockQueue(s) ==
    [s EXCEPT !.rxLock = IF @ = queueUNLOCKED THEN queueLOCKED_UNMODIFIED ELSE @,
              !.txLock = IF @ = queueUNLOCKED THEN queueLOCKED_UNMODIFIED ELSE @]

Lock(t) ==
    /\ At(t, "lock")
    /\ q' = prvLockQueue(q)
    /\ Goto(t, "timeout")
    /\ UNCHANGED <<k, op>>

\* Mutant: gives up one tick early.
CheckEager(o) ==
    IF o.ticks = portMAX_DELAY THEN [expired |-> FALSE, o |-> o]
    ELSE IF TimedOut(k.tick, k.overflows, o.at, o.overflows, o.ticks - 1)
    THEN [expired |-> TRUE, o |-> [o EXCEPT !.ticks = 0]]
    ELSE [expired |-> FALSE,
          o |-> [o EXCEPT !.ticks = @ - xElapsedTime(k.tick, o.at),
                          !.overflows = k.overflows, !.at = k.tick]]

\* xTaskCheckForTimeOut on the xTimeOut and xTicksToWait of a call.
xTaskCheckForTimeOut(o) ==
    IF o.ticks = portMAX_DELAY THEN [expired |-> FALSE, o |-> o]
    ELSE IF TimedOut(k.tick, k.overflows, o.at, o.overflows, o.ticks)
    THEN [expired |-> TRUE, o |-> [o EXCEPT !.ticks = 0]]
    ELSE [expired |-> FALSE,
          o |-> [o EXCEPT !.ticks = @ - xElapsedTime(k.tick, o.at),
                          !.overflows = k.overflows, !.at = k.tick]]

CheckForTimeOut(t) ==
    /\ At(t, "timeout")
    /\ LET r == xTaskCheckForTimeOut(op[t])
       IN  /\ op' = [op EXCEPT ![t] = [r.o EXCEPT !.path = IF r.expired THEN "expired" ELSE "retry"]]
           /\ Goto(t, IF r.expired THEN "unlockTx" ELSE "isFull")
    /\ UNCHANGED <<k, q>>

\* prvIsQueueFull or prvIsQueueEmpty, a critical section of its own.
CheckAgain(t) ==
    /\ At(t, "isFull")
    /\ Goto(t, IF Possible(t) THEN "unlockTx" ELSE "place")
    /\ UNCHANGED <<k, q, op>>

Place(t) ==
    /\ At(t, "place")
    /\ k' = vTaskPlaceOnEventList(k, OwnList(t), op[t].ticks)
    /\ op' = [op EXCEPT ![t].path = "blocked"]
    /\ Goto(t, "unlockTx")
    /\ UNCHANGED q

\* Mutant: the transfers an ISR made while the queue was locked are dropped.
WakeNobody(a, l) == a

\* One round of a loop of prvUnlockQueue: a counted transfer wakes a waiter.
WakeWaiter(a, l) ==
    IF a.event[l] = <<>> THEN a
    ELSE LET r == xTaskRemoveFromEventList(a, l)
         IN  [r.k EXCEPT !.yield = @ \/ r.higher]

WakeReceiver(a) == WakeWaiter(a, "xTasksWaitingToReceive")
WakeSender(a) == WakeWaiter(a, "xTasksWaitingToSend")

\* prvUnlockQueue, its two critical sections.
UnlockTx(t) ==
    /\ At(t, "unlockTx")
    /\ k' = Iterate(WakeReceiver, q.txLock, k)
    /\ q' = [q EXCEPT !.txLock = queueUNLOCKED]
    /\ Goto(t, "unlockRx")
    /\ UNCHANGED op

UnlockRx(t) ==
    /\ At(t, "unlockRx")
    /\ k' = Iterate(WakeSender, q.rxLock, k)
    /\ q' = [q EXCEPT !.rxLock = queueUNLOCKED]
    /\ Goto(t, "resumeAll")
    /\ UNCHANGED op

\* xTaskResumeAll, then: a task that blocked yields, one that found room or
\* an item goes round the loop, one that ran out of time gives up.
AfterResume(t, yielded) ==
    CASE op[t].path = "blocked" -> IF yielded THEN "try" ELSE "yield"
      [] op[t].path = "retry"   -> "try"
      [] op[t].path = "expired" -> "giveUp"

ResumeAll(t) ==
    /\ At(t, "resumeAll")
    /\ LET r == xTaskResumeAll(k)
       IN  k' = r.k /\ Goto(t, AfterResume(t, r.yielded))
    /\ UNCHANGED <<q, op>>

Yield(t) ==
    /\ At(t, "yield")
    /\ k' = vTaskSwitchContext(k)
    /\ Goto(t, "try")
    /\ UNCHANGED <<q, op>>

\* A receiver looks once more before it reports errQUEUE_EMPTY; a sender
\* reports errQUEUE_FULL.
GiveUp(t) ==
    /\ At(t, "giveUp") /\ (op[t].send \/ q.waiting = 0)
    /\ Return(t)
    /\ UNCHANGED <<k, q>>

LookAgain(t) ==
    /\ At(t, "giveUp") /\ ~op[t].send /\ q.waiting > 0
    /\ Goto(t, "try")
    /\ UNCHANGED <<k, q, op>>

\* prvIdleTask has nothing to free here; it yields to tasks of priority 0.
IdleLoop ==
    /\ At(Idle, "run")
    /\ k' = IF listCURRENT_LIST_LENGTH(k.ready[tskIDLE_PRIORITY]) > 1
            THEN vTaskSwitchContext(k) ELSE k
    /\ UNCHANGED <<q, pc, op>>

-----------------------------------------------------------------------------
(* Interrupts.                                                             *)

\* prvIncrementQueueTxLock and prvIncrementQueueRxLock: a count larger than
\* the number of tasks would wake nobody more.
IncrementLock(count) == IF count < Cardinality(k.live) THEN count + 1 ELSE count

\* The end of the FromISR functions: wake a waiter, or count the transfer
\* for the task that has the queue locked.
IsrWake(locked, l) ==
    k' = IF locked \/ k.event[l] = <<>> THEN k ELSE xTaskRemoveFromEventList(k, l).k

xQueueGenericSendFromISR(x, position) ==
    /\ q.use.isr /\ ~q.use.semaphore /\ Room(position)
    /\ LET s == prvCopyDataToQueue(q, x, position)
       IN  q' = IF q.txLock = queueUNLOCKED THEN s
                ELSE [s EXCEPT !.txLock = IncrementLock(@)]
    /\ IsrWake(q.txLock # queueUNLOCKED, "xTasksWaitingToReceive")
    /\ UNCHANGED <<pc, op>>

xQueueGiveFromISR ==
    /\ q.use.isr /\ q.use.semaphore /\ q.waiting < uxLength
    /\ q' = [q EXCEPT !.waiting = @ + 1,
                      !.txLock = IF @ = queueUNLOCKED THEN @ ELSE IncrementLock(@)]
    /\ IsrWake(q.txLock # queueUNLOCKED, "xTasksWaitingToReceive")
    /\ UNCHANGED <<pc, op>>

xQueueReceiveFromISR ==
    /\ q.use.isr /\ q.waiting > 0
    /\ LET s == prvCopyDataFromQueue(q)
       IN  q' = IF q.rxLock = queueUNLOCKED THEN s
                ELSE [s EXCEPT !.rxLock = IncrementLock(@)]
    /\ IsrWake(q.rxLock # queueUNLOCKED, "xTasksWaitingToSend")
    /\ UNCHANGED <<pc, op>>

\* vTickISR.  The model ends with the last tick xNumOfOverflows can tell
\* apart, and at most one tick is pending.
EndOfTime == Now + k.pended + 1 >= q.use.ticks

vTickISR ==
    /\ ~EndOfTime /\ (k.locks = 0 \/ k.pended = 0)
    /\ LET r == xTaskIncrementTick(k)
       IN  k' = IF r.switch THEN vTaskSwitchContext(r.k) ELSE r.k
    /\ UNCHANGED <<q, pc, op>>

-----------------------------------------------------------------------------
\* A semaphore is given without an item and without waiting (xSemaphoreGive).
Call(t) ==
    \/ \E n \in q.use.waits :
          \/ xQueueReceive(t, n) \/ xQueuePeek(t, n) \/ xQueueSemaphoreTake(t, n)
          \/ ~q.use.semaphore /\ \E x \in Item, position \in q.use.positions :
                xQueueGenericSend(t, x, position, n)
    \/ q.use.semaphore /\ xQueueGenericSend(t, NULL, "back", 0)

Continue(t) ==
    \/ Succeed(t) \/ FailAtOnce(t) \/ PrepareToBlock(t)
    \/ SuspendAll(t) \/ Lock(t) \/ CheckForTimeOut(t) \/ CheckAgain(t) \/ Place(t)
    \/ UnlockTx(t) \/ UnlockRx(t) \/ ResumeAll(t) \/ Yield(t)
    \/ GiveUp(t) \/ LookAgain(t)

Isr ==
    \/ \E x \in Item, position \in q.use.positions : xQueueGenericSendFromISR(x, position)
    \/ xQueueGiveFromISR
    \/ xQueueReceiveFromISR

Next ==
    \/ \E t \in Task : Call(t) \/ Continue(t)
    \/ IdleLoop
    \/ Isr
    \/ vTickISR

Spec == Init /\ [][Next]_vars

-----------------------------------------------------------------------------
(* Properties.                                                             *)

\* The items in the order they will be received; a semaphore holds NULLs.
Contents ==
    [i \in 1..q.waiting |-> IF q.use.semaphore THEN NULL ELSE q.slots[(q.readFrom + i) % uxLength]]

\* The ring buffer behaves as a bounded sequence of items, under any
\* interleaving of tasks and interrupts (xQueueGenericSend, xQueueReceive,
\* xQueuePeek, xQueueSemaphoreTake and the FromISR forms implement QueueSpec).
Abstract == INSTANCE QueueSpec WITH contents <- Contents, Item <- Item \cup {NULL}
ImplementsQueue == Abstract!Spec

Waiting(l) == ToSet(k.event[l])

\* A task that is inside a call and not blocked will look at the queue again.
Active(send) == \E t \in User : pc[t] # "run" /\ op[t].send = send
                               /\ \A l \in EventList : t \notin Waiting(l)

\* No lost wake-up: while the queue is unlocked and holds an item, a receiver
\* may stay blocked only if another one has been woken and will look; and
\* the same for senders and a free slot.
NoLostWakeup ==
    /\ (q.txLock = queueUNLOCKED /\ q.waiting > 0 /\ Waiting("xTasksWaitingToReceive") # {})
          => Active(FALSE)
    /\ (q.rxLock = queueUNLOCKED /\ q.waiting < uxLength /\ Waiting("xTasksWaitingToSend") # {})
          => Active(TRUE)

\* A call that reports a timeout has waited for at least the ticks it asked
\* for (xTaskCheckForTimeOut, also when the call was woken and lost the race
\* for the item, and when the tick counter wrapped).
NoEarlyTimeout ==
    [][\A t \in User :
          (pc[t] = "giveUp" /\ pc'[t] = "run") =>
              /\ Now - op[t].start >= op[t].asked
              /\ op[t].asked < portMAX_DELAY]_vars

\* A task waits in an event list exactly while its state item is in a
\* delayed list or the suspended list.
WaitersAreBlocked ==
    \A l \in EventList : \A t \in Waiting(l) : t \in Blocked(k) \cup k.suspended

\* "This is placed in the list in priority order so the highest priority
\* task is the first to be woken by the event" (vTaskPlaceOnEventList).
HighestPriorityFirst ==
    \A l \in EventList : \A i, j \in DOMAIN k.event[l] :
        i < j => k.prio[k.event[l][i]] >= k.prio[k.event[l][j]]
=============================================================================
